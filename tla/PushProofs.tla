----------------------------- MODULE PushProofs -----------------------------
(***************************************************************************)
(* Theorems about PushStream, for any number of connections, faults,         *)
(* transitions and Deliveries. What a replay contains is found by induction  *)
(* over the ledger; the library's induction theorems take an operator, so    *)
(* the induction is on a set, from the well-foundedness of the naturals.     *)
(***************************************************************************)
EXTENDS PushStream, SequenceTheorems, FiniteSetTheorems, WellFoundedInduction, TLAPS

-----------------------------------------------------------------------------
(* Induction over a set of naturals.                                         *)
LEMMA Least ==
  ASSUME NEW T \in SUBSET Nat, T # {}
  PROVE  \E x \in T : \A y \in T : ~(y < x)
<1> DEFINE R == {ss \in Nat \X Nat : ss[1] < ss[2]}
<1>1. IsWellFoundedOn(R, Nat) BY NatLessThanWellFounded DEF OpToRel
<1>2. \A x, y \in Nat : y < x => <<y, x>> \in R OBVIOUS
<1> HIDE DEF R
<1>3. PICK x \in T : \A y \in T : ~ (<<y, x>> \in R) BY <1>1, WFMin
<1>4. \A y \in T : ~(y < x) BY <1>3, <1>2
<1>5. QED BY <1>4

LEMMA Induction ==
  ASSUME NEW S, 0 \in S, \A n \in Nat : n \in S => n + 1 \in S
  PROVE  \A n \in Nat : n \in S
<1> DEFINE T == {n \in Nat : n \notin S}
<1> SUFFICES ASSUME T # {} PROVE FALSE OBVIOUS
<1>1. PICK x \in T : \A y \in T : ~(y < x) BY Least
<1>2. x # 0 /\ x - 1 \in Nat /\ x - 1 < x BY <1>1
<1>3. x - 1 \in S BY <1>1, <1>2
<1>4. (x - 1) + 1 \in S BY <1>2, <1>3
<1>5. QED BY <1>1, <1>4

-----------------------------------------------------------------------------
(* Replay.                                                                   *)

(* The sequence after one more entry of the ledger.                          *)
OneMore(log, n, i, q) ==
  IF MayReceive(log[n + i]) THEN Append(q, Frame("entry", n + i)) ELSE q

Follows(log, n, k, g) ==
  g = [i \in 0 .. k |-> IF i = 0 THEN <<>> ELSE OneMore(log, n, i, g[i - 1])]

LEMMA AfterExists ==
  ASSUME NEW log, NEW n
  PROVE  \A k \in Nat : \E g : Follows(log, n, k, g)
<1> DEFINE S == {k \in Nat : \E g : Follows(log, n, k, g)}
<1>1. 0 \in S
  <2>1. Follows(log, n, 0, [i \in 0 .. 0 |-> <<>>]) BY DEF Follows
  <2>2. QED BY <2>1
<1>2. ASSUME NEW k \in Nat, k \in S PROVE k + 1 \in S
  <2>1. PICK g : Follows(log, n, k, g) BY <1>2
  <2> DEFINE h == [i \in 0 .. (k + 1) |-> IF i = k + 1 THEN OneMore(log, n, k + 1, g[k]) ELSE g[i]]
  <2>2. \A i \in 0 .. k : g[i] = IF i = 0 THEN <<>> ELSE OneMore(log, n, i, g[i - 1])
    BY <2>1 DEF Follows
  <2>3. ASSUME NEW i \in 0 .. (k + 1)
        PROVE  h[i] = IF i = 0 THEN <<>> ELSE OneMore(log, n, i, h[i - 1])
    <3>1. CASE i = k + 1
      <4>1. h[i] = OneMore(log, n, k + 1, g[k]) BY <3>1
      <4>2. h[i - 1] = g[k] BY <3>1
      <4>3. QED BY <3>1, <4>1, <4>2
    <3>2. CASE i # k + 1
      <4>1. i \in 0 .. k /\ h[i] = g[i] BY <3>2
      <4>2. i # 0 => h[i - 1] = g[i - 1] BY <3>2
      <4>3. QED BY <2>2, <4>1, <4>2
    <3>3. QED BY <3>1, <3>2
  <2>4. DOMAIN h = 0 .. (k + 1) /\ h = [i \in DOMAIN h |-> h[i]] OBVIOUS
  <2> HIDE DEF h
  <2>5. Follows(log, n, k + 1, h) BY <2>3, <2>4 DEF Follows
  <2>6. QED BY <2>5
<1> HIDE DEF S
<1>3. \A k \in Nat : k \in S BY <1>1, <1>2, Induction
<1>4. QED BY <1>3 DEF S

(* The entries n + 1 .. n + i that are for the Bridge, in order.             *)
Lists(log, n, i, q) ==
  /\ q \in Seq(Frames)
  /\ \A j \in 1 .. Len(q) : q[j].k = "entry" /\ q[j].n \in (n + 1) .. (n + i)
  /\ \A m \in (n + 1) .. (n + i) : MayReceive(log[m]) => \E j \in 1 .. Len(q) : q[j] = Frame("entry", m)
  /\ \A j \in 1 .. Len(q) : \A m \in (n + 1) .. (q[j].n - 1) :
       MayReceive(log[m]) => \E l \in 1 .. (j - 1) : q[l] = Frame("entry", m)

LEMMA ListsOneMore ==
  ASSUME NEW log, NEW n \in Nat, NEW i \in Nat, NEW q, Lists(log, n, i, q)
  PROVE  Lists(log, n, i + 1, OneMore(log, n, i + 1, q))
<1> DEFINE f == Frame("entry", n + (i + 1))
<1>1. f \in Frames /\ f.k = "entry" /\ f.n = n + (i + 1) BY DEF Frames, Frame
<1>2. q \in Seq(Frames) BY DEF Lists
<1>3. CASE ~MayReceive(log[n + (i + 1)])
  <2>1. OneMore(log, n, i + 1, q) = q BY <1>3 DEF OneMore
  <2>2. \A m \in (n + 1) .. (n + (i + 1)) : MayReceive(log[m]) => m \in (n + 1) .. (n + i) BY <1>3
  <2>3. QED BY <2>1, <2>2 DEF Lists
<1>4. CASE MayReceive(log[n + (i + 1)])
  <2> DEFINE p == Append(q, f)
             z == Len(q)
  <2>1. OneMore(log, n, i + 1, q) = p BY <1>4 DEF OneMore
  <2>2. /\ p \in Seq(Frames) /\ Len(p) = z + 1 /\ p[z + 1] = f /\ z \in Nat
        /\ \A j \in 1 .. z : p[j] = q[j]
    BY <1>1, <1>2, AppendProperties, LenProperties
  <2> HIDE DEF p, z, f
  <2>3. /\ \A j \in 1 .. z : q[j].k = "entry" /\ q[j].n \in (n + 1) .. (n + i)
        /\ \A m \in (n + 1) .. (n + i) : MayReceive(log[m]) => \E j \in 1 .. z : q[j] = Frame("entry", m)
        /\ \A j \in 1 .. z : \A m \in (n + 1) .. (q[j].n - 1) :
             MayReceive(log[m]) => \E l \in 1 .. (j - 1) : q[l] = Frame("entry", m)
    BY DEF Lists, z
  <2>4. \A j \in 1 .. Len(p) : p[j].k = "entry" /\ p[j].n \in (n + 1) .. (n + (i + 1))
    BY <1>1, <2>2, <2>3
  <2>5. ASSUME NEW m \in (n + 1) .. (n + (i + 1)), MayReceive(log[m])
        PROVE  \E j \in 1 .. Len(p) : p[j] = Frame("entry", m)
    <3>1. CASE m = n + (i + 1) BY <2>2, <3>1 DEF f
    <3>2. CASE m # n + (i + 1)
      <4>1. PICK j \in 1 .. z : q[j] = Frame("entry", m) BY <2>3, <2>5, <3>2
      <4>2. QED BY <2>2, <4>1
    <3>3. QED BY <3>1, <3>2
  <2>6. ASSUME NEW j \in 1 .. Len(p), NEW m \in (n + 1) .. (p[j].n - 1), MayReceive(log[m])
        PROVE  \E l \in 1 .. (j - 1) : p[l] = Frame("entry", m)
    <3>1. CASE j = z + 1
      <4>1. m \in (n + 1) .. (n + i) BY <1>1, <2>2, <2>6, <3>1
      <4>2. PICK l \in 1 .. z : q[l] = Frame("entry", m) BY <2>3, <2>6, <4>1
      <4>3. QED BY <2>2, <3>1, <4>2
    <3>2. CASE j # z + 1
      <4>1. j \in 1 .. z /\ p[j] = q[j] BY <2>2, <3>2
      <4>2. PICK l \in 1 .. (j - 1) : q[l] = Frame("entry", m) BY <2>3, <2>6, <4>1
      <4>3. l \in 1 .. z BY <2>2, <4>1
      <4>4. QED BY <2>2, <4>2, <4>3
    <3>3. QED BY <3>1, <3>2
  <2>7. QED BY <2>1, <2>2, <2>4, <2>5, <2>6 DEF Lists
<1>5. QED BY <1>3, <1>4

(* What a replay holds: the entries after n that are for the Bridge, each    *)
(* after those before it.                                                    *)
LEMMA ReplayLists ==
  ASSUME NEW log \in Seq(Entries), NEW n \in 0 .. Len(log)
  PROVE  Lists(log, n, Len(log) - n, Replay(log, n))
<1> DEFINE k == Len(log) - n
           f == CHOOSE g : g = [i \in 0 .. k |-> IF i = 0 THEN <<>>
                                  ELSE IF MayReceive(log[n + i]) THEN Append(g[i - 1], Frame("entry", n + i))
                                  ELSE g[i - 1]]
           S == {i \in Nat : i <= k => Lists(log, n, i, f[i])}
<1>1. k \in Nat /\ n \in Nat BY LenProperties
<1>2. Replay(log, n) = f[k] BY DEF Replay
<1>3. Follows(log, n, k, f)
  <2>1. \E g : g = [i \in 0 .. k |-> IF i = 0 THEN <<>>
                                  ELSE IF MayReceive(log[n + i]) THEN Append(g[i - 1], Frame("entry", n + i))
                                  ELSE g[i - 1]]
    <3>1. PICK g : Follows(log, n, k, g) BY <1>1, AfterExists
    <3>2. g = [i \in 0 .. k |-> IF i = 0 THEN <<>>
                                  ELSE IF MayReceive(log[n + i]) THEN Append(g[i - 1], Frame("entry", n + i))
                                  ELSE g[i - 1]]
      BY <3>1 DEF Follows, OneMore
    <3>3. QED BY <3>2
  <2>2. f = [i \in 0 .. k |-> IF i = 0 THEN <<>>
                                  ELSE IF MayReceive(log[n + i]) THEN Append(f[i - 1], Frame("entry", n + i))
                                  ELSE f[i - 1]]
    BY <2>1
  <2>3. QED BY <2>2 DEF Follows, OneMore
<1> HIDE DEF f
<1>4. \A i \in 0 .. k : f[i] = IF i = 0 THEN <<>> ELSE OneMore(log, n, i, f[i - 1])
  BY <1>3 DEF Follows
<1>5. 0 \in S
  <2>1. f[0] = <<>> BY <1>1, <1>4
  <2>2. Lists(log, n, 0, <<>>) BY <1>1 DEF Lists
  <2>3. QED BY <2>1, <2>2
<1>6. ASSUME NEW i \in Nat, i \in S PROVE i + 1 \in S
  <2>1. CASE i + 1 <= k
    <3>1. Lists(log, n, i, f[i]) BY <1>1, <1>6, <2>1
    <3>2. f[i + 1] = OneMore(log, n, i + 1, f[i]) BY <1>1, <1>4, <2>1
    <3>3. QED BY <1>1, <3>1, <3>2, ListsOneMore
  <2>2. CASE ~(i + 1 <= k) BY <2>2
  <2>3. QED BY <2>1, <2>2
<1> HIDE DEF S
<1>7. \A i \in Nat : i \in S BY <1>5, <1>6, Induction
<1>8. QED BY <1>1, <1>2, <1>7 DEF S
-----------------------------------------------------------------------------
(* Queues of frames.                                                         *)

Grown(log, log2) ==
  /\ log \in Seq(Entries) /\ log2 \in Seq(Entries) /\ Len(log) <= Len(log2)
  /\ \A m \in 1 .. Len(log) : log2[m] = log[m]

LEMMA ReachedGrows ==
  ASSUME NEW log, NEW log2, Grown(log, log2), NEW h, NEW h2, h \subseteq h2,
         NEW q, NEW i, NEW n \in Int, n <= Len(log), Reached(log, h, q, i, n)
  PROVE  Reached(log2, h2, q, i, n)
<1> SUFFICES ASSUME NEW m \in 1 .. n, MayReceive(log2[m])
             PROVE  m \in h2 \/ \E j \in 1 .. (i - 1) : q[j] = Frame("entry", m)
  BY DEF Reached
<1>1. m \in 1 .. Len(log) /\ Len(log) \in Nat BY LenProperties DEF Grown
<1>2. MayReceive(log[m]) BY <1>1 DEF Grown
<1>3. QED BY <1>2 DEF Reached

LEMMA CoveredGrows ==
  ASSUME NEW log, NEW log2, Grown(log, log2), NEW h, NEW h2, h \subseteq h2,
         NEW q \in Seq(Frames), Covered(log, h, q)
  PROVE  Covered(log2, h2, q)
<1> SUFFICES ASSUME NEW i \in 1 .. Len(q)
             PROVE  /\ q[i].k = "entry" => q[i].n \in 1 .. Len(log2) /\ Reached(log2, h2, q, i, q[i].n - 1)
                    /\ q[i].k = "caught_up" => q[i].n <= Len(log2) /\ Reached(log2, h2, q, i, q[i].n)
  BY DEF Covered
<1>1. Len(log) \in Nat /\ Len(log2) \in Nat /\ Len(log) <= Len(log2) BY LenProperties DEF Grown
<1>2. q[i] \in Frames BY ElementOfSeq
<1>3. q[i].n \in Nat BY <1>2 DEF Frames
<1>4. CASE q[i].k = "entry"
  <2>1. q[i].n \in 1 .. Len(log) /\ Reached(log, h, q, i, q[i].n - 1) BY <1>4 DEF Covered
  <2>2. q[i].n - 1 \in Int /\ q[i].n - 1 <= Len(log) BY <1>1, <1>3, <2>1
  <2>3. Reached(log2, h2, q, i, q[i].n - 1) BY <2>1, <2>2, ReachedGrows
  <2>4. QED BY <1>1, <1>4, <2>1, <2>3
<1>5. CASE q[i].k = "caught_up"
  <2>1. q[i].n <= Len(log) /\ Reached(log, h, q, i, q[i].n) BY <1>5 DEF Covered
  <2>2. Reached(log2, h2, q, i, q[i].n) BY <1>3, <2>1, ReachedGrows
  <2>3. QED BY <1>1, <1>3, <1>5, <2>1, <2>2
<1>6. QED BY <1>4, <1>5

(* The first frame is taken off, and if it is an entry it was handled.       *)
LEMMA ReachedPopped ==
  ASSUME NEW log, NEW h, NEW h2, h \subseteq h2, NEW q \in Seq(Frames), q # <<>>,
         q[1].k = "entry" => q[1].n \in h2,
         NEW i \in 1 .. Len(q), NEW n \in Int, Reached(log, h, q, i + 1, n)
  PROVE  Reached(log, h2, Tail(q), i, n)
<1> SUFFICES ASSUME NEW m \in 1 .. n, MayReceive(log[m]), m \notin h2
             PROVE  \E j \in 1 .. (i - 1) : Tail(q)[j] = Frame("entry", m)
  BY DEF Reached
<1>1. Len(q) \in Nat BY LenProperties
<1>2. PICK j \in 1 .. i : q[j] = Frame("entry", m) BY DEF Reached
<1>3. q[j].k = "entry" /\ q[j].n = m BY <1>2 DEF Frame
<1>4. j # 1 BY <1>3
<1>5. /\ Len(Tail(q)) = Len(q) - 1
      /\ \A x \in 1 .. Len(Tail(q)) : Tail(q)[x] = q[x + 1]
  BY HeadTailProperties
<1>6. j - 1 \in 1 .. (i - 1) /\ Tail(q)[j - 1] = q[j] BY <1>1, <1>2, <1>4, <1>5
<1>7. QED BY <1>2, <1>6

LEMMA CoveredPopped ==
  ASSUME NEW log, NEW h, NEW h2, h \subseteq h2, NEW q \in Seq(Frames), q # <<>>,
         q[1].k = "entry" => q[1].n \in h2, Covered(log, h, q)
  PROVE  Covered(log, h2, Tail(q))
<1> DEFINE t == Tail(q)
<1>1. Len(q) \in Nat BY LenProperties
<1>2. /\ Len(t) = Len(q) - 1 /\ t \in Seq(Frames)
      /\ \A x \in 1 .. Len(t) : t[x] = q[x + 1]
  BY HeadTailProperties
<1> HIDE DEF t
<1> SUFFICES ASSUME NEW i \in 1 .. Len(t)
             PROVE  /\ t[i].k = "entry" => t[i].n \in 1 .. Len(log) /\ Reached(log, h2, t, i, t[i].n - 1)
                    /\ t[i].k = "caught_up" => t[i].n <= Len(log) /\ Reached(log, h2, t, i, t[i].n)
  BY DEF Covered, t
<1>3. t[i] = q[i + 1] /\ i + 1 \in 1 .. Len(q) /\ i \in 1 .. Len(q) BY <1>1, <1>2
<1>4. q[i + 1] \in Frames BY <1>3, ElementOfSeq
<1>5. t[i].n \in Nat /\ t[i].n - 1 \in Int BY <1>3, <1>4 DEF Frames
<1>6. /\ t[i].k = "entry" => t[i].n \in 1 .. Len(log) /\ Reached(log, h, q, i + 1, t[i].n - 1)
      /\ t[i].k = "caught_up" => t[i].n <= Len(log) /\ Reached(log, h, q, i + 1, t[i].n)
  BY <1>3 DEF Covered
<1>7. t[i].k = "entry" => Reached(log, h2, t, i, t[i].n - 1)
  BY <1>3, <1>5, <1>6, ReachedPopped DEF t
<1>8. t[i].k = "caught_up" => Reached(log, h2, t, i, t[i].n)
  BY <1>3, <1>5, <1>6, ReachedPopped DEF t
<1>9. QED BY <1>6, <1>7, <1>8

(* The queue is cut.                                                         *)
LEMMA CoveredCut ==
  ASSUME NEW log, NEW h, NEW q \in Seq(Frames), NEW k \in 0 .. Len(q), Covered(log, h, q)
  PROVE  /\ SubSeq(q, 1, k) \in Seq(Frames) /\ Len(SubSeq(q, 1, k)) = k
         /\ \A i \in 1 .. k : SubSeq(q, 1, k)[i] = q[i]
         /\ Covered(log, h, SubSeq(q, 1, k))
<1> DEFINE t == SubSeq(q, 1, k)
<1>1. Len(q) \in Nat /\ k \in Nat BY LenProperties
<1>2. t \in Seq(Frames) /\ Len(t) = k /\ \A i \in 1 .. k : t[i] = q[i]
  BY <1>1, SubSeqProperties
<1> HIDE DEF t
<1>3. ASSUME NEW i \in 1 .. k, NEW n, Reached(log, h, q, i, n) PROVE Reached(log, h, t, i, n)
  <2>1. \A j \in 1 .. (i - 1) : t[j] = q[j] BY <1>1, <1>2
  <2>2. QED BY <1>3, <2>1 DEF Reached
<1>4. \A i \in 1 .. k : i \in 1 .. Len(q) BY <1>1
<1>5. Covered(log, h, t) BY <1>2, <1>3, <1>4 DEF Covered
<1>6. QED BY <1>2, <1>5 DEF t
(* What is before a place stays there when the queue grows.                  *)
LEMMA ReachedFurther ==
  ASSUME NEW log, NEW h, NEW q \in Seq(Frames), NEW p \in Seq(Frames), Len(q) <= Len(p),
         \A i \in 1 .. Len(q) : p[i] = q[i],
         NEW i \in 1 .. (Len(q) + 1), NEW k \in Int, i <= k, NEW n, Reached(log, h, q, i, n)
  PROVE  Reached(log, h, p, k, n)
<1> SUFFICES ASSUME NEW m \in 1 .. n, MayReceive(log[m]), m \notin h
             PROVE  \E j \in 1 .. (k - 1) : p[j] = Frame("entry", m)
  BY DEF Reached
<1>1. PICK j \in 1 .. (i - 1) : q[j] = Frame("entry", m) BY DEF Reached
<1>2. Len(q) \in Nat BY LenProperties
<1>3. j \in 1 .. Len(q) /\ j \in 1 .. (k - 1) BY <1>1, <1>2
<1>4. QED BY <1>1, <1>3

(* A replay from what the queue reaches is added.                            *)
LEMMA CoveredSent ==
  ASSUME NEW log, NEW log2, Grown(log, log2), NEW h, NEW q \in Seq(Frames), NEW n \in 0 .. Len(log),
         Covered(log, h, q), Reached(log, h, q, Len(q) + 1, n)
  PROVE  LET p == q \o Replay(log2, n)
         IN  /\ p \in Seq(Frames) /\ Len(p) >= Len(q)
             /\ \A i \in 1 .. Len(q) : p[i] = q[i]
             /\ \A i \in (Len(q) + 1) .. Len(p) : p[i].k = "entry"
             /\ Covered(log2, h, p) /\ Reached(log2, h, p, Len(p) + 1, Len(log2))
<1> DEFINE r == Replay(log2, n)
           p == q \o r
           z == Len(q)
           y == Len(r)
           L == Len(log2)
<1>1. /\ log2 \in Seq(Entries) /\ L \in Nat /\ n \in 0 .. L /\ n \in Nat /\ z \in Nat
      /\ Len(log) \in Nat /\ n <= Len(log)
  BY LenProperties DEF Grown
<1>2. Lists(log2, n, L - n, r) BY <1>1, ReplayLists
<1> HIDE DEF r
<1>3. r \in Seq(Frames) /\ y \in Nat BY <1>2, LenProperties DEF Lists
<1>4. /\ \A j \in 1 .. y : r[j].k = "entry" /\ r[j].n \in (n + 1) .. (n + (L - n))
      /\ \A m \in (n + 1) .. (n + (L - n)) : MayReceive(log2[m]) => \E j \in 1 .. y : r[j] = Frame("entry", m)
      /\ \A j \in 1 .. y : \A m \in (n + 1) .. (r[j].n - 1) :
           MayReceive(log2[m]) => \E l \in 1 .. (j - 1) : r[l] = Frame("entry", m)
  BY <1>2 DEF Lists
<1>5. /\ p \in Seq(Frames) /\ Len(p) = z + y
      /\ \A i \in 1 .. z : p[i] = q[i]
      /\ \A j \in 1 .. y : p[z + j] = r[j]
  BY <1>1, <1>3, ConcatProperties
<1>6. Covered(log2, h, q) /\ Reached(log2, h, q, z + 1, n)
  BY <1>1, CoveredGrows, ReachedGrows
<1> HIDE DEF p, z, y, L
<1>7. z <= Len(p) /\ z + 1 \in 1 .. (z + 1) BY <1>1, <1>3, <1>5
<1>8. \A k \in Int : z + 1 <= k => Reached(log2, h, p, k, n)
  BY <1>1, <1>5, <1>6, <1>7, ReachedFurther DEF z
<1>9. ASSUME NEW j \in 1 .. (y + 1), NEW b \in n .. L,
             \A m \in (n + 1) .. b : MayReceive(log2[m]) => \E l \in 1 .. (j - 1) : r[l] = Frame("entry", m)
      PROVE  Reached(log2, h, p, z + j, b)
  <2> SUFFICES ASSUME NEW m \in 1 .. b, MayReceive(log2[m]), m \notin h
               PROVE  \E x \in 1 .. ((z + j) - 1) : p[x] = Frame("entry", m)
    BY DEF Reached
  <2>1. z + j \in Int /\ z + 1 <= z + j BY <1>1, <1>3
  <2>2. CASE m \in 1 .. n BY <1>8, <2>1, <2>2 DEF Reached
  <2>3. CASE m \in (n + 1) .. b
    <3>1. PICK l \in 1 .. (j - 1) : r[l] = Frame("entry", m) BY <1>9, <2>3
    <3>2. l \in 1 .. y /\ z + l \in 1 .. ((z + j) - 1) BY <1>1, <1>3, <3>1
    <3>3. p[z + l] = Frame("entry", m) BY <1>5, <3>1, <3>2
    <3>4. QED BY <3>2, <3>3
  <2>4. QED BY <1>1, <2>2, <2>3
<1>10. ASSUME NEW i \in 1 .. Len(p)
       PROVE  /\ p[i].k = "entry" => p[i].n \in 1 .. L /\ Reached(log2, h, p, i, p[i].n - 1)
              /\ p[i].k = "caught_up" => p[i].n <= L /\ Reached(log2, h, p, i, p[i].n)
              /\ i > z => p[i].k = "entry"
  <2>1. CASE i \in 1 .. z
    <3>1. p[i] = q[i] /\ ~(i > z) BY <1>1, <1>5, <2>1
    <3>2. i \in 1 .. (z + 1) /\ i \in Int /\ i <= i BY <1>1, <2>1
    <3>3. \A b : Reached(log2, h, q, i, b) => Reached(log2, h, p, i, b)
      BY <1>5, <1>7, <3>2, ReachedFurther DEF z
    <3>4. QED BY <1>6, <2>1, <3>1, <3>3 DEF Covered, z, L
  <2>2. CASE i \in (z + 1) .. (z + y)
    <3> DEFINE j == i - z
    <3>1. j \in 1 .. y /\ i = z + j BY <1>1, <1>3, <2>2
    <3> HIDE DEF j
    <3>2. p[i] = r[j] BY <1>5, <3>1
    <3>3. p[i].k = "entry" /\ p[i].n \in (n + 1) .. L BY <1>1, <1>4, <3>1, <3>2
    <3>4. p[i].n - 1 \in n .. L /\ j \in 1 .. (y + 1) BY <1>1, <1>3, <3>1, <3>3
    <3>5. \A m \in (n + 1) .. (p[i].n - 1) :
            MayReceive(log2[m]) => \E l \in 1 .. (j - 1) : r[l] = Frame("entry", m)
      BY <1>4, <3>1, <3>2
    <3>6. Reached(log2, h, p, i, p[i].n - 1) BY <1>9, <3>1, <3>4, <3>5
    <3>7. p[i].n \in 1 .. L BY <1>1, <3>3
    <3>8. QED BY <3>3, <3>6, <3>7
  <2>3. QED BY <1>1, <1>3, <1>5, <2>1, <2>2
<1>11. Reached(log2, h, p, Len(p) + 1, L)
  <2>1. \A m \in (n + 1) .. L : MayReceive(log2[m]) => \E l \in 1 .. ((y + 1) - 1) : r[l] = Frame("entry", m)
    BY <1>1, <1>3, <1>4
  <2>2. L \in n .. L /\ y + 1 \in 1 .. (y + 1) BY <1>1, <1>3
  <2>3. Reached(log2, h, p, z + (y + 1), L) BY <1>9, <2>1, <2>2
  <2>4. z + (y + 1) = Len(p) + 1 BY <1>1, <1>3, <1>5
  <2>5. QED BY <2>3, <2>4
<1>12. Covered(log2, h, p) BY <1>10 DEF Covered, L
<1>13. \A i \in (z + 1) .. Len(p) : p[i].k = "entry" BY <1>1, <1>3, <1>5, <1>10
<1>14. Len(p) >= z BY <1>1, <1>3, <1>5
<1>15. QED BY <1>5, <1>11, <1>12, <1>13, <1>14 DEF p, r, z, L

(* The queue of a connection that is authenticated: the whole replay, and    *)
(* then the end of the catch-up.                                             *)
LEMMA CoveredFresh ==
  ASSUME NEW log \in Seq(Entries), NEW h, NEW n \in 0 .. Len(log),
         \A m \in 1 .. n : MayReceive(log[m]) => m \in h
  PROVE  LET p == <<Frame("authenticated", n)>> \o Replay(log, n) \o <<Frame("caught_up", Len(log))>>
         IN  /\ p \in Seq(Frames) /\ p # <<>> /\ p[1].k = "authenticated"
             /\ \A i \in 2 .. Len(p) : p[i].k # "authenticated"
             /\ Covered(log, h, p) /\ Reached(log, h, p, Len(p) + 1, Len(log))
<1> DEFINE q == <<Frame("authenticated", n)>>
           s == q \o Replay(log, n)
           e == Frame("caught_up", Len(log))
           p == s \o <<e>>
           L == Len(log)
           z == Len(s)
<1>1. L \in Nat /\ n \in Nat BY LenProperties
<1>2. Frame("authenticated", n) \in Frames /\ e \in Frames /\ e.k = "caught_up" /\ e.n = L
  BY <1>1 DEF Frame, Frames
<1>3. q \in Seq(Frames) /\ Len(q) = 1 /\ q[1].k = "authenticated" BY <1>2 DEF Frame
<1>4. Grown(log, log) BY <1>1 DEF Grown
<1>5. Covered(log, h, q) BY <1>3 DEF Covered
<1>6. Reached(log, h, q, Len(q) + 1, n) BY DEF Reached
<1> HIDE DEF q, e
<1>7. /\ s \in Seq(Frames) /\ z >= 1 /\ s[1] = q[1]
      /\ \A i \in 2 .. z : s[i].k = "entry"
      /\ Covered(log, h, s) /\ Reached(log, h, s, z + 1, L)
  <2>1. /\ s \in Seq(Frames) /\ Len(s) >= Len(q)
        /\ \A i \in 1 .. Len(q) : s[i] = q[i]
        /\ \A i \in (Len(q) + 1) .. Len(s) : s[i].k = "entry"
        /\ Covered(log, h, s) /\ Reached(log, h, s, Len(s) + 1, Len(log))
    BY <1>3, <1>4, <1>5, <1>6, CoveredSent
  <2> HIDE DEF s
  <2>2. QED BY <1>3, <2>1
<1> HIDE DEF s
<1>8. z \in Nat BY <1>7, LenProperties
<1>9. /\ p \in Seq(Frames) /\ Len(p) = z + 1 /\ p[z + 1] = e
      /\ \A i \in 1 .. z : p[i] = s[i]
  BY <1>2, <1>7, <1>8, ConcatProperties
<1> HIDE DEF p, z, L
<1>10. \A i \in 1 .. (z + 1) : \A k \in Int : \A b : i <= k /\ Reached(log, h, s, i, b) => Reached(log, h, p, k, b)
  BY <1>7, <1>8, <1>9, ReachedFurther DEF z
<1>11. ASSUME NEW i \in 1 .. Len(p)
       PROVE  /\ p[i].k = "entry" => p[i].n \in 1 .. L /\ Reached(log, h, p, i, p[i].n - 1)
              /\ p[i].k = "caught_up" => p[i].n <= L /\ Reached(log, h, p, i, p[i].n)
              /\ i # 1 => p[i].k # "authenticated"
  <2>1. CASE i = z + 1
    <3>1. p[i] = e /\ i \in Int BY <1>8, <1>9, <2>1
    <3>2. Reached(log, h, p, i, L) BY <1>7, <1>8, <1>10, <2>1, <3>1
    <3>3. QED BY <1>1, <1>2, <3>1, <3>2 DEF L
  <2>2. CASE i \in 1 .. z
    <3>1. p[i] = s[i] /\ i \in Int /\ i <= i /\ i \in 1 .. (z + 1) BY <1>8, <1>9, <2>2
    <3>2. i # 1 => s[i].k = "entry" BY <1>7, <1>8, <2>2
    <3>3. \A b : Reached(log, h, s, i, b) => Reached(log, h, p, i, b) BY <1>10, <3>1
    <3>4. QED BY <1>7, <2>2, <3>1, <3>2, <3>3 DEF Covered, L, z
  <2>3. QED BY <1>8, <1>9, <2>1, <2>2
<1>12. Covered(log, h, p) BY <1>11 DEF Covered, L
<1>13. Reached(log, h, p, Len(p) + 1, L)
  <2>1. z + 1 \in 1 .. (z + 1) /\ Len(p) + 1 \in Int /\ z + 1 <= Len(p) + 1 BY <1>8, <1>9
  <2>2. QED BY <1>7, <1>10, <2>1
<1>14. p # <<>> /\ p[1].k = "authenticated" BY <1>3, <1>7, <1>8, <1>9
<1>15. \A i \in 2 .. Len(p) : p[i].k # "authenticated" BY <1>8, <1>9, <1>11
<1>16. QED BY <1>9, <1>12, <1>13, <1>14, <1>15 DEF p, s, q, e, L
-----------------------------------------------------------------------------
(* The ledger.                                                               *)

Pending == {x \in Transitions : outbox[x] = "pending"}

(* SetToSeq lists a finite set, each element once.                           *)
LEMMA ListsSet ==
  ASSUME NEW S, IsFiniteSet(S)
  PROVE  /\ Cardinality(S) \in Nat /\ SetToSeq(S) \in [1 .. Cardinality(S) -> S]
         /\ \A i, j \in 1 .. Cardinality(S) : SetToSeq(S)[i] = SetToSeq(S)[j] => i = j
         /\ \A x \in S : \E i \in 1 .. Cardinality(S) : SetToSeq(S)[i] = x
<1> DEFINE n == Cardinality(S)
           f == SetToSeq(S)
<1>1. n \in Nat /\ ExistsBijection(1 .. n, S) BY FS_CardinalityType
<1>2. PICK g \in [1 .. n -> S] : \A a, b \in 1 .. n : g[a] = g[b] => a = b
  BY <1>1 DEF ExistsBijection, Bijection, Injection, IsInjective
<1>3. IsInjective(g) BY <1>2 DEF IsInjective
<1>4. f \in [1 .. n -> S] /\ IsInjective(f) BY <1>2, <1>3 DEF SetToSeq
<1> HIDE DEF f
<1>5. \A i, j \in 1 .. n : f[i] = f[j] => i = j BY <1>4 DEF IsInjective
<1>6. f \in Surjection(1 .. n, S)
  <2>1. f \in Injection(1 .. n, S) BY <1>4, <1>5 DEF Injection, IsInjective
  <2>2. IsFiniteSet(1 .. n) /\ Cardinality(1 .. n) = n
    BY <1>1, FS_Interval
  <2>3. QED BY <2>1, <2>2, FS_Injection
<1>7. QED BY <1>1, <1>4, <1>5, <1>6 DEF Surjection, f

LEMMA PendingFinite ==
  IsFiniteSet(Pending) /\ Pending \subseteq Transitions
<1>1. Pending \in SUBSET Transitions BY DEF Pending
<1>2. QED BY <1>1, FS_Subset, PushAssumption

(* The drain appends one entry for each pending transition.                  *)
LEMMA PromotedIs ==
  ASSUME NEW log \in Seq(Entries)
  PROVE  LET n == Cardinality(Pending)
             z == Len(log)
         IN  /\ n \in Nat /\ Promoted(log) \in Seq(Entries) /\ Len(Promoted(log)) = z + n
             /\ \A i \in 1 .. z : Promoted(log)[i] = log[i]
             /\ \A i \in 1 .. n : Promoted(log)[z + i] = [of |-> SetToSeq(Pending)[i], to |-> "bridge"]
             /\ Grown(log, Promoted(log))
<1> DEFINE n == Cardinality(Pending)
           z == Len(log)
           f == SetToSeq(Pending)
           t == [i \in 1 .. n |-> [of |-> f[i], to |-> "bridge"]]
<1>1. n \in Nat /\ f \in [1 .. n -> Pending] BY PendingFinite, ListsSet
<1>2. Promoted(log) = log \o t BY DEF Promoted, Pending
<1> HIDE DEF f, n
<1>3. \A i \in 1 .. n : [of |-> f[i], to |-> "bridge"] \in Entries
  BY <1>1, PendingFinite DEF Entries
<1>4. t \in Seq(Entries) /\ Len(t) = n /\ \A i \in 1 .. n : t[i] = [of |-> f[i], to |-> "bridge"]
  BY <1>1, <1>3
<1> HIDE DEF t
<1>5. /\ log \o t \in Seq(Entries) /\ Len(log \o t) = z + n
      /\ \A i \in 1 .. z : (log \o t)[i] = log[i]
      /\ \A i \in 1 .. n : (log \o t)[z + i] = t[i]
  BY <1>1, <1>4, ConcatProperties, LenProperties
<1>6. Grown(log, log \o t) BY <1>1, <1>5, LenProperties DEF Grown
<1>7. QED BY <1>1, <1>2, <1>4, <1>5, <1>6 DEF f, n

(* A broadcast: the ledger grows.                                            *)
LEMMA LogGrows ==
  ASSUME NEW log \in Seq(Entries), NEW es \in Seq(Entries)
  PROVE  LET p == Promoted(log) \o es
         IN  /\ Grown(log, p) /\ Grown(Promoted(log), p) /\ p \in Seq(Entries)
             /\ Len(p) = Len(Promoted(log)) + Len(es)
             /\ \A i \in 1 .. Len(es) : p[Len(Promoted(log)) + i] = es[i]
<1> DEFINE a == Promoted(log)
           p == a \o es
<1>1. a \in Seq(Entries) /\ Grown(log, a) BY PromotedIs
<1> HIDE DEF a
<1>2. Len(a) \in Nat /\ Len(es) \in Nat /\ Len(log) \in Nat BY <1>1, LenProperties
<1>3. /\ p \in Seq(Entries) /\ Len(p) = Len(a) + Len(es)
      /\ \A i \in 1 .. Len(a) : p[i] = a[i]
      /\ \A i \in 1 .. Len(es) : p[Len(a) + i] = es[i]
  BY <1>1, <1>2, ConcatProperties
<1> HIDE DEF p
<1>4. Grown(a, p) BY <1>1, <1>2, <1>3 DEF Grown
<1>5. Grown(log, p) BY <1>1, <1>2, <1>3 DEF Grown
<1>6. QED BY <1>3, <1>4, <1>5 DEF a, p
-----------------------------------------------------------------------------
(* The connections.                                                          *)

LEMMA LinkTypes ==
  ASSUME NEW cs \in [Conns -> Links], NEW c \in Conns
  PROVE  /\ cs[c].srv \in {"none", "open", "auth", "gone"}
         /\ cs[c].down \in Seq(Frames) /\ Len(cs[c].down) \in Nat
         /\ cs[c].up \in Nat \cup {NoCursor}
         /\ cs[c].brg \in {"none", "open", "auth", "closed", "failed"}
         /\ cs[c].seen \in BOOLEAN
<1>1. cs[c] \in Links OBVIOUS
<1>2. cs[c].down \in Seq(Frames) BY <1>1 DEF Links
<1>3. QED BY <1>1, <1>2, LenProperties DEF Links

LEMMA LedgerTypes ==
  ASSUME NEW g \in Ledgers
  PROVE  /\ g.log \in Seq(Entries) /\ Len(g.log) \in Nat /\ g.ckpt \in Nat
         /\ g.reg \in Conns \cup {0} /\ g.due \in SUBSET Parcels
<1>1. g.log \in Seq(Entries) BY DEF Ledgers
<1>2. QED BY <1>1, LenProperties DEF Ledgers

LEMMA UptoGrows ==
  ASSUME NEW g, NEW g2, Grown(g.log, g2.log), NEW r, NEW r2, r.handled \subseteq r2.handled,
         NEW n \in Int, Upto(g, r, n)
  PROVE  Upto(g2, r2, n)
<1>1. n <= Len(g.log) /\ Len(g.log) \in Nat /\ Len(g2.log) \in Nat /\ Len(g.log) <= Len(g2.log)
  BY LenProperties DEF Upto, Grown
<1>2. \A m \in 1 .. n : g2.log[m] = g.log[m]
  <2>1. \A m \in 1 .. n : m \in 1 .. Len(g.log) BY <1>1
  <2>2. QED BY <2>1 DEF Grown
<1>3. n <= Len(g2.log) BY <1>1
<1>4. QED BY <1>2, <1>3 DEF Upto

(* At most one connection has the first frame.                               *)
LEMMA FirstIsOne ==
  ASSUME NEW cs, NEW b \in Conns, NEW c \in Conns, First(cs, b), First(cs, c)
  PROVE  b = c
<1>1. ~(b < c) /\ ~(c < b) BY DEF First
<1>2. b \in Int /\ c \in Int BY PushAssumption DEF Conns
<1>3. QED BY <1>1, <1>2

LEMMA HandlesKept ==
  ASSUME NEW cs, NEW cs2, NEW r, NEW r2, HandlesFirst(cs, r), r2.busy => r.busy,
         \A y \in Conns : First(cs, y) /\ cs[y].brg \in {"auth", "closed"} /\ r.busy =>
           /\ cs2[y].brg \in {"auth", "closed"} /\ cs2[y].down # <<>>
           /\ \A x \in Conns : x < y => cs2[x].down = <<>>
  PROVE  HandlesFirst(cs2, r2)
BY DEF HandlesFirst, First

(* The ledger grows, and what it gained is sent.                             *)
LEMMA BroadcastKeeps ==
  ASSUME NEW g, NEW g2, NEW cs, NEW r, LinksOK(g, cs, r), g2 \in Ledgers,
         Grown(g.log, g2.log), g2.ckpt = g.ckpt, g2.reg = g.reg
  PROVE  LinksOK(g2, Sent(cs, g.reg, Len(g.log), g2.log), r)
<1> DEFINE c == g.reg
           cs2 == Sent(cs, g.reg, Len(g.log), g2.log)
           sent == c # 0 /\ cs[c].brg # "failed"
           p == cs[c].down \o Replay(g2.log, Len(g.log))
<1>1. g \in Ledgers /\ cs \in [Conns -> Links] /\ r \in Readers BY DEF LinksOK, TypesOK
<1>2. g.log \in Seq(Entries) /\ Len(g.log) \in Nat /\ g.ckpt \in Nat /\ g.reg \in Conns \cup {0}
  BY <1>1, LedgerTypes
<1>3. r.cursor \in Nat /\ r.handled \in SUBSET Nat BY <1>1 DEF Readers
<1>4. ASSUME sent
      PROVE  /\ c \in Conns /\ cs[c].srv = "auth" /\ cs[c].brg \in {"open", "auth"}
             /\ p \in Seq(Frames) /\ Len(p) >= Len(cs[c].down)
             /\ \A i \in 1 .. Len(cs[c].down) : p[i] = cs[c].down[i]
             /\ \A i \in (Len(cs[c].down) + 1) .. Len(p) : p[i].k = "entry"
             /\ Covered(g2.log, r.handled, p) /\ Reached(g2.log, r.handled, p, Len(p) + 1, Len(g2.log))
  <2>1. c \in Conns BY <1>2, <1>4
  <2>2. cs[c].srv = "auth" /\ cs[c].brg # "none" /\ cs[c].brg # "closed" BY <2>1 DEF LinksOK, EndsOK, EndOK
  <2>3. cs[c].brg \in {"open", "auth"} BY <1>1, <1>4, <2>1, <2>2, LinkTypes
  <2>4. Covered(g.log, r.handled, cs[c].down) BY <2>1, <2>3 DEF LinksOK, FramesOK, Counts
  <2>5. Reached(g.log, r.handled, cs[c].down, Len(cs[c].down) + 1, Len(g.log))
    BY <1>4 DEF LinksOK, FramesOK
  <2>6. cs[c].down \in Seq(Frames) /\ Len(g.log) \in 0 .. Len(g.log) BY <1>1, <1>2, <2>1, LinkTypes
  <2>7. /\ p \in Seq(Frames) /\ Len(p) >= Len(cs[c].down)
        /\ \A i \in 1 .. Len(cs[c].down) : p[i] = cs[c].down[i]
        /\ \A i \in (Len(cs[c].down) + 1) .. Len(p) : p[i].k = "entry"
        /\ Covered(g2.log, r.handled, p) /\ Reached(g2.log, r.handled, p, Len(p) + 1, Len(g2.log))
    BY <2>4, <2>5, <2>6, CoveredSent
  <2>8. QED BY <2>1, <2>2, <2>3, <2>7
<1>5. /\ cs2 \in [Conns -> Links]
      /\ \A x \in Conns : /\ cs2[x].srv = cs[x].srv /\ cs2[x].up = cs[x].up /\ cs2[x].brg = cs[x].brg
                          /\ cs2[x].seen = cs[x].seen
                          /\ ~(sent /\ x = c) => cs2[x].down = cs[x].down
      /\ sent => cs2[c].down = p
  <2>1. CASE ~sent BY <1>1, <2>1 DEF Sent
  <2>2. CASE sent
    <3>1. cs2 = [cs EXCEPT ![c] = [cs[c] EXCEPT !.down = p]] BY <1>1, <1>4, <2>2 DEF Sent
    <3>2. [cs[c] EXCEPT !.down = p] \in Links BY <1>1, <1>4, <2>2 DEF Links
    <3> HIDE DEF p, cs2
    <3>3. cs[c] \in Links BY <1>1, <1>4, <2>2
    <3>4. /\ [cs[c] EXCEPT !.down = p].srv = cs[c].srv /\ [cs[c] EXCEPT !.down = p].up = cs[c].up
          /\ [cs[c] EXCEPT !.down = p].brg = cs[c].brg /\ [cs[c] EXCEPT !.down = p].seen = cs[c].seen
          /\ [cs[c] EXCEPT !.down = p].down = p
      BY <3>3 DEF Links
    <3>5. QED BY <1>1, <1>4, <2>2, <3>1, <3>2, <3>4
  <2>3. QED BY <2>1, <2>2
<1> HIDE DEF cs2, p, sent
<1>6. TypesOK(g2, cs2, r) BY <1>1, <1>5 DEF TypesOK
<1>7. CursorsOK(g2, cs2, r)
  <2>1. CursorsOK(g, cs, r) BY DEF LinksOK
  <2>2. \A n \in Int : Upto(g, r, n) => Upto(g2, r, n) BY UptoGrows
  <2>3. Upto(g2, r, g2.ckpt) /\ Upto(g2, r, r.cursor) BY <1>2, <1>3, <2>1, <2>2 DEF CursorsOK
  <2>4. \A n \in r.handled : n \in 1 .. Len(g2.log) /\ Upto(g2, r, n)
    <3>1. Len(g2.log) \in Nat /\ Len(g.log) <= Len(g2.log) BY LenProperties DEF Grown
    <3>2. QED BY <1>2, <1>3, <2>1, <2>2, <3>1 DEF CursorsOK
  <2>5. ASSUME NEW x \in Conns, cs2[x].up # NoCursor PROVE Upto(g2, r, cs2[x].up)
    <3>1. cs[x].up # NoCursor /\ cs2[x].up = cs[x].up BY <1>5, <2>5
    <3>2. cs[x].up \in Nat BY <1>1, <3>1, LinkTypes
    <3>3. QED BY <2>1, <2>2, <3>1, <3>2 DEF CursorsOK
  <2>6. QED BY <2>3, <2>4, <2>5 DEF CursorsOK
<1>8. EndsOK(g2, cs2)
  <2>1. EndsOK(g, cs) BY DEF LinksOK
  <2>2. SUFFICES ASSUME NEW x \in Conns PROVE EndOK(g2, x, cs2[x]) BY DEF EndsOK
  <2>3. CASE ~(sent /\ x = c)
    <3>1. /\ cs2[x].srv = cs[x].srv /\ cs2[x].up = cs[x].up /\ cs2[x].brg = cs[x].brg
          /\ cs2[x].down = cs[x].down
      BY <1>5, <2>3
    <3>2. QED BY <2>1, <3>1 DEF EndsOK, EndOK
  <2>4. CASE sent /\ x = c
    <3> DEFINE d == cs[c].down
    <3>1. /\ cs2[c].srv = "auth" /\ cs2[c].brg = cs[c].brg /\ cs2[c].brg \in {"open", "auth"}
          /\ cs2[c].down = p
      BY <1>4, <1>5, <2>4
    <3>2. d \in Seq(Frames) /\ Len(d) \in Nat /\ p \in Seq(Frames) /\ Len(p) \in Nat
      BY <1>1, <1>4, <2>4, LinkTypes, LenProperties
    <3>3. /\ \A i \in 2 .. Len(d) : d[i].k # "authenticated"
          /\ cs[c].brg = "open" => d # <<>> /\ d[1].k = "authenticated"
      BY <1>4, <2>1, <2>4 DEF EndsOK, EndOK
    <3> HIDE DEF d
    <3>4. Len(p) >= Len(d) /\ \A i \in 1 .. Len(d) : p[i] = d[i] BY <1>4, <2>4 DEF d
    <3>5. \A i \in (Len(d) + 1) .. Len(p) : p[i].k # "authenticated"
      <4>1. \A i \in (Len(d) + 1) .. Len(p) : p[i].k = "entry" BY <1>4, <2>4 DEF d
      <4>2. QED BY <4>1
    <3>6. \A i \in 2 .. Len(p) : p[i].k # "authenticated"
      <4>1. \A i \in 2 .. Len(p) : i \in 2 .. Len(d) \/ i \in (Len(d) + 1) .. Len(p) BY <3>2
      <4>2. \A i \in 2 .. Len(d) : i \in 1 .. Len(d) BY <3>2
      <4>3. QED BY <3>3, <3>4, <3>5, <4>1, <4>2
    <3>7. cs[c].brg = "open" => p # <<>> /\ p[1].k = "authenticated"
      <4>1. d # <<>> => Len(d) > 0 BY <3>2, EmptySeq
      <4>2. QED BY <3>2, <3>3, <3>4, <4>1
    <3>8. QED BY <2>4, <3>1, <3>6, <3>7 DEF EndOK
  <2>5. QED BY <2>3, <2>4
<1>9. OneAtATime(cs2, r)
  <2>1. OneAtATime(cs, r) BY DEF LinksOK
  <2>2. QED BY <1>5, <2>1 DEF OneAtATime
<1>10. FramesOK(g2, cs2, r)
  <2>1. FramesOK(g, cs, r) BY DEF LinksOK
  <2>2. ASSUME NEW x \in Conns, Counts(cs2, r, x) PROVE Covered(g2.log, r.handled, cs2[x].down)
    <3>1. CASE sent /\ x = c BY <1>4, <1>5, <3>1
    <3>2. CASE ~(sent /\ x = c)
      <4>1. cs2[x].down = cs[x].down /\ cs2[x].brg = cs[x].brg BY <1>5, <3>2
      <4>2. \A b \in Conns : cs2[b].down = <<>> => cs[b].down = <<>>
        <5>1. ASSUME sent, p = <<>> PROVE cs[c].down = <<>>
          <6>1. Len(cs[c].down) <= 0 /\ cs[c].down \in Seq(Frames) /\ Len(cs[c].down) \in Nat
            BY <1>1, <1>4, <5>1, LinkTypes
          <6>2. QED BY <6>1, EmptySeq
        <5>2. QED BY <1>5, <5>1
      <4>3. First(cs2, x) => First(cs, x) BY <4>1, <4>2 DEF First
      <4>4. Counts(cs, r, x) BY <2>2, <4>1, <4>3 DEF Counts
      <4>5. Covered(g.log, r.handled, cs[x].down) BY <2>1, <4>4 DEF FramesOK
      <4>6. cs[x].down \in Seq(Frames) BY <1>1, LinkTypes
      <4>7. QED BY <4>1, <4>5, <4>6, CoveredGrows
    <3>3. QED BY <3>1, <3>2
  <2>3. ASSUME g2.reg # 0, cs2[g2.reg].brg # "failed"
        PROVE  Reached(g2.log, r.handled, cs2[g2.reg].down, Len(cs2[g2.reg].down) + 1, Len(g2.log))
    <3>1. c \in Conns BY <1>2, <2>3
    <3>2. sent BY <1>5, <2>3, <3>1 DEF sent
    <3>3. QED BY <1>4, <1>5, <3>2
  <2>4. QED BY <2>2, <2>3 DEF FramesOK
<1>11. HandlesFirst(cs2, r)
  <2>1. HandlesFirst(cs, r) /\ OneAtATime(cs, r) /\ EndsOK(g, cs) BY DEF LinksOK
  <2>2. ASSUME NEW y \in Conns, First(cs, y), cs[y].brg \in {"auth", "closed"}
        PROVE  /\ cs2[y].brg \in {"auth", "closed"} /\ cs2[y].down # <<>>
               /\ \A x \in Conns : x < y => cs2[x].down = <<>>
    <3>1. cs2[y].brg = cs[y].brg BY <1>5
    <3>2. cs2[y].down # <<>>
      <4>1. CASE ~(sent /\ y = c) BY <1>5, <2>2, <4>1 DEF First
      <4>2. CASE sent /\ y = c
        <5>1. cs[c].down # <<>> /\ cs[c].down \in Seq(Frames) /\ Len(cs[c].down) \in Nat
          BY <1>1, <2>2, <4>2, LinkTypes DEF First
        <5>2. Len(cs[c].down) > 0 BY <5>1, EmptySeq
        <5>3. QED BY <1>4, <1>5, <4>2, <5>2
      <4>3. QED BY <4>1, <4>2
    <3>3. ASSUME NEW x \in Conns, x < y PROVE cs2[x].down = <<>>
      <4>1. cs[y].srv # "none" BY <2>1, <2>2 DEF EndsOK, EndOK
      <4>2. cs[x].srv = "gone" \/ cs[x].brg = "failed" BY <2>1, <3>3, <4>1 DEF OneAtATime
      <4>3. ~(sent /\ x = c) BY <1>4, <4>2
      <4>4. QED BY <1>5, <2>2, <3>3, <4>3 DEF First
    <3>4. QED BY <2>2, <3>1, <3>2, <3>3
  <2>3. QED BY <2>1, <2>2, HandlesKept
<1>12. QED BY <1>6, <1>7, <1>8, <1>9, <1>10, <1>11 DEF LinksOK, cs2

LEMMA BroadcastStep ==
  ASSUME NEW cs, NEW c, NEW es \in Seq(Entries), NEW due \in SUBSET Parcels, NEW r, ledger \in Ledgers,
         LinksOK([ledger EXCEPT !.reg = c], cs, r), Broadcast(cs, c, es, due)
  PROVE  LinksOK(ledger', conn', r)
<1> DEFINE g == [ledger EXCEPT !.reg = c]
           log == Promoted(ledger.log) \o es
           g2 == [ledger EXCEPT !.log = log, !.reg = c, !.due = due]
<1>1. ledger.log \in Seq(Entries) BY LedgerTypes
<1>2. Grown(ledger.log, log) /\ log \in Seq(Entries) BY <1>1, LogGrows
<1>3. ledger' = g2 /\ conn' = Sent(cs, c, Len(ledger.log), log) BY DEF Broadcast
<1>4. g \in Ledgers BY DEF LinksOK, TypesOK
<1> HIDE DEF log
<1>5. g.log = ledger.log /\ g.reg = c /\ g.ckpt = ledger.ckpt BY DEF Ledgers
<1>6. g2.log = log /\ g2.reg = c /\ g2.ckpt = ledger.ckpt BY DEF Ledgers
<1>7. g2 \in Ledgers
  <2>1. c \in Conns \cup {0} BY <1>4, <1>5, LedgerTypes
  <2>2. QED BY <1>2, <2>1 DEF Ledgers
<1> HIDE DEF g, g2
<1>8. LinksOK(g, cs, r) BY DEF g
<1>9. Grown(g.log, g2.log) /\ g2.ckpt = g.ckpt /\ g2.reg = g.reg BY <1>2, <1>5, <1>6
<1>10. LinksOK(g2, Sent(cs, g.reg, Len(g.log), g2.log), r) BY <1>7, <1>8, <1>9, BroadcastKeeps
<1>11. QED BY <1>3, <1>5, <1>6, <1>10

LEMMA GrownSelf ==
  ASSUME NEW log \in Seq(Entries)
  PROVE  Grown(log, log)
<1>1. Len(log) \in Nat BY LenProperties
<1>2. QED BY <1>1 DEF Grown

(* One connection, the cursors and the reader's flags change, and the entries *)
(* do not.                                                                   *)
LEMMA LinkReplaced ==
  ASSUME NEW g, NEW g2, NEW cs, NEW cn \in Links, NEW r, NEW r2, NEW c \in Conns,
         LinksOK(g, cs, r), g2 \in Ledgers, r2 \in Readers, g2.log = g.log,
         r.handled \subseteq r2.handled, Upto(g2, r2, g2.ckpt), Upto(g2, r2, r2.cursor),
         \A n \in r2.handled : n \in r.handled \/ (n \in 1 .. Len(g2.log) /\ Upto(g2, r2, n)),
         cn.up # NoCursor => Upto(g2, r2, cn.up),
         EndOK(g2, c, cn), \A x \in Conns \ {c} : g2.reg = x <=> g.reg = x,
         OneAtATime([cs EXCEPT ![c] = cn], r2), HandlesFirst([cs EXCEPT ![c] = cn], r2),
         Counts([cs EXCEPT ![c] = cn], r2, c) => Covered(g.log, r2.handled, cn.down),
         r2.busy => \A x \in Conns \ {c} : First([cs EXCEPT ![c] = cn], x) => r.busy /\ First(cs, x),
         g2.reg = c /\ cn.brg # "failed" =>
           Reached(g.log, r2.handled, cn.down, Len(cn.down) + 1, Len(g.log))
  PROVE  LinksOK(g2, [cs EXCEPT ![c] = cn], r2)
<1> DEFINE cs2 == [cs EXCEPT ![c] = cn]
<1>1. g \in Ledgers /\ cs \in [Conns -> Links] /\ r \in Readers BY DEF LinksOK, TypesOK
<1>2. g.log \in Seq(Entries) /\ Len(g.log) \in Nat /\ g2.reg \in Conns \cup {0} /\ g.reg \in Conns \cup {0}
  BY <1>1, LedgerTypes
<1>3. cs2 \in [Conns -> Links] /\ cs2[c] = cn /\ \A x \in Conns \ {c} : cs2[x] = cs[x] BY <1>1
<1>4. Grown(g.log, g2.log) BY <1>2, GrownSelf
<1>5. r.handled \in SUBSET Nat BY <1>1 DEF Readers
<1> HIDE DEF cs2
<1>6. TypesOK(g2, cs2, r2) BY <1>3 DEF TypesOK
<1>7. CursorsOK(g2, cs2, r2)
  <2>1. CursorsOK(g, cs, r) BY DEF LinksOK
  <2>2. \A n \in Int : Upto(g, r, n) => Upto(g2, r2, n) BY <1>4, UptoGrows
  <2>3. \A n \in r2.handled : n \in 1 .. Len(g2.log) /\ Upto(g2, r2, n)
    BY <1>5, <2>1, <2>2 DEF CursorsOK
  <2>4. ASSUME NEW x \in Conns, cs2[x].up # NoCursor PROVE Upto(g2, r2, cs2[x].up)
    <3>1. CASE x = c BY <1>3, <2>4, <3>1
    <3>2. CASE x # c
      <4>1. cs2[x].up = cs[x].up BY <1>3, <3>2
      <4>2. cs[x].up \in Nat BY <1>1, <2>4, <4>1, LinkTypes
      <4>3. QED BY <2>1, <2>2, <2>4, <4>1, <4>2 DEF CursorsOK
    <3>3. QED BY <3>1, <3>2
  <2>5. QED BY <2>3, <2>4 DEF CursorsOK
<1>8. EndsOK(g2, cs2)
  <2>1. EndsOK(g, cs) BY DEF LinksOK
  <2>2. ASSUME NEW x \in Conns, x # c PROVE EndOK(g2, x, cs[x])
    <3>1. EndOK(g, x, cs[x]) /\ (g2.reg = x <=> g.reg = x) BY <2>1, <2>2 DEF EndsOK
    <3>2. QED BY <3>1 DEF EndOK
  <2>3. QED BY <1>3, <2>2 DEF EndsOK
<1>9. OneAtATime(cs2, r2) BY DEF cs2
<1>10. FramesOK(g2, cs2, r2)
  <2>1. FramesOK(g, cs, r) BY DEF LinksOK
  <2>2. ASSUME NEW x \in Conns, Counts(cs2, r2, x) PROVE Covered(g2.log, r2.handled, cs2[x].down)
    <3>1. CASE x = c BY <1>3, <2>2, <3>1 DEF cs2
    <3>2. CASE x # c
      <4>1. cs2[x] = cs[x] BY <1>3, <3>2
      <4>2. r2.busy /\ First(cs2, x) => r.busy /\ First(cs, x) BY <3>2 DEF cs2
      <4>3. Counts(cs, r, x) BY <2>2, <4>1, <4>2 DEF Counts
      <4>4. Covered(g.log, r.handled, cs[x].down) BY <2>1, <4>3 DEF FramesOK
      <4>5. cs[x].down \in Seq(Frames) BY <1>1, LinkTypes
      <4>6. QED BY <1>4, <4>1, <4>4, <4>5, CoveredGrows
    <3>3. QED BY <3>1, <3>2
  <2>3. ASSUME g2.reg # 0, cs2[g2.reg].brg # "failed"
        PROVE  Reached(g2.log, r2.handled, cs2[g2.reg].down, Len(cs2[g2.reg].down) + 1, Len(g2.log))
    <3>1. CASE g2.reg = c BY <1>3, <2>3, <3>1
    <3>2. CASE g2.reg # c
      <4>1. g2.reg \in Conns \ {c} /\ g.reg = g2.reg /\ cs2[g2.reg] = cs[g.reg] BY <1>2, <1>3, <2>3, <3>2
      <4> DEFINE d == cs[g.reg].down
      <4>2. Reached(g.log, r.handled, d, Len(d) + 1, Len(g.log))
        BY <2>1, <2>3, <4>1 DEF FramesOK
      <4> HIDE DEF d
      <4>3. Reached(g2.log, r2.handled, d, Len(d) + 1, Len(g.log)) BY <1>2, <1>4, <4>2, ReachedGrows
      <4>4. QED BY <4>1, <4>3 DEF d
    <3>3. QED BY <3>1, <3>2
  <2>4. QED BY <2>2, <2>3 DEF FramesOK
<1>11. QED BY <1>6, <1>7, <1>8, <1>9, <1>10 DEF LinksOK, cs2
LEMMA LinkChanged ==
  ASSUME NEW g, NEW g2, NEW cs, NEW cn \in Links, NEW r, NEW r2, NEW c \in Conns,
         LinksOK(g, cs, r), g2 \in Ledgers, r2 \in Readers, g2.log = g.log, g2.ckpt = g.ckpt,
         r2.handled = r.handled, r2.cursor = r.cursor,
         cn.up = NoCursor \/ cn.up = cs[c].up \/ cn.up = r.cursor,
         EndOK(g2, c, cn), \A x \in Conns \ {c} : g2.reg = x <=> g.reg = x,
         OneAtATime([cs EXCEPT ![c] = cn], r2), HandlesFirst([cs EXCEPT ![c] = cn], r2),
         Counts([cs EXCEPT ![c] = cn], r2, c) => Covered(g.log, r.handled, cn.down),
         r2.busy => \A x \in Conns \ {c} : First([cs EXCEPT ![c] = cn], x) => r.busy /\ First(cs, x),
         g2.reg = c /\ cn.brg # "failed" =>
           Reached(g.log, r.handled, cn.down, Len(cn.down) + 1, Len(g.log))
  PROVE  LinksOK(g2, [cs EXCEPT ![c] = cn], r2)
<1>1. CursorsOK(g, cs, r) BY DEF LinksOK
<1>2. \A n : Upto(g, r, n) <=> Upto(g2, r2, n) BY DEF Upto
<1>3. Upto(g2, r2, g2.ckpt) /\ Upto(g2, r2, r2.cursor) BY <1>1, <1>2 DEF CursorsOK
<1>4. cn.up # NoCursor => Upto(g2, r2, cn.up) BY <1>1, <1>2, <1>3 DEF CursorsOK
<1>5. /\ r.handled \subseteq r2.handled
      /\ \A n \in r2.handled : n \in r.handled \/ (n \in 1 .. Len(g2.log) /\ Upto(g2, r2, n))
  OBVIOUS
<1>6. Counts([cs EXCEPT ![c] = cn], r2, c) => Covered(g.log, r2.handled, cn.down)
  BY Zenon
<1>7. g2.reg = c /\ cn.brg # "failed" =>
           Reached(g.log, r2.handled, cn.down, Len(cn.down) + 1, Len(g.log))
  BY Zenon
<1>8. QED BY <1>3, <1>4, <1>5, <1>6, <1>7, LinkReplaced

LEMMA OneKept ==
  ASSUME NEW cs \in [Conns -> Links], NEW cn \in Links, NEW r, NEW r2, NEW c \in Conns,
         OneAtATime(cs, r), cs[c].seen => cn.seen, cn.srv = "none" <=> cs[c].srv = "none",
         cn.seen => cn.srv = "gone" \/ cn.brg = "failed", r2.retry => r.retry
  PROVE  OneAtATime([cs EXCEPT ![c] = cn], r2)
BY DEF OneAtATime

(* A connection of a state that keeps the invariant.                         *)
LEMMA LinkFacts ==
  ASSUME LinksOK(ledger, conn, reader), NEW c \in Conns
  PROVE  /\ ledger \in Ledgers /\ conn \in [Conns -> Links] /\ reader \in Readers /\ conn[c] \in Links
         /\ EndOK(ledger, c, conn[c]) /\ OneAtATime(conn, reader) /\ HandlesFirst(conn, reader)
         /\ conn[c].seen => conn[c].srv = "gone" \/ conn[c].brg = "failed"
         /\ Counts(conn, reader, c) => Covered(ledger.log, reader.handled, conn[c].down)
         /\ ledger.reg = c /\ conn[c].brg # "failed" =>
              Reached(ledger.log, reader.handled, conn[c].down, Len(conn[c].down) + 1, Len(ledger.log))
         /\ ledger.reg = c => c # 0
<1>1. c # 0 BY PushAssumption DEF Conns
<1>2. ledger \in Ledgers /\ conn \in [Conns -> Links] /\ reader \in Readers BY DEF LinksOK, TypesOK
<1>3. EndOK(ledger, c, conn[c]) /\ OneAtATime(conn, reader) /\ HandlesFirst(conn, reader)
  BY DEF LinksOK, EndsOK
<1>4. conn[c].seen => conn[c].srv = "gone" \/ conn[c].brg = "failed" BY <1>3 DEF OneAtATime
<1>5. Counts(conn, reader, c) => Covered(ledger.log, reader.handled, conn[c].down) BY DEF LinksOK, FramesOK
<1>6. ledger.reg = c /\ conn[c].brg # "failed" =>
        Reached(ledger.log, reader.handled, conn[c].down, Len(conn[c].down) + 1, Len(ledger.log))
  BY <1>1 DEF LinksOK, FramesOK
<1>7. QED BY <1>1, <1>2, <1>3, <1>4, <1>5, <1>6

-----------------------------------------------------------------------------
(* The Bus.                                                                  *)

(* The end of a connection at the Bus, which loses the frames after k.       *)
LEMMA CutKeeps ==
  ASSUME LinksOK(ledger, conn, reader), NEW c \in Conns, NEW cn \in Links, conn[c].srv \in {"open", "auth"},
         NEW k \in 0 .. Len(conn[c].down), reader.busy /\ First(conn, c) => k > 0,
         cn.srv = "gone", cn.up = NoCursor, cn.brg = conn[c].brg, cn.seen = conn[c].seen,
         cn.down = SubSeq(conn[c].down, 1, k),
         NEW g, g = IF ledger.reg = c THEN [ledger EXCEPT !.reg = 0] ELSE ledger
  PROVE  LinksOK(g, [conn EXCEPT ![c] = cn], reader)
<1> DEFINE cs2 == [conn EXCEPT ![c] = cn]
           d == conn[c].down
<1>1. /\ ledger \in Ledgers /\ conn \in [Conns -> Links] /\ reader \in Readers /\ conn[c] \in Links
      /\ EndOK(ledger, c, conn[c]) /\ OneAtATime(conn, reader) /\ HandlesFirst(conn, reader)
      /\ conn[c].seen => conn[c].srv = "gone" \/ conn[c].brg = "failed"
      /\ Counts(conn, reader, c) => Covered(ledger.log, reader.handled, conn[c].down)
      /\ ledger.reg = c => c # 0
  BY LinkFacts
<1>2. g \in Ledgers /\ g.log = ledger.log /\ g.ckpt = ledger.ckpt
      /\ (ledger.reg = c => g.reg = 0) /\ (ledger.reg # c => g.reg = ledger.reg)
  BY <1>1 DEF Ledgers
<1>3. d \in Seq(Frames) /\ Len(d) \in Nat /\ k \in Nat /\ k <= Len(d) BY <1>1, LinkTypes
<1>4. /\ cn.down \in Seq(Frames) /\ Len(cn.down) = k
      /\ \A i \in 1 .. k : cn.down[i] = d[i]
  BY <1>3, SubSeqProperties
<1>5. c # 0 BY PushAssumption DEF Conns
<1> HIDE DEF d
<1>6. k = 0 <=> cn.down = <<>> BY <1>3, <1>4, EmptySeq
<1>7. d = <<>> => k = 0 BY <1>3
<1>8. cn.down # <<>> => cn.down[1] = d[1]
  <2>1. k # 0 => 1 \in 1 .. k BY <1>3
  <2>2. QED BY <1>4, <1>6, <2>1
<1>9. EndOK(g, c, cn)
  <2>1. /\ conn[c].brg # "none" /\ g.reg # c
        /\ conn[c].brg = "open" /\ d # <<>> => d[1].k = "authenticated"
        /\ \A i \in 2 .. Len(d) : d[i].k # "authenticated"
        /\ conn[c].brg = "failed" => d = <<>>
    BY <1>1, <1>2, <1>5 DEF EndOK, d
  <2>2. \A i \in 2 .. Len(cn.down) : cn.down[i].k # "authenticated"
    <3>1. \A i \in 2 .. k : i \in 1 .. k /\ i \in 2 .. Len(d) BY <1>3 DEF d
    <3>2. QED BY <1>4, <2>1, <3>1
  <2>3. cn.brg = "open" /\ cn.down # <<>> => cn.down[1].k = "authenticated" BY <1>6, <1>7, <1>8, <2>1
  <2>4. cn.brg = "failed" => cn.down = <<>> BY <1>6, <1>7, <2>1
  <2>5. QED BY <2>1, <2>2, <2>3, <2>4 DEF EndOK
<1>10. OneAtATime(cs2, reader) BY <1>1, OneKept
<1>11. \A x \in Conns \ {c} : g.reg = x <=> ledger.reg = x
  <2>1. 0 \notin Conns BY PushAssumption DEF Conns
  <2>2. QED BY <1>2, <2>1
<1>12. cs2[c] = cn /\ \A x \in Conns \ {c} : cs2[x] = conn[x] BY <1>1
<1> HIDE DEF cs2
<1>13. ASSUME NEW x \in Conns, reader.busy, First(cs2, x) PROVE First(conn, x)
  <2>1. CASE cn.down # <<>> \/ d = <<>>
    <3>1. \A b \in Conns : cs2[b].down = <<>> => conn[b].down = <<>> BY <1>12, <2>1 DEF d
    <3>2. \A b \in Conns : cs2[b].down # <<>> => conn[b].down # <<>> BY <1>6, <1>7, <1>12 DEF d
    <3>3. QED BY <1>13, <3>1, <3>2 DEF First
  <2>2. CASE cn.down = <<>> /\ d # <<>>
    <3>1. ~First(conn, c) BY <1>3, <1>6, <1>13, <2>2
    <3>2. PICK a \in Conns : a < c /\ conn[a].down # <<>> BY <2>2, <3>1 DEF First, d
    <3>3. a # c /\ x # c BY <1>12, <1>13, <2>2, <3>2, PushAssumption DEF First, Conns
    <3>4. ~(a < x) BY <1>12, <1>13, <3>2, <3>3 DEF First
    <3>5. a \in Int /\ c \in Int /\ x \in Int BY PushAssumption DEF Conns
    <3>6. x < c \/ x = a BY <3>2, <3>4, <3>5
    <3>7. \A b \in Conns : b < x => b # c /\ conn[b].down = <<>>
      BY <1>12, <1>13, <3>2, <3>4, <3>5 DEF First, Conns
    <3>8. QED BY <1>12, <1>13, <3>3, <3>7 DEF First
  <2>3. QED BY <2>1, <2>2
<1>14. Counts(cs2, reader, c) => Covered(ledger.log, reader.handled, cn.down)
  <2>1. Counts(cs2, reader, c) => Counts(conn, reader, c)
    BY <1>6, <1>7, <1>8, <1>12, <1>13 DEF Counts, d
  <2>2. Covered(ledger.log, reader.handled, d) => Covered(ledger.log, reader.handled, cn.down)
    BY <1>3, CoveredCut DEF d
  <2>3. QED BY <1>1, <2>1, <2>2 DEF d
<1>15. g.reg # c BY <1>2, <1>5
<1>16. HandlesFirst(cs2, reader)
  <2>1. ASSUME NEW y \in Conns, First(conn, y), reader.busy PROVE cs2[y].down # <<>>
    BY <1>6, <1>12, <2>1 DEF First
  <2>2. \A x \in Conns : conn[x].down = <<>> => cs2[x].down = <<>> BY <1>6, <1>7, <1>12 DEF d
  <2>3. \A x \in Conns : cs2[x].brg = conn[x].brg BY <1>12
  <2>4. \A x, y \in Conns : First(conn, y) /\ x < y => cs2[x].down = <<>> BY <2>2 DEF First
  <2>5. QED BY <1>1, <2>1, <2>3, <2>4, HandlesKept
<1>17. QED BY <1>1, <1>2, <1>9, <1>10, <1>11, <1>13, <1>14, <1>15, <1>16, LinkChanged DEF cs2
LEMMA LedgerSame ==
  ASSUME NEW g, NEW g2, NEW cs, NEW r, LinksOK(g, cs, r), g2 \in Ledgers, g2.log = g.log,
         g2.ckpt = g.ckpt, g2.reg = g.reg
  PROVE  LinksOK(g2, cs, r)
<1>1. TypesOK(g2, cs, r) BY DEF LinksOK, TypesOK
<1>2. CursorsOK(g2, cs, r) BY DEF LinksOK, CursorsOK, Upto
<1>3. EndsOK(g2, cs) BY DEF LinksOK, EndsOK, EndOK
<1>4. FramesOK(g2, cs, r) BY DEF LinksOK, FramesOK
<1>5. QED BY <1>1, <1>2, <1>3, <1>4 DEF LinksOK

LEMMA CommitParcelKeeps ==
  ASSUME LinksOK(ledger, conn, reader), NEW d \in Parcels, CommitParcel(d)
  PROVE  LinksOK(ledger', conn', reader')
<1>1. ledger \in Ledgers BY DEF LinksOK, TypesOK
<1>2. /\ ledger' \in Ledgers /\ ledger'.log = ledger.log /\ ledger'.ckpt = ledger.ckpt
      /\ ledger'.reg = ledger.reg /\ conn' = conn /\ reader' = reader
  BY <1>1 DEF CommitParcel, Ledgers
<1>3. QED BY <1>2, LedgerSame

LEMMA EntryTypes ==
  /\ <<>> \in Seq(Entries) /\ <<Presence>> \in Seq(Entries)
  /\ \A d \in Parcels : <<[of |-> d, to |-> IF d \in Foreign THEN "other" ELSE "bridge"]>> \in Seq(Entries)
BY DEF Entries, Presence

LEMMA SameRegistration ==
  ASSUME ledger \in Ledgers
  PROVE  [ledger EXCEPT !.reg = ledger.reg] = ledger
BY DEF Ledgers

LEMMA DrainKeeps ==
  ASSUME LinksOK(ledger, conn, reader), Drain
  PROVE  LinksOK(ledger', conn', reader')
<1>1. ledger \in Ledgers BY DEF LinksOK, TypesOK
<1>2. Broadcast(conn, ledger.reg, <<>>, ledger.due) /\ reader' = reader BY DEF Drain
<1>3. ledger.due \in SUBSET Parcels BY <1>1, LedgerTypes
<1>4. LinksOK([ledger EXCEPT !.reg = ledger.reg], conn, reader) BY <1>1, SameRegistration
<1>5. QED BY <1>1, <1>2, <1>3, <1>4, BroadcastStep, EntryTypes

LEMMA AnnounceKeeps ==
  ASSUME LinksOK(ledger, conn, reader), NEW d \in Parcels, Announce(d)
  PROVE  LinksOK(ledger', conn', reader')
<1> DEFINE es == <<[of |-> d, to |-> IF d \in Foreign THEN "other" ELSE "bridge"]>>
<1>1. ledger \in Ledgers BY DEF LinksOK, TypesOK
<1>2. Broadcast(conn, ledger.reg, es, ledger.due \ {d}) /\ reader' = reader BY DEF Announce
<1>3. ledger.due \ {d} \in SUBSET Parcels BY <1>1, LedgerTypes
<1>4. LinksOK([ledger EXCEPT !.reg = ledger.reg], conn, reader) BY <1>1, SameRegistration
<1>5. es \in Seq(Entries) BY EntryTypes
<1> HIDE DEF es
<1>6. QED BY <1>1, <1>2, <1>3, <1>4, <1>5, BroadcastStep

LEMMA ServerSeesCloseKeeps ==
  ASSUME LinksOK(ledger, conn, reader), NEW c \in Conns, ServerSeesClose(c)
  PROVE  LinksOK(ledger', conn', reader')
<1> DEFINE cn == [conn[c] EXCEPT !.srv = "gone"]
           cs2 == [conn EXCEPT ![c] = cn]
           g == IF ledger.reg = c THEN [ledger EXCEPT !.reg = 0] ELSE ledger
<1>1. ledger \in Ledgers /\ conn \in [Conns -> Links] /\ conn[c] \in Links BY LinkFacts
<1>2. cs2 = [conn EXCEPT ![c].srv = "gone"] OBVIOUS
<1>3. conn[c].srv \in {"open", "auth"} /\ conn[c].up = NoCursor /\ reader' = reader BY DEF ServerSeesClose
<1>4. /\ cn \in Links /\ cn.srv = "gone" /\ cn.up = NoCursor /\ cn.brg = conn[c].brg
      /\ cn.seen = conn[c].seen /\ cn.down = conn[c].down
  BY <1>1, <1>3 DEF Links
<1> HIDE DEF cn
<1>5. LinksOK(g, cs2, reader)
  <2> DEFINE d == conn[c].down
             k == Len(d)
  <2>1. d \in Seq(Frames) /\ k \in Nat BY <1>1, LinkTypes
  <2>2. k \in 0 .. Len(d) /\ (First(conn, c) => k > 0) BY <2>1, EmptySeq DEF First
  <2>3. cn.down = SubSeq(d, 1, k)
    <3>1. cn.down = d BY <1>4
    <3> HIDE DEF d
    <3>2. d = SubSeq(d, 1, Len(d)) BY <2>1
    <3>3. QED BY <3>1, <3>2
  <2>4. QED BY <1>3, <1>4, <2>2, <2>3, CutKeeps
<1>6. CASE ledger.reg = c
  <2>1. Broadcast(cs2, 0, <<Presence>>, ledger.due) BY <1>2, <1>6 DEF ServerSeesClose
  <2>2. LinksOK([ledger EXCEPT !.reg = 0], cs2, reader) BY <1>5, <1>6
  <2>3. ledger.due \in SUBSET Parcels BY <1>1, LedgerTypes
  <2> HIDE DEF cs2
  <2>4. QED BY <1>1, <1>3, <2>1, <2>2, <2>3, BroadcastStep, EntryTypes
<1>7. CASE ledger.reg # c
  <2>1. conn' = cs2 /\ ledger' = ledger BY <1>2, <1>7 DEF ServerSeesClose
  <2>2. QED BY <1>3, <1>5, <1>7, <2>1
<1>8. QED BY <1>6, <1>7

LEMMA BreakKeeps ==
  ASSUME LinksOK(ledger, conn, reader), NEW c \in Conns, Break(c)
  PROVE  LinksOK(ledger', conn', reader')
<1> DEFINE d == conn[c].down
<1>1. ledger \in Ledgers /\ conn \in [Conns -> Links] /\ conn[c] \in Links BY LinkFacts
<1>2. d \in Seq(Frames) /\ Len(d) \in Nat BY <1>1, LinkTypes
<1>3. conn[c].srv \in {"open", "auth"} /\ reader' = reader BY DEF Break
<1>4. PICK k \in Kept(c) :
        LET cut == [conn EXCEPT ![c] = Cut(conn[c], k)]
        IN  IF ledger.reg = c THEN Broadcast(cut, 0, <<Presence>>, ledger.due)
            ELSE conn' = cut /\ UNCHANGED <<ledger, outbox>>
  BY DEF Break
<1> DEFINE cn == Cut(conn[c], k)
           cs2 == [conn EXCEPT ![c] = cn]
           g == IF ledger.reg = c THEN [ledger EXCEPT !.reg = 0] ELSE ledger
<1>5. k \in 0 .. Len(d) /\ (reader.busy /\ First(conn, c) => k > 0)
  BY <1>2, <1>4 DEF Kept, Turn, First
<1>6. /\ cn \in Links /\ cn.srv = "gone" /\ cn.up = NoCursor /\ cn.brg = conn[c].brg
      /\ cn.seen = conn[c].seen /\ cn.down = SubSeq(d, 1, k)
  <2>1. SubSeq(d, 1, k) \in Seq(Frames) BY <1>2, <1>5, SubSeqProperties
  <2>2. cn = [conn[c] EXCEPT !.srv = "gone", !.down = SubSeq(d, 1, k), !.up = NoCursor]
    BY <1>1 DEF Cut, Links
  <2> DEFINE s == SubSeq(d, 1, k)
  <2> HIDE DEF s, cn
  <2>3. QED BY <1>1, <2>1, <2>2 DEF Links, s
<1> HIDE DEF cn
<1>7. LinksOK(g, cs2, reader) BY <1>3, <1>5, <1>6, CutKeeps
<1>8. CASE ledger.reg = c
  <2>1. Broadcast(cs2, 0, <<Presence>>, ledger.due) BY <1>4, <1>8 DEF cn
  <2>2. LinksOK([ledger EXCEPT !.reg = 0], cs2, reader) BY <1>7, <1>8
  <2>3. ledger.due \in SUBSET Parcels BY <1>1, LedgerTypes
  <2> HIDE DEF cs2
  <2>4. QED BY <1>1, <1>3, <2>1, <2>2, <2>3, BroadcastStep, EntryTypes
<1>9. CASE ledger.reg # c
  <2>1. conn' = cs2 /\ ledger' = ledger BY <1>4, <1>9 DEF cn
  <2>2. QED BY <1>3, <1>7, <1>9, <2>1
<1>10. QED BY <1>8, <1>9
LEMMA BusCrashKeeps ==
  ASSUME LinksOK(ledger, conn, reader), BusCrash
  PROVE  LinksOK(ledger', conn', reader')
<1> DEFINE r == ledger.reg
           Ended(x) == conn[x].srv \in {"none", "gone"}
<1>1. ledger \in Ledgers /\ conn \in [Conns -> Links] /\ reader \in Readers BY DEF LinksOK, TypesOK
<1>2. PICK k \in IF r = 0 THEN {0} ELSE Kept(r) :
        Broadcast([c \in Conns |-> IF conn[c].srv \in {"none", "gone"} THEN conn[c]
                                   ELSE Cut(conn[c], IF c = r THEN k ELSE 0)], 0, <<>>, {})
  BY DEF BusCrash
<1>3. reader' = reader /\ r \in Conns \cup {0} /\ 0 \notin Conns
  BY <1>1, LedgerTypes, PushAssumption DEF BusCrash, Conns
<1> DEFINE cs2 == [c \in Conns |-> IF conn[c].srv \in {"none", "gone"} THEN conn[c]
                                   ELSE Cut(conn[c], IF c = r THEN k ELSE 0)]
           g == [ledger EXCEPT !.reg = 0]
           K(x) == IF x = r THEN k ELSE 0
<1>4. ASSUME NEW x \in Conns
      PROVE  /\ conn[x] \in Links /\ conn[x].down \in Seq(Frames) /\ Len(conn[x].down) \in Nat
             /\ EndOK(ledger, x, conn[x])
             /\ Counts(conn, reader, x) => Covered(ledger.log, reader.handled, conn[x].down)
             /\ x # r /\ ~Ended(x) => conn[x].down = <<>>
             /\ x = r => k \in 0 .. Len(conn[x].down) /\ (reader.busy /\ First(conn, x) => k > 0)
             /\ K(x) \in 0 .. Len(conn[x].down) \/ Ended(x)
  <2>1. /\ conn[x] \in Links /\ EndOK(ledger, x, conn[x])
        /\ Counts(conn, reader, x) => Covered(ledger.log, reader.handled, conn[x].down)
    BY LinkFacts
  <2>2. conn[x].down \in Seq(Frames) /\ Len(conn[x].down) \in Nat BY <1>1, LinkTypes
  <2>3. x # r /\ ~Ended(x) => conn[x].down = <<>>
    <3>1. conn[x].srv \in {"none", "open", "auth", "gone"} BY <1>1, LinkTypes
    <3>2. QED BY <2>1, <3>1 DEF EndOK
  <2>4. x = r => k \in 0 .. Len(conn[x].down) /\ (reader.busy /\ First(conn, x) => k > 0)
    BY <1>2, <1>3, <2>2 DEF Kept, Turn, First
  <2>5. QED BY <2>1, <2>2, <2>3, <2>4
<1>5. ASSUME NEW x \in Conns
      PROVE  /\ cs2[x] \in Links /\ cs2[x].brg = conn[x].brg /\ cs2[x].seen = conn[x].seen
             /\ Ended(x) => cs2[x] = conn[x]
             /\ ~Ended(x) => cs2[x].srv = "gone" /\ cs2[x].up = NoCursor
             /\ ~Ended(x) => cs2[x].down = SubSeq(conn[x].down, 1, K(x))
  <2>1. CASE Ended(x) BY <1>4, <2>1
  <2>2. CASE ~Ended(x)
    <3> DEFINE s == SubSeq(conn[x].down, 1, K(x))
    <3>1. K(x) \in 0 .. Len(conn[x].down) BY <1>4, <2>2
    <3>2. s \in Seq(Frames) BY <1>4, <3>1, SubSeqProperties
    <3>3. conn[x] \in Links BY <1>4
    <3>4. cs2[x] = [conn[x] EXCEPT !.srv = "gone", !.down = s, !.up = NoCursor]
      BY <2>2, <3>3 DEF Cut, Links
    <3> HIDE DEF s, cs2
    <3>5. QED BY <2>2, <3>2, <3>3, <3>4 DEF Links, s
  <2>3. QED BY <2>1, <2>2
<1>6. cs2 = [c \in Conns |-> cs2[c]] OBVIOUS
<1>7. g \in Ledgers /\ g.log = ledger.log /\ g.ckpt = ledger.ckpt /\ g.reg = 0 BY <1>1 DEF Ledgers
<1> HIDE DEF cs2, g
<1>8. ASSUME NEW x \in Conns
      PROVE  LET d == conn[x].down
                 e == cs2[x].down
             IN  /\ Len(e) \in 0 .. Len(d) /\ e \in Seq(Frames)
                 /\ \A i \in 1 .. Len(e) : e[i] = d[i]
                 /\ Covered(ledger.log, reader.handled, d) => Covered(ledger.log, reader.handled, e)
                 /\ x # r => e = d
                 /\ x = r => e # <<>> \/ d = <<>> \/ ~(reader.busy /\ First(conn, x))
  <2> DEFINE d == conn[x].down
             e == cs2[x].down
  <2>1. CASE Ended(x)
    <3>1. e = d BY <1>5, <2>1
    <3>2. d \in Seq(Frames) /\ Len(d) \in Nat BY <1>4
    <3>3. QED BY <3>1, <3>2
  <2>2. CASE ~Ended(x)
    <3>1. d \in Seq(Frames) /\ Len(d) \in Nat /\ K(x) \in 0 .. Len(d) BY <1>4, <2>2
    <3>2. e = SubSeq(d, 1, K(x)) BY <1>5, <2>2
    <3>3. /\ e \in Seq(Frames) /\ Len(e) = K(x)
          /\ \A i \in 1 .. K(x) : e[i] = d[i]
      <4> DEFINE kx == K(x)
      <4>1. kx \in 0 .. Len(d) BY <3>1
      <4> HIDE DEF kx, d
      <4>2. kx \in Nat /\ kx <= Len(d) BY <3>1, <4>1
      <4>3. /\ SubSeq(d, 1, kx) \in Seq(Frames) /\ Len(SubSeq(d, 1, kx)) = kx
            /\ \A i \in 1 .. kx : SubSeq(d, 1, kx)[i] = d[i]
        BY <3>1, <4>2, SubSeqProperties
      <4>4. QED BY <3>2, <4>3 DEF kx
    <3>4. Covered(ledger.log, reader.handled, d) => Covered(ledger.log, reader.handled, e)
      BY <3>1, <3>2, CoveredCut
    <3>5. x # r => e = d
      <4>1. x # r => d = <<>> /\ Len(e) = 0 BY <1>4, <2>2, <3>3
      <4>2. QED BY <3>3, <4>1, EmptySeq
    <3>6. x = r => e # <<>> \/ d = <<>> \/ ~(reader.busy /\ First(conn, x))
      <4>1. x = r /\ reader.busy /\ First(conn, x) => Len(e) > 0 BY <1>4, <3>3
      <4>2. QED BY <3>3, <4>1, EmptySeq
    <3>7. QED BY <3>1, <3>3, <3>4, <3>5, <3>6
  <2>3. QED BY <2>1, <2>2
<1>9. ASSUME NEW x \in Conns PROVE cs2[x].down # <<>> => conn[x].down # <<>> /\ cs2[x].down[1] = conn[x].down[1]
  <2> DEFINE d == conn[x].down
             e == cs2[x].down
  <2>1. Len(e) \in 0 .. Len(d) /\ e \in Seq(Frames) /\ d \in Seq(Frames) /\ Len(d) \in Nat
        /\ \A i \in 1 .. Len(e) : e[i] = d[i]
    BY <1>4, <1>8
  <2> HIDE DEF d, e
  <2>2. e # <<>> => Len(e) > 0 BY <2>1, EmptySeq
  <2>3. Len(e) > 0 => Len(d) > 0 /\ e[1] = d[1] BY <2>1
  <2>4. e # <<>> => d # <<>> /\ e[1] = d[1] BY <2>1, <2>2, <2>3
  <2>5. QED BY <2>4 DEF d, e
<1>10. ASSUME NEW x \in Conns, reader.busy, First(cs2, x) PROVE First(conn, x)
  <2>1. conn[x].down # <<>> BY <1>9, <1>10 DEF First
  <2>2. ASSUME NEW b \in Conns, b < x, conn[b].down # <<>> PROVE FALSE
    <3>1. cs2[b].down = <<>> BY <1>10, <2>2 DEF First
    <3>2. b = r /\ ~First(conn, b) BY <1>8, <1>10, <2>2, <3>1
    <3>3. PICK a \in Conns : a < b /\ conn[a].down # <<>> BY <2>2, <3>2 DEF First
    <3>4. a < x /\ a # r BY <2>2, <3>2, <3>3, PushAssumption DEF Conns
    <3>5. cs2[a].down # <<>> BY <1>8, <3>3, <3>4
    <3>6. QED BY <1>10, <3>4, <3>5 DEF First
  <2>3. QED BY <2>1, <2>2 DEF First
<1>11. TypesOK(g, cs2, reader) BY <1>1, <1>5, <1>6, <1>7 DEF TypesOK
<1>12. CursorsOK(g, cs2, reader)
  <2>1. CursorsOK(ledger, conn, reader) BY DEF LinksOK
  <2>2. \A n : Upto(ledger, reader, n) <=> Upto(g, reader, n) BY <1>7 DEF Upto
  <2>3. \A x \in Conns : cs2[x].up # NoCursor => cs2[x].up = conn[x].up BY <1>5
  <2>4. QED BY <1>7, <2>1, <2>2, <2>3 DEF CursorsOK
<1>13. EndsOK(g, cs2)
  <2>1. SUFFICES ASSUME NEW x \in Conns PROVE EndOK(g, x, cs2[x]) BY DEF EndsOK
  <2>2. EndOK(ledger, x, conn[x]) /\ g.reg # x BY <1>3, <1>4, <1>7
  <2>3. \A i \in 2 .. Len(cs2[x].down) : cs2[x].down[i].k # "authenticated"
    <3> DEFINE d == conn[x].down
               e == cs2[x].down
    <3>1. Len(e) \in 0 .. Len(d) /\ Len(d) \in Nat /\ \A i \in 1 .. Len(e) : e[i] = d[i] BY <1>4, <1>8
    <3>2. \A i \in 2 .. Len(d) : d[i].k # "authenticated" BY <2>2 DEF EndOK
    <3> HIDE DEF d, e
    <3>3. \A i \in 2 .. Len(e) : i \in 1 .. Len(e) /\ i \in 2 .. Len(d) BY <3>1
    <3>4. \A i \in 2 .. Len(e) : e[i].k # "authenticated" BY <3>1, <3>2, <3>3
    <3>5. QED BY <3>4 DEF e
  <2>4. (cs2[x].srv = conn[x].srv /\ Ended(x)) \/ (cs2[x].srv = "gone" /\ ~Ended(x)) BY <1>5
  <2>5. cs2[x].srv # "auth" /\ cs2[x].srv # "open" /\ (cs2[x].srv = "none" <=> conn[x].srv = "none") BY <2>4
  <2>6. cs2[x].srv = "none" => cs2[x].down = <<>> /\ cs2[x].up = NoCursor BY <1>5, <2>2, <2>5 DEF EndOK
  <2>7. cs2[x].brg = conn[x].brg BY <1>5
  <2>8. cs2[x].brg = "open" /\ cs2[x].down # <<>> => cs2[x].down[1].k = "authenticated"
    BY <1>9, <2>2, <2>7 DEF EndOK
  <2>9. cs2[x].brg = "failed" => cs2[x].down = <<>> BY <1>9, <2>2, <2>7 DEF EndOK
  <2>10. cs2[x].brg = "closed" => cs2[x].srv = "gone"
    <3>1. conn[x].brg = "closed" => Ended(x) /\ conn[x].srv = "gone" BY <2>2 DEF EndOK
    <3>2. QED BY <1>5, <2>7, <3>1
  <2>11. cs2[x].srv = "none" <=> cs2[x].brg = "none" BY <2>2, <2>5, <2>7 DEF EndOK
  <2>12. QED BY <2>2, <2>3, <2>5, <2>6, <2>8, <2>9, <2>10, <2>11 DEF EndOK
<1>14. OneAtATime(cs2, reader)
  <2>1. OneAtATime(conn, reader) BY DEF LinksOK
  <2>2. \A x \in Conns : /\ cs2[x].seen = conn[x].seen /\ cs2[x].brg = conn[x].brg
                         /\ cs2[x].srv = "gone" \/ cs2[x].srv = conn[x].srv
                         /\ conn[x].srv = "none" => cs2[x].srv = "none"
    BY <1>5
  <2>3. QED BY <2>1, <2>2 DEF OneAtATime
<1>15. FramesOK(g, cs2, reader)
  <2>1. ASSUME NEW x \in Conns, Counts(cs2, reader, x) PROVE Counts(conn, reader, x)
    BY <1>5, <1>9, <1>10, <2>1 DEF Counts
  <2>2. QED BY <1>4, <1>7, <1>8, <2>1 DEF FramesOK
<1>16. HandlesFirst(cs2, reader)
  <2>1. HandlesFirst(conn, reader) BY DEF LinksOK
  <2>2. ASSUME NEW y \in Conns, First(conn, y), reader.busy PROVE cs2[y].down # <<>>
    <3>1. conn[y].down # <<>> BY <2>2 DEF First
    <3>2. QED BY <1>8, <2>2, <3>1
  <2>3. \A x \in Conns : conn[x].down = <<>> => cs2[x].down = <<>> BY <1>9
  <2>4. \A x \in Conns : cs2[x].brg = conn[x].brg BY <1>5
  <2>5. \A x, y \in Conns : First(conn, y) /\ x < y => cs2[x].down = <<>> BY <2>3 DEF First
  <2>6. QED BY <2>1, <2>2, <2>4, <2>5, HandlesKept
<1>17. LinksOK(g, cs2, reader) BY <1>11, <1>12, <1>13, <1>14, <1>15, <1>16 DEF LinksOK
<1>18. Broadcast(cs2, 0, <<>>, {}) BY <1>2 DEF cs2
<1>19. {} \in SUBSET Parcels OBVIOUS
<1>20. QED BY <1>1, <1>3, <1>17, <1>18, <1>19, BroadcastStep, EntryTypes DEF g
(* The replaced socket is dropped, and the new one has the whole replay.     *)
LEMMA AuthenticateKeeps ==
  ASSUME LinksOK(ledger, conn, reader), NEW c \in Conns, Authenticate(c)
  PROVE  LinksOK(ledger', conn', reader')
<1> DEFINE old == ledger.reg
           from == ReplayFrom(conn[c].up)
           p == <<Frame("authenticated", from)>> \o Replay(ledger.log, from) \o <<Frame("caught_up", Len(ledger.log))>>
           mine == [conn EXCEPT ![c].up = NoCursor, ![c].srv = "auth", ![c].down = p]
           cs1 == IF old # 0 THEN [conn EXCEPT ![old] = [conn[old] EXCEPT !.srv = "gone"]] ELSE conn
           g1 == [ledger EXCEPT !.reg = 0]
           cn == [conn[c] EXCEPT !.up = NoCursor, !.srv = "auth", !.down = p]
           cs2 == [cs1 EXCEPT ![c] = cn]
           g2 == [ledger EXCEPT !.reg = c]
<1>1. /\ ledger \in Ledgers /\ conn \in [Conns -> Links] /\ reader \in Readers /\ conn[c] \in Links
      /\ EndOK(ledger, c, conn[c]) /\ OneAtATime(conn, reader) /\ HandlesFirst(conn, reader)
      /\ conn[c].seen => conn[c].srv = "gone" \/ conn[c].brg = "failed"
  BY LinkFacts
<1>2. conn[c].srv = "open" /\ conn[c].up # NoCursor /\ reader' = reader BY DEF Authenticate
<1>3. /\ conn[c].brg = "open" /\ conn[c].down = <<>> /\ ~conn[c].seen /\ old # c
      /\ conn[c].up \in Nat
  BY <1>1, <1>2, LinkTypes DEF EndOK
<1>4. ledger.log \in Seq(Entries) /\ Len(ledger.log) \in Nat /\ ledger.ckpt \in Nat /\ old \in Conns \cup {0}
  BY <1>1, LedgerTypes
<1>5. from \in 0 .. Len(ledger.log) /\ \A m \in 1 .. from : MayReceive(ledger.log[m]) => m \in reader.handled
  <2>1. Upto(ledger, reader, ledger.ckpt) /\ Upto(ledger, reader, conn[c].up)
    BY <1>2 DEF LinksOK, CursorsOK
  <2>2. from = ledger.ckpt \/ from = conn[c].up BY DEF ReplayFrom
  <2>3. Upto(ledger, reader, from) /\ from \in Nat BY <1>3, <1>4, <2>1, <2>2
  <2> HIDE DEF from
  <2>4. QED BY <1>4, <2>3 DEF Upto
<1> HIDE DEF from
<1>6. /\ p \in Seq(Frames) /\ p # <<>> /\ p[1].k = "authenticated"
      /\ \A i \in 2 .. Len(p) : p[i].k # "authenticated"
      /\ Covered(ledger.log, reader.handled, p)
      /\ Reached(ledger.log, reader.handled, p, Len(p) + 1, Len(ledger.log))
  BY <1>4, <1>5, CoveredFresh
<1>7. Broadcast(IF old # 0 THEN [mine EXCEPT ![old].srv = "gone"] ELSE mine, c, <<Presence>>, ledger.due)
  BY DEF Authenticate, from
<1> HIDE DEF p
<1>8. /\ cn \in Links /\ cn.up = NoCursor /\ cn.srv = "auth" /\ cn.down = p /\ cn.brg = "open"
      /\ cn.seen = conn[c].seen
  BY <1>1, <1>3, <1>6 DEF Links
<1>9. (IF old # 0 THEN [mine EXCEPT ![old].srv = "gone"] ELSE mine) = cs2
  <2>1. mine = [conn EXCEPT ![c] = cn] BY <1>1
  <2> HIDE DEF mine, cn
  <2>2. CASE old = 0 BY <2>1, <2>2
  <2>3. CASE old # 0
    <3>1. old \in Conns /\ mine[old] = conn[old] BY <1>1, <1>3, <1>4, <2>1, <2>3
    <3>2. [mine EXCEPT ![old].srv = "gone"] = [mine EXCEPT ![old] = [conn[old] EXCEPT !.srv = "gone"]]
      BY <3>1
    <3> DEFINE o == [conn[old] EXCEPT !.srv = "gone"]
    <3> HIDE DEF o
    <3>3. [[conn EXCEPT ![c] = cn] EXCEPT ![old] = o] = [[conn EXCEPT ![old] = o] EXCEPT ![c] = cn]
      BY <1>1, <1>3, <3>1
    <3>4. QED BY <2>1, <2>3, <3>2, <3>3 DEF o
  <2>4. QED BY <2>2, <2>3
<1>10. LinksOK(g1, cs1, reader)
  <2>1. CASE old = 0 BY <1>1, <2>1, SameRegistration
  <2>2. CASE old # 0
    <3> DEFINE o == [conn[old] EXCEPT !.srv = "gone"]
               d == conn[old].down
    <3>1. old \in Conns BY <1>4, <2>2
    <3>2. conn[old] \in Links /\ EndOK(ledger, old, conn[old]) BY <3>1, LinkFacts
    <3>3. conn[old].srv = "auth" BY <3>2 DEF EndOK
    <3>4. conn[old].brg = "failed"
      <4>1. old \in Int /\ c \in Int BY <3>1, PushAssumption DEF Conns
      <4>2. CASE old < c
        <5>1. conn[old].seen BY <1>1, <1>2, <3>1, <4>2 DEF OneAtATime
        <5>2. QED BY <1>1, <3>1, <3>3, <5>1 DEF OneAtATime
      <4>3. CASE c < old BY <1>1, <1>3, <3>1, <3>3, <4>3 DEF OneAtATime
      <4>4. QED BY <1>3, <4>1, <4>2, <4>3
    <3>5. d = <<>> BY <3>2, <3>4 DEF EndOK
    <3>6. /\ o \in Links /\ o.srv = "gone" /\ o.up = conn[old].up /\ o.brg = "failed"
          /\ o.seen = conn[old].seen /\ o.down = <<>>
      BY <3>2, <3>4, <3>5 DEF Links
    <3> HIDE DEF o
    <3>7. g1 \in Ledgers /\ g1.log = ledger.log /\ g1.ckpt = ledger.ckpt /\ g1.reg = 0 BY <1>1 DEF Ledgers
    <3>8. 0 \notin Conns BY PushAssumption DEF Conns
    <3> HIDE DEF g1
    <3>9. EndOK(g1, old, o) BY <3>1, <3>6, <3>7, <3>8 DEF EndOK
    <3>10. OneAtATime([conn EXCEPT ![old] = o], reader) BY <1>1, <3>1, <3>3, <3>6, OneKept
    <3> DEFINE csx == [conn EXCEPT ![old] = o]
    <3>11. csx[old] = o /\ \A x \in Conns \ {old} : csx[x] = conn[x] BY <1>1, <3>1
    <3> HIDE DEF csx
    <3>12. ASSUME NEW x \in Conns, First(csx, x) PROVE First(conn, x)
      <4>1. \A b \in Conns : csx[b].down = conn[b].down BY <3>5, <3>6, <3>11
      <4>2. QED BY <3>12, <4>1 DEF First
    <3>13. Covered(ledger.log, reader.handled, o.down) BY <3>6 DEF Covered
    <3>14. \A x \in Conns \ {old} : g1.reg = x <=> ledger.reg = x BY <3>7, <3>8
    <3>15. g1.reg # old BY <2>2, <3>7
    <3>16. HandlesFirst(csx, reader)
      <4>1. \A x \in Conns : csx[x].down = conn[x].down /\ csx[x].brg = conn[x].brg
        BY <3>4, <3>5, <3>6, <3>11
      <4>2. QED BY <1>1, <4>1, HandlesKept DEF First
    <3>17. LinksOK(g1, csx, reader)
      BY <1>1, <3>1, <3>6, <3>7, <3>9, <3>10, <3>12, <3>13, <3>14, <3>15, <3>16, LinkChanged DEF csx
    <3>18. QED BY <2>2, <3>17 DEF csx, o
  <2>3. QED BY <2>1, <2>2
<1>11. /\ g1 \in Ledgers /\ g1.log = ledger.log /\ g1.ckpt = ledger.ckpt /\ g1.reg = 0
       /\ g2 \in Ledgers /\ g2.log = ledger.log /\ g2.ckpt = ledger.ckpt /\ g2.reg = c
  BY <1>1 DEF Ledgers
<1>12. cs1 \in [Conns -> Links] /\ OneAtATime(cs1, reader) BY <1>10 DEF LinksOK, TypesOK
<1>13. cs1[c] = conn[c] BY <1>1, <1>3, <1>4
<1> HIDE DEF cs1, cn, g1, g2
<1>14. cs2[c] = cn /\ \A x \in Conns \ {c} : cs2[x] = cs1[x] BY <1>12
<1>15. EndOK(g2, c, cn) BY <1>6, <1>8, <1>11 DEF EndOK
<1>16. OneAtATime(cs2, reader) BY <1>2, <1>3, <1>8, <1>12, <1>13, OneKept
<1>17. ASSUME NEW x \in Conns \ {c}, First(cs2, x) PROVE First(cs1, x)
  <2> HIDE DEF cs2
  <2>1. \A b \in Conns : cs2[b].down = <<>> => cs1[b].down = <<>> BY <1>3, <1>13, <1>14
  <2>2. QED BY <1>14, <1>17, <2>1 DEF First
<1>18. \A x \in Conns \ {c} : g2.reg = x <=> g1.reg = x
  <2>1. 0 \notin Conns BY PushAssumption DEF Conns
  <2>2. QED BY <1>11, <2>1
<1>19. g2.log = g1.log /\ g2.ckpt = g1.ckpt BY <1>11
<1>20. Covered(g1.log, reader.handled, cn.down) /\ Reached(g1.log, reader.handled, cn.down, Len(cn.down) + 1, Len(g1.log))
  BY <1>6, <1>8, <1>11
<1>21. HandlesFirst(cs2, reader)
  <2>1. HandlesFirst(cs1, reader) /\ EndsOK(g1, cs1) BY <1>10 DEF LinksOK
  <2>2. ASSUME NEW y \in Conns, First(cs1, y)
        PROVE  /\ cs2[y] = cs1[y] /\ cs2[y].down # <<>>
               /\ \A x \in Conns : x < y => cs2[x].down = <<>>
    <3>1. y # c BY <1>3, <1>13, <2>2 DEF First
    <3>2. cs1[y].srv # "none" BY <2>1, <2>2 DEF First, EndsOK, EndOK
    <3>3. ~(c < y) BY <1>2, <1>3, <1>12, <1>13, <3>2 DEF OneAtATime
    <3>4. QED BY <1>14, <2>2, <3>1, <3>3 DEF First
  <2> HIDE DEF cs2
  <2>3. QED BY <2>1, <2>2, HandlesKept
<1>22. LinksOK(g2, cs2, reader)
  BY <1>1, <1>8, <1>10, <1>11, <1>15, <1>16, <1>17, <1>18, <1>19, <1>20, <1>21, LinkChanged
<1>23. Broadcast(cs2, c, <<Presence>>, ledger.due) BY <1>7, <1>9
<1>24. ledger.due \in SUBSET Parcels BY <1>1, LedgerTypes
<1> HIDE DEF cs2
<1>25. QED BY <1>1, <1>2, <1>22, <1>23, <1>24, BroadcastStep, EntryTypes DEF g2

LEMMA AcknowledgeKeeps ==
  ASSUME LinksOK(ledger, conn, reader), NEW c \in Conns, Acknowledge(c)
  PROVE  LinksOK(ledger', conn', reader')
<1> DEFINE cn == [conn[c] EXCEPT !.up = NoCursor]
           cs2 == [conn EXCEPT ![c] = cn]
           g2 == ledger'
<1>1. /\ ledger \in Ledgers /\ conn \in [Conns -> Links] /\ reader \in Readers /\ conn[c] \in Links
      /\ EndOK(ledger, c, conn[c]) /\ OneAtATime(conn, reader) /\ HandlesFirst(conn, reader)
      /\ conn[c].seen => conn[c].srv = "gone" \/ conn[c].brg = "failed"
      /\ Counts(conn, reader, c) => Covered(ledger.log, reader.handled, conn[c].down)
      /\ ledger.reg = c /\ conn[c].brg # "failed" =>
           Reached(ledger.log, reader.handled, conn[c].down, Len(conn[c].down) + 1, Len(ledger.log))
  BY LinkFacts
<1>2. conn[c].srv = "auth" /\ conn[c].up # NoCursor /\ reader' = reader /\ conn' = cs2
  BY DEF Acknowledge
<1>3. conn[c].up \in Nat /\ ledger.ckpt \in Nat BY <1>1, <1>2, LinkTypes, LedgerTypes
<1>4. /\ g2 \in Ledgers /\ g2.log = ledger.log /\ g2.reg = ledger.reg
      /\ g2.ckpt = ledger.ckpt \/ g2.ckpt = conn[c].up
  BY <1>1, <1>3 DEF Acknowledge, Ledgers
<1>5. /\ cn \in Links /\ cn.srv = "auth" /\ cn.up = NoCursor /\ cn.brg = conn[c].brg
      /\ cn.seen = conn[c].seen /\ cn.down = conn[c].down
  BY <1>1, <1>2 DEF Links
<1> HIDE DEF cn, g2
<1>6. CursorsOK(ledger, conn, reader) BY DEF LinksOK
<1>7. \A n : Upto(ledger, reader, n) <=> Upto(g2, reader, n) BY <1>4 DEF Upto
<1>8. Upto(g2, reader, g2.ckpt) /\ Upto(g2, reader, reader.cursor) BY <1>2, <1>4, <1>6, <1>7 DEF CursorsOK
<1>9. EndOK(g2, c, cn) BY <1>1, <1>2, <1>4, <1>5 DEF EndOK
<1>10. OneAtATime(cs2, reader) BY <1>1, <1>2, <1>5, OneKept
<1>11. \A x \in Conns : cs2[x].down = conn[x].down /\ cs2[x].brg = conn[x].brg BY <1>1, <1>5
<1> HIDE DEF cs2
<1>12. \A x \in Conns : First(cs2, x) => First(conn, x) BY <1>11 DEF First
<1>13. Counts(cs2, reader, c) => Covered(ledger.log, reader.handled, cn.down)
  BY <1>1, <1>5, <1>11, <1>12 DEF Counts
<1>14. g2.reg = c /\ cn.brg # "failed" =>
         Reached(ledger.log, reader.handled, cn.down, Len(cn.down) + 1, Len(ledger.log))
  BY <1>1, <1>4, <1>5
<1>15. HandlesFirst(cs2, reader) BY <1>1, <1>11, HandlesKept DEF First
<1>16. LinksOK(g2, cs2, reader)
  BY <1>1, <1>4, <1>5, <1>8, <1>9, <1>10, <1>12, <1>13, <1>14, <1>15, LinkReplaced DEF cs2
<1>17. QED BY <1>2, <1>16 DEF g2
-----------------------------------------------------------------------------
(* The Bridge.                                                               *)

LEMMA ReaderTypes ==
  ASSUME NEW r \in Readers
  PROVE  /\ r.sock \in Conns \cup {0} /\ r.cursor \in Nat /\ r.busy \in BOOLEAN /\ r.avail \in BOOLEAN
         /\ r.retry \in BOOLEAN /\ r.handled \in SUBSET Nat
BY DEF Readers

LEMMA ConnectKeeps ==
  ASSUME LinksOK(ledger, conn, reader), Connect
  PROVE  LinksOK(ledger', conn', reader')
<1>1. ledger \in Ledgers /\ conn \in [Conns -> Links] /\ reader \in Readers BY DEF LinksOK, TypesOK
<1>2. OneAtATime(conn, reader) /\ HandlesFirst(conn, reader) BY DEF LinksOK
<1>3. ledger' = ledger /\ reader.retry BY DEF Connect
<1>4. CASE reader.avail
  <2>1. PICK c \in Conns :
          /\ conn[c].srv = "none" /\ \A b \in Conns : b < c => conn[b].srv # "none"
          /\ conn' = [conn EXCEPT ![c].srv = "open", ![c].brg = "open", ![c].up = reader.cursor]
          /\ reader' = [reader EXCEPT !.sock = c, !.retry = FALSE]
    BY <1>4 DEF Connect
  <2> DEFINE cn == [conn[c] EXCEPT !.srv = "open", !.brg = "open", !.up = reader.cursor]
             cs2 == [conn EXCEPT ![c] = cn]
             r2 == [reader EXCEPT !.sock = c, !.retry = FALSE]
  <2>2. conn[c] \in Links /\ EndOK(ledger, c, conn[c]) BY LinkFacts
  <2>3. conn' = cs2 /\ reader' = r2 BY <1>1, <2>1
  <2>4. /\ cn \in Links /\ cn.srv = "open" /\ cn.brg = "open" /\ cn.up = reader.cursor
        /\ cn.down = conn[c].down /\ cn.seen = conn[c].seen
    BY <1>1, <2>2, ReaderTypes DEF Links
  <2>5. /\ r2 \in Readers /\ r2.handled = reader.handled /\ r2.cursor = reader.cursor /\ r2.busy = reader.busy
        /\ r2.retry = FALSE
    BY <1>1 DEF Readers
  <2> HIDE DEF cn, r2
  <2>6. cn.down = <<>> /\ ledger.reg # c BY <2>1, <2>2, <2>4 DEF EndOK
  <2>7. cn.seen = FALSE /\ \A x \in Conns : c < x => conn[x].srv = "none"
    <3>1. conn[c].srv # "gone" /\ conn[c].brg # "failed" BY <2>1, <2>2 DEF EndOK
    <3>2. ~conn[c].seen BY <1>2, <3>1 DEF OneAtATime
    <3>3. conn[c].seen \in BOOLEAN BY <1>1, LinkTypes
    <3>4. QED BY <1>2, <2>4, <3>2, <3>3 DEF OneAtATime
  <2>8. EndOK(ledger, c, cn) BY <2>4, <2>6 DEF EndOK
  <2>9. cs2[c] = cn /\ \A x \in Conns \ {c} : cs2[x] = conn[x] BY <1>1
  <2>10. OneAtATime(cs2, r2)
    <3>1. \A x \in Conns : x \in Int BY PushAssumption DEF Conns
    <3> HIDE DEF cs2
    <3>2. \A x \in Conns : cs2[x].seen => cs2[x].srv = "gone" \/ cs2[x].brg = "failed"
      BY <1>2, <2>7, <2>9 DEF OneAtATime
    <3>3. ASSUME NEW x \in Conns, NEW b \in Conns, b < x, cs2[x].srv # "none" PROVE cs2[b].seen
      <4>1. ~(c < x) BY <2>7, <2>9, <3>1, <3>3
      <4>2. b # c /\ cs2[b] = conn[b] BY <2>9, <3>1, <3>3, <4>1
      <4>3. CASE x = c
        <5>1. conn[b].srv # "none" BY <2>1, <3>3, <4>3
        <5>2. QED BY <1>2, <1>3, <4>2, <5>1 DEF OneAtATime
      <4>4. CASE x # c BY <1>2, <2>9, <3>3, <4>2, <4>4 DEF OneAtATime
      <4>5. QED BY <4>3, <4>4
    <3>4. QED BY <2>5, <3>2, <3>3 DEF OneAtATime
  <2>11. \A x \in Conns : cs2[x].down = conn[x].down BY <2>4, <2>9
  <2>12. HandlesFirst(cs2, r2)
    <3>1. conn[c].brg = "none" BY <2>1, <2>2 DEF EndOK
    <3> HIDE DEF cs2
    <3>2. QED BY <1>2, <2>5, <2>9, <2>11, <3>1, HandlesKept DEF First
  <2>13. \A x \in Conns : First(cs2, x) => First(conn, x)
    <3> HIDE DEF cs2
    <3>1. QED BY <2>11 DEF First
  <2>14. Covered(ledger.log, reader.handled, cn.down) BY <2>6 DEF Covered
  <2>15. LinksOK(ledger, cs2, r2)
    BY <1>1, <2>4, <2>5, <2>6, <2>8, <2>10, <2>12, <2>13, <2>14, LinkChanged
  <2>16. QED BY <1>3, <2>3, <2>15
<1>5. CASE ~reader.avail
  <2>1. conn' = conn /\ reader' = [reader EXCEPT !.retry = FALSE] BY <1>5 DEF Connect
  <2>2. /\ reader' \in Readers /\ reader'.handled = reader.handled /\ reader'.cursor = reader.cursor
        /\ reader'.busy = reader.busy /\ reader'.retry = FALSE
    BY <1>1, <2>1 DEF Readers
  <2> DEFINE r2 == reader'
  <2> HIDE DEF r2
  <2>3. \A n : Upto(ledger, reader, n) <=> Upto(ledger, r2, n) BY <2>2 DEF Upto, r2
  <2>4. CursorsOK(ledger, conn, r2) BY <2>2, <2>3 DEF LinksOK, CursorsOK, r2
  <2>5. OneAtATime(conn, r2) BY <1>2, <2>2 DEF OneAtATime, r2
  <2>6. HandlesFirst(conn, r2) BY <1>2, <2>2 DEF HandlesFirst, r2
  <2>7. FramesOK(ledger, conn, r2) BY <2>2 DEF LinksOK, FramesOK, Counts, r2
  <2>8. LinksOK(ledger, conn, r2) BY <1>1, <2>2, <2>4, <2>5, <2>6, <2>7 DEF LinksOK, TypesOK, r2
  <2>9. QED BY <1>3, <2>1, <2>8 DEF r2
<1>6. QED BY <1>4, <1>5

(* A connection whose first frame is taken off.                              *)
LEMMA PoppedFacts ==
  ASSUME NEW q \in Seq(Frames), q # <<>>
  PROVE  /\ Head(q) = q[1] /\ q[1] \in Frames /\ Len(q) \in Nat /\ 1 \in 1 .. Len(q)
         /\ Tail(q) \in Seq(Frames) /\ Len(Tail(q)) = Len(q) - 1
         /\ \A i \in 1 .. Len(Tail(q)) : Tail(q)[i] = q[i + 1]
         /\ (\A i \in 2 .. Len(q) : q[i].k # "authenticated") =>
              \A i \in 1 .. Len(Tail(q)) : Tail(q)[i].k # "authenticated"
<1>1. /\ Tail(q) \in Seq(Frames) /\ Len(Tail(q)) = Len(q) - 1
      /\ \A i \in 1 .. Len(Tail(q)) : Tail(q)[i] = q[i + 1]
  BY HeadTailProperties
<1>2. Len(q) \in Nat /\ Len(q) > 0 BY LenProperties, EmptySeq
<1>3. 1 \in 1 .. Len(q) BY <1>2
<1>4. q[1] \in Frames BY <1>3, ElementOfSeq
<1>5. \A i \in 1 .. Len(Tail(q)) : i + 1 \in 2 .. Len(q) BY <1>1, <1>2
<1>6. QED BY <1>1, <1>2, <1>3, <1>4, <1>5

LEMMA FrameAtOnceKeeps ==
  ASSUME LinksOK(ledger, conn, reader), NEW c \in Conns, FrameAtOnce(c)
  PROVE  LinksOK(ledger', conn', reader')
<1> DEFINE d == conn[c].down
           t == Tail(d)
           h == reader.handled
           auth == Head(d).k = "authenticated"
           cn == [conn[c] EXCEPT !.down = t, !.brg = IF auth THEN "auth" ELSE @]
           cs2 == [conn EXCEPT ![c] = cn]
           r2 == IF auth THEN reader ELSE [reader EXCEPT !.avail = FALSE]
<1>1. /\ ledger \in Ledgers /\ conn \in [Conns -> Links] /\ reader \in Readers /\ conn[c] \in Links
      /\ EndOK(ledger, c, conn[c]) /\ OneAtATime(conn, reader) /\ HandlesFirst(conn, reader)
      /\ conn[c].seen => conn[c].srv = "gone" \/ conn[c].brg = "failed"
      /\ Counts(conn, reader, c) => Covered(ledger.log, h, d)
      /\ ledger.reg = c /\ conn[c].brg # "failed" => Reached(ledger.log, h, d, Len(d) + 1, Len(ledger.log))
  BY LinkFacts
<1>2. /\ First(conn, c) /\ ~reader.busy /\ conn[c].brg \in {"open", "closed"} /\ ledger' = ledger
      /\ d # <<>>
  BY DEF FrameAtOnce, Turn, First
<1>3. d \in Seq(Frames) /\ Len(ledger.log) \in Nat BY <1>1, LinkTypes, LedgerTypes
<1>4. conn' = cs2 /\ reader' = r2
  <2>1. CASE auth
    <3>1. conn' = [[conn EXCEPT ![c].down = t] EXCEPT ![c].brg = "auth"] /\ reader' = reader
      BY <2>1 DEF FrameAtOnce, Popped
    <3>2. QED BY <1>1, <2>1, <3>1
  <2>2. CASE ~auth
    <3>1. conn' = [conn EXCEPT ![c].down = t] /\ reader' = [reader EXCEPT !.avail = FALSE]
      BY <2>2 DEF FrameAtOnce, Popped
    <3>2. conn[c] = [conn[c] EXCEPT !.brg = @] BY <1>1 DEF Links
    <3>3. cn = [conn[c] EXCEPT !.down = t] BY <1>1, <2>2 DEF Links
    <3>4. QED BY <1>1, <2>2, <3>1, <3>3
  <2>3. QED BY <2>1, <2>2
<1>5. /\ Head(d) = d[1] /\ d[1] \in Frames /\ Len(d) \in Nat /\ 1 \in 1 .. Len(d)
      /\ t \in Seq(Frames) /\ Len(t) = Len(d) - 1
      /\ \A i \in 1 .. Len(t) : t[i] = d[i + 1]
      /\ (\A i \in 2 .. Len(d) : d[i].k # "authenticated") =>
              \A i \in 1 .. Len(t) : t[i].k # "authenticated"
  BY <1>2, <1>3, PoppedFacts
<1>6. \A i \in 1 .. Len(t) : t[i].k # "authenticated" BY <1>1, <1>5 DEF EndOK
<1> HIDE DEF t, d
<1>7. /\ cn \in Links /\ cn.down = t /\ cn.up = conn[c].up /\ cn.srv = conn[c].srv /\ cn.seen = conn[c].seen
      /\ auth => cn.brg = "auth"
      /\ ~auth => cn.brg = conn[c].brg
  <2>1. CASE auth BY <1>1, <1>5, <2>1 DEF Links
  <2>2. CASE ~auth BY <1>1, <1>5, <2>2 DEF Links
  <2>3. QED BY <2>1, <2>2
<1>8. /\ r2 \in Readers /\ r2.handled = h /\ r2.cursor = reader.cursor /\ ~r2.busy /\ r2.retry = reader.retry
  BY <1>1, <1>2 DEF Readers
<1> HIDE DEF cn, r2, h, auth
<1>9. ~auth => conn[c].brg = "closed" BY <1>1, <1>2, <1>5 DEF EndOK, auth, d
<1>10. conn[c].srv \in {"auth", "gone"} /\ (conn[c].brg = "closed" => conn[c].srv = "gone") /\ (conn[c].srv = "auth" <=> ledger.reg = c)
  <2>1. conn[c].srv \in {"none", "open", "auth", "gone"} BY <1>1, LinkTypes
  <2>2. QED BY <1>1, <1>2, <2>1 DEF EndOK, d
<1>11. EndOK(ledger, c, cn)
  <2>1. \A i \in 2 .. Len(t) : i \in 1 .. Len(t) BY <1>5
  <2>2. cn.brg = "auth" \/ (cn.brg = "closed" /\ cn.srv = "gone") BY <1>7, <1>9, <1>10
  <2>3. QED BY <1>6, <1>7, <1>10, <2>1, <2>2 DEF EndOK
<1>12. OneAtATime(cs2, r2) BY <1>1, <1>2, <1>7, <1>8, <1>10, OneKept
<1>13. HandlesFirst(cs2, r2) BY <1>8 DEF HandlesFirst
<1>14. cs2[c] = cn BY <1>1
<1>15. ASSUME Counts(cs2, r2, c) PROVE Covered(ledger.log, h, cn.down)
  <2>1. auth
    <3>1. t # <<>> => t[1].k # "authenticated"
      <4>1. t # <<>> => Len(t) > 0 BY <1>5, EmptySeq
      <4>2. QED BY <1>5, <1>6, <4>1
    <3> HIDE DEF cs2
    <3>2. ~auth => cn.brg = "closed" BY <1>7, <1>9
    <3>3. QED BY <1>7, <1>8, <1>14, <1>15, <3>1, <3>2 DEF Counts
  <2>2. Counts(conn, reader, c) BY <1>2, <1>5, <2>1 DEF Counts, auth, d
  <2>3. Covered(ledger.log, h, d) BY <1>1, <2>2 DEF h, d
  <2>4. d[1].k # "entry" BY <1>5, <2>1 DEF auth
  <2>5. Covered(ledger.log, h, t) BY <1>2, <1>3, <2>3, <2>4, CoveredPopped DEF t
  <2>6. QED BY <1>7, <2>5
<1>16. ASSUME ledger.reg = c PROVE Reached(ledger.log, h, cn.down, Len(cn.down) + 1, Len(ledger.log))
  <2>1. auth BY <1>9, <1>10, <1>16
  <2>2. d[1].k # "entry" BY <1>5, <2>1 DEF auth
  <2>3. Reached(ledger.log, h, d, Len(d) + 1, Len(ledger.log)) BY <1>1, <1>2, <1>16 DEF h, d
  <2>4. Len(d) \in 1 .. Len(d) BY <1>5
  <2>5. Reached(ledger.log, h, t, Len(d), Len(ledger.log))
    <3>1. Len(ledger.log) \in Int /\ h \subseteq h BY <1>3
    <3>2. d[1].k = "entry" => d[1].n \in h BY <2>2
    <3>3. Reached(ledger.log, h, Tail(d), Len(d), Len(ledger.log))
      BY <1>2, <1>3, <2>3, <2>4, <3>1, <3>2, ReachedPopped
    <3>4. QED BY <3>3 DEF t
  <2>6. Len(t) + 1 = Len(d) BY <1>5
  <2>7. QED BY <1>7, <2>5, <2>6
<1>17. LinksOK(ledger, cs2, r2)
  BY <1>1, <1>7, <1>8, <1>11, <1>12, <1>13, <1>15, <1>16, LinkChanged DEF h
<1>18. QED BY <1>2, <1>4, <1>17
LEMMA FrameBeginsKeeps ==
  ASSUME LinksOK(ledger, conn, reader), NEW c \in Conns, FrameBegins(c)
  PROVE  LinksOK(ledger', conn', reader')
<1> DEFINE r2 == [reader EXCEPT !.busy = TRUE]
           cs2 == [conn EXCEPT ![c] = conn[c]]
<1>1. /\ ledger \in Ledgers /\ conn \in [Conns -> Links] /\ reader \in Readers /\ conn[c] \in Links
      /\ EndOK(ledger, c, conn[c]) /\ OneAtATime(conn, reader)
      /\ Counts(conn, reader, c) => Covered(ledger.log, reader.handled, conn[c].down)
      /\ ledger.reg = c /\ conn[c].brg # "failed" =>
           Reached(ledger.log, reader.handled, conn[c].down, Len(conn[c].down) + 1, Len(ledger.log))
  BY LinkFacts
<1>2. First(conn, c) /\ conn[c].brg = "auth" /\ ledger' = ledger /\ conn' = conn /\ reader' = r2
  BY DEF FrameBegins, Turn, First
<1>3. cs2 = conn BY <1>1
<1>4. r2 \in Readers /\ r2.handled = reader.handled /\ r2.cursor = reader.cursor /\ r2.retry = reader.retry
  BY <1>1 DEF Readers
<1> HIDE DEF r2, cs2
<1>5. OneAtATime(cs2, r2) BY <1>1, <1>3, <1>4 DEF OneAtATime
<1>6. HandlesFirst(cs2, r2) BY <1>2, <1>3 DEF HandlesFirst
<1>7. Covered(ledger.log, reader.handled, conn[c].down) BY <1>1, <1>2 DEF Counts
<1>8. \A x \in Conns \ {c} : First(cs2, x) => reader.busy /\ First(conn, x) BY <1>2, <1>3, FirstIsOne
<1>9. LinksOK(ledger, cs2, r2) BY <1>1, <1>4, <1>5, <1>6, <1>7, <1>8, LinkChanged DEF cs2
<1>10. QED BY <1>2, <1>3, <1>9

(* What a handled frame says is true once it is handled.                     *)
LEMMA HandledTrue ==
  ASSUME NEW g \in Ledgers, NEW r, NEW r2, r.handled \subseteq r2.handled,
         NEW q \in Seq(Frames), q # <<>>, Covered(g.log, r.handled, q),
         q[1].k = "entry" => q[1].n \in r2.handled
  PROVE  /\ q[1].k = "entry" => q[1].n \in 1 .. Len(g.log) /\ Upto(g, r2, q[1].n)
         /\ q[1].k = "caught_up" => q[1].n \in Nat /\ Upto(g, r2, q[1].n)
<1>1. q[1] \in Frames /\ 1 \in 1 .. Len(q) BY PoppedFacts
<1>2. q[1].n \in Nat BY <1>1 DEF Frames
<1>3. /\ q[1].k = "entry" => q[1].n \in 1 .. Len(g.log) /\ Reached(g.log, r.handled, q, 1, q[1].n - 1)
      /\ q[1].k = "caught_up" => q[1].n <= Len(g.log) /\ Reached(g.log, r.handled, q, 1, q[1].n)
  BY <1>1 DEF Covered
<1>4. \A n \in Int : Reached(g.log, r.handled, q, 1, n) =>
        \A m \in 1 .. n : MayReceive(g.log[m]) => m \in r2.handled
  BY DEF Reached
<1>5. Len(g.log) \in Nat BY LedgerTypes
<1>6. ASSUME q[1].k = "entry" PROVE Upto(g, r2, q[1].n)
  <2>1. \A m \in 1 .. (q[1].n - 1) : MayReceive(g.log[m]) => m \in r2.handled BY <1>2, <1>3, <1>4, <1>6
  <2>2. \A m \in 1 .. q[1].n : m = q[1].n \/ m \in 1 .. (q[1].n - 1) BY <1>2
  <2>3. q[1].n <= Len(g.log) BY <1>3, <1>5, <1>6
  <2>4. QED BY <1>6, <2>1, <2>2, <2>3 DEF Upto
<1>7. ASSUME q[1].k = "caught_up" PROVE Upto(g, r2, q[1].n)
  BY <1>2, <1>3, <1>4, <1>7 DEF Upto
<1>8. QED BY <1>2, <1>3, <1>6, <1>7

LEMMA FrameEndsKeeps ==
  ASSUME LinksOK(ledger, conn, reader), NEW c \in Conns, FrameEnds(c)
  PROVE  LinksOK(ledger', conn', reader')
<1> DEFINE d == conn[c].down
           t == Tail(d)
           f == Head(d)
           acks == f.k = "entry" /\ conn[c].brg = "auth" /\ reader.sock = c
           up == acks /\ conn[c].srv # "gone"
           cn == [conn[c] EXCEPT !.down = t, !.up = IF up THEN f.n ELSE @]
           cs2 == [conn EXCEPT ![c] = cn]
           r2 == [reader EXCEPT !.busy = FALSE, !.cursor = IF f.k = "caught_up" \/ acks THEN f.n ELSE @,
                                !.handled = IF f.k = "entry" THEN @ \cup {f.n} ELSE @]
<1>1. /\ ledger \in Ledgers /\ conn \in [Conns -> Links] /\ reader \in Readers /\ conn[c] \in Links
      /\ EndOK(ledger, c, conn[c]) /\ OneAtATime(conn, reader) /\ HandlesFirst(conn, reader)
      /\ conn[c].seen => conn[c].srv = "gone" \/ conn[c].brg = "failed"
      /\ Counts(conn, reader, c) => Covered(ledger.log, reader.handled, d)
      /\ ledger.reg = c /\ conn[c].brg # "failed" =>
           Reached(ledger.log, reader.handled, d, Len(d) + 1, Len(ledger.log))
  BY LinkFacts
<1>2. First(conn, c) /\ reader.busy /\ ledger' = ledger /\ d # <<>> BY DEF FrameEnds, Turn, First
<1>3. d \in Seq(Frames) /\ Len(ledger.log) \in Nat BY <1>1, LinkTypes, LedgerTypes
<1>4. conn' = cs2 /\ reader' = r2
  <2>1. reader' = r2 BY DEF FrameEnds
  <2>2. conn' = IF up THEN [[conn EXCEPT ![c].down = t] EXCEPT ![c].up = f.n] ELSE [conn EXCEPT ![c].down = t]
    BY DEF FrameEnds, Popped
  <2> HIDE DEF up, t, f
  <2>3. CASE up
    <3>1. cn = [conn[c] EXCEPT !.down = t, !.up = f.n] BY <2>3
    <3>2. QED BY <1>1, <2>1, <2>2, <2>3, <3>1
  <2>4. CASE ~up
    <3>1. cn = [conn[c] EXCEPT !.down = t] BY <1>1, <2>4 DEF Links
    <3>2. QED BY <1>1, <2>1, <2>2, <2>4, <3>1
  <2>5. QED BY <2>3, <2>4
<1>5. conn[c].brg \in {"auth", "closed"} BY <1>1, <1>2, FirstIsOne DEF HandlesFirst
<1>6. /\ Head(d) = d[1] /\ d[1] \in Frames /\ Len(d) \in Nat /\ 1 \in 1 .. Len(d)
      /\ t \in Seq(Frames) /\ Len(t) = Len(d) - 1
      /\ (\A i \in 2 .. Len(d) : d[i].k # "authenticated") =>
              \A i \in 1 .. Len(t) : t[i].k # "authenticated"
  BY <1>2, <1>3, PoppedFacts
<1>7. \A i \in 1 .. Len(t) : t[i].k # "authenticated" BY <1>1, <1>6 DEF EndOK
<1>8. f = d[1] /\ f.n \in Nat
  <2>1. f = d[1] BY <1>6
  <2>2. QED BY <1>6, <2>1 DEF Frames
<1> HIDE DEF d, t, f
<1>9. /\ cn \in Links /\ cn.down = t /\ cn.brg = conn[c].brg /\ cn.srv = conn[c].srv /\ cn.seen = conn[c].seen
      /\ up => cn.up = f.n
      /\ ~up => cn.up = conn[c].up
  <2> HIDE DEF up
  <2>1. CASE up BY <1>1, <1>6, <1>8, <2>1 DEF Links
  <2>2. CASE ~up BY <1>1, <1>6, <1>8, <2>2 DEF Links
  <2>3. QED BY <2>1, <2>2
<1>10. /\ r2 \in Readers /\ r2.busy = FALSE /\ r2.retry = reader.retry
       /\ r2.cursor = IF f.k = "caught_up" \/ acks THEN f.n ELSE reader.cursor
       /\ r2.handled = IF f.k = "entry" THEN reader.handled \cup {f.n} ELSE reader.handled
  <2> HIDE DEF acks
  <2>1. QED BY <1>1, <1>8 DEF Readers
<1> HIDE DEF cn, r2
<1>11. reader.handled \subseteq r2.handled /\ (d[1].k = "entry" => d[1].n \in r2.handled) BY <1>8, <1>10
<1>12. Covered(ledger.log, reader.handled, d) BY <1>1, <1>2 DEF Counts, d
<1>13. /\ f.k = "entry" => f.n \in 1 .. Len(ledger.log) /\ Upto(ledger, r2, f.n)
       /\ f.k = "caught_up" => Upto(ledger, r2, f.n)
  BY <1>1, <1>2, <1>3, <1>8, <1>11, <1>12, HandledTrue
<1>14. CursorsOK(ledger, conn, reader) BY DEF LinksOK
<1>15. \A n \in Int : Upto(ledger, reader, n) => Upto(ledger, r2, n)
  <2>1. Grown(ledger.log, ledger.log) BY <1>1, LedgerTypes, GrownSelf
  <2>2. QED BY <1>11, <2>1, UptoGrows
<1>16. Upto(ledger, r2, ledger.ckpt) /\ Upto(ledger, r2, r2.cursor)
  <2>1. ledger.ckpt \in Nat /\ reader.cursor \in Nat BY <1>1, LedgerTypes, ReaderTypes
  <2>2. Upto(ledger, r2, ledger.ckpt) /\ Upto(ledger, r2, reader.cursor) BY <1>14, <1>15, <2>1 DEF CursorsOK
  <2>3. QED BY <1>10, <1>13, <2>2
<1>17. \A n \in r2.handled : n \in reader.handled \/ (n \in 1 .. Len(ledger.log) /\ Upto(ledger, r2, n))
  BY <1>10, <1>13
<1>18. cn.up # NoCursor => Upto(ledger, r2, cn.up)
  <2>1. CASE up BY <1>9, <1>13, <2>1
  <2>2. CASE ~up
    <3>1. conn[c].up # NoCursor => conn[c].up \in Nat BY <1>1, LinkTypes
    <3>2. QED BY <1>9, <1>14, <1>15, <2>2, <3>1 DEF CursorsOK
  <2>3. QED BY <2>1, <2>2
<1>19. EndOK(ledger, c, cn)
  <2>1. \A i \in 2 .. Len(t) : i \in 1 .. Len(t) BY <1>6
  <2>2. conn[c].srv \in {"none", "open", "auth", "gone"} BY <1>1, LinkTypes
  <2>3. conn[c].srv \in {"auth", "gone"} BY <1>1, <1>2, <2>2 DEF EndOK, d
  <2>4. conn[c].brg = "closed" => conn[c].srv = "gone" BY <1>1 DEF EndOK
  <2>5. conn[c].srv = "auth" <=> ledger.reg = c BY <1>1 DEF EndOK
  <2>6. QED BY <1>5, <1>7, <1>9, <2>1, <2>3, <2>4, <2>5 DEF EndOK
<1>20. OneAtATime(cs2, r2) BY <1>1, <1>9, <1>10, OneKept
<1>21. HandlesFirst(cs2, r2) BY <1>10 DEF HandlesFirst
<1>22. Covered(ledger.log, r2.handled, cn.down)
  <2>1. Covered(ledger.log, r2.handled, t) BY <1>2, <1>3, <1>11, <1>12, CoveredPopped DEF t
  <2>2. QED BY <1>9, <2>1
<1>23. ASSUME ledger.reg = c PROVE Reached(ledger.log, r2.handled, cn.down, Len(cn.down) + 1, Len(ledger.log))
  <2>1. Reached(ledger.log, reader.handled, d, Len(d) + 1, Len(ledger.log)) BY <1>1, <1>5, <1>23 DEF d
  <2>2. Len(d) \in 1 .. Len(d) /\ Len(t) + 1 = Len(d) /\ Len(ledger.log) \in Int BY <1>3, <1>6
  <2>3. Reached(ledger.log, r2.handled, Tail(d), Len(d), Len(ledger.log))
    BY <1>2, <1>3, <1>11, <2>1, <2>2, ReachedPopped
  <2>4. QED BY <1>9, <2>2, <2>3 DEF t
<1>24. LinksOK(ledger, cs2, r2)
  BY <1>1, <1>9, <1>10, <1>11, <1>16, <1>17, <1>18, <1>19, <1>20, <1>21, <1>22, <1>23, LinkReplaced
<1>25. QED BY <1>2, <1>4, <1>24

LEMMA FrameFailsKeeps ==
  ASSUME LinksOK(ledger, conn, reader), NEW c \in Conns, FrameFails(c)
  PROVE  LinksOK(ledger', conn', reader')
<1> DEFINE cn == [conn[c] EXCEPT !.brg = "failed", !.down = <<>>]
           cs2 == [conn EXCEPT ![c] = cn]
           r2 == [reader EXCEPT !.busy = FALSE]
<1>1. /\ ledger \in Ledgers /\ conn \in [Conns -> Links] /\ reader \in Readers /\ conn[c] \in Links
      /\ EndOK(ledger, c, conn[c]) /\ OneAtATime(conn, reader)
  BY LinkFacts
<1>2. conn[c].down # <<>> /\ ledger' = ledger /\ conn' = cs2 /\ reader' = r2 BY <1>1 DEF FrameFails, Turn
<1>3. /\ cn \in Links /\ cn.down = <<>> /\ cn.brg = "failed" /\ cn.srv = conn[c].srv
      /\ cn.seen = conn[c].seen /\ cn.up = conn[c].up
  <2> DEFINE e == <<>>
  <2>1. cn = [conn[c] EXCEPT !.brg = "failed", !.down = e] OBVIOUS
  <2>2. e \in Seq(Frames) OBVIOUS
  <2> HIDE DEF e, cn
  <2>3. /\ cn \in Links /\ cn.down = e /\ cn.brg = "failed" /\ cn.srv = conn[c].srv
        /\ cn.seen = conn[c].seen /\ cn.up = conn[c].up
    BY <1>1, <2>1, <2>2 DEF Links
  <2>4. QED BY <2>3 DEF e
<1>4. /\ r2 \in Readers /\ r2.busy = FALSE /\ r2.retry = reader.retry
      /\ r2.cursor = reader.cursor /\ r2.handled = reader.handled
  BY <1>1 DEF Readers
<1> HIDE DEF cn, r2
<1>5. conn[c].srv \in {"auth", "gone"} /\ (conn[c].srv = "auth" <=> ledger.reg = c)
  <2>1. conn[c].srv \in {"none", "open", "auth", "gone"} BY <1>1, LinkTypes
  <2>2. QED BY <1>1, <1>2, <2>1 DEF EndOK
<1>6. EndOK(ledger, c, cn) BY <1>3, <1>5 DEF EndOK
<1>7. OneAtATime(cs2, r2) BY <1>1, <1>3, <1>4, OneKept
<1>8. HandlesFirst(cs2, r2) BY <1>4 DEF HandlesFirst
<1>9. Covered(ledger.log, reader.handled, cn.down) BY <1>3 DEF Covered
<1>10. LinksOK(ledger, cs2, r2) BY <1>1, <1>3, <1>4, <1>6, <1>7, <1>8, <1>9, LinkChanged
<1>11. QED BY <1>2, <1>10

LEMMA BridgeSeesCloseKeeps ==
  ASSUME LinksOK(ledger, conn, reader), NEW c \in Conns, BridgeSeesClose(c)
  PROVE  LinksOK(ledger', conn', reader')
<1> DEFINE cn == [conn[c] EXCEPT !.seen = TRUE, !.brg = IF @ = "failed" THEN @ ELSE "closed"]
           cs2 == [conn EXCEPT ![c] = cn]
           r2 == [reader EXCEPT !.sock = IF @ = c THEN 0 ELSE @, !.retry = reader.avail]
<1>1. /\ ledger \in Ledgers /\ conn \in [Conns -> Links] /\ reader \in Readers /\ conn[c] \in Links
      /\ EndOK(ledger, c, conn[c]) /\ OneAtATime(conn, reader) /\ HandlesFirst(conn, reader)
      /\ Counts(conn, reader, c) => Covered(ledger.log, reader.handled, conn[c].down)
  BY LinkFacts
<1>2. /\ conn[c].brg # "none" /\ ~conn[c].seen /\ (conn[c].brg = "failed" \/ conn[c].srv = "gone")
      /\ ledger' = ledger /\ conn' = cs2 /\ reader' = r2
  BY <1>1 DEF BridgeSeesClose
<1>3. /\ cn \in Links /\ cn.down = conn[c].down /\ cn.srv = conn[c].srv /\ cn.seen = TRUE /\ cn.up = conn[c].up
      /\ cn.brg = IF conn[c].brg = "failed" THEN "failed" ELSE "closed"
  BY <1>1 DEF Links
<1>4. /\ r2 \in Readers /\ r2.busy = reader.busy
      /\ r2.cursor = reader.cursor /\ r2.handled = reader.handled
  BY <1>1 DEF Readers
<1> HIDE DEF cn, r2
<1>5. EndOK(ledger, c, cn) BY <1>1, <1>2, <1>3 DEF EndOK
<1>6. conn[c].srv # "none" BY <1>1, <1>2 DEF EndOK
<1>7. cs2[c] = cn /\ \A x \in Conns \ {c} : cs2[x] = conn[x] BY <1>1
<1>8. OneAtATime(cs2, r2)
  <2>1. \A x \in Conns : x \in Int BY PushAssumption DEF Conns
  <2> HIDE DEF cs2
  <2>2. \A x \in Conns : cs2[x].seen => cs2[x].srv = "gone" \/ cs2[x].brg = "failed"
    BY <1>1, <1>2, <1>3, <1>7 DEF OneAtATime
  <2>3. \A b, x \in Conns : b < x /\ cs2[x].srv # "none" => cs2[b].seen BY <1>1, <1>3, <1>7 DEF OneAtATime
  <2>4. ASSUME NEW x \in Conns, cs2[x].srv # "none" PROVE cs2[x].seen
    <3>1. CASE x = c BY <1>3, <1>7, <3>1
    <3>2. CASE x < c
      <4>1. conn[x].seen /\ x # c BY <1>1, <1>6, <2>1, <3>2 DEF OneAtATime
      <4>2. QED BY <1>7, <4>1
    <3>3. CASE c < x
      <4>1. conn[x].srv # "none" BY <1>7, <2>1, <2>4, <3>3
      <4>2. QED BY <1>1, <1>2, <3>3, <4>1 DEF OneAtATime
    <3>4. QED BY <2>1, <3>1, <3>2, <3>3
  <2>5. QED BY <2>2, <2>3, <2>4 DEF OneAtATime
<1>9. \A x \in Conns : cs2[x].down = conn[x].down BY <1>3, <1>7
<1>10. \A x \in Conns : conn[x].brg \in {"auth", "closed"} => cs2[x].brg \in {"auth", "closed"} BY <1>3, <1>7
<1> HIDE DEF cs2
<1>11. HandlesFirst(cs2, r2) BY <1>1, <1>4, <1>9, <1>10, HandlesKept DEF First
<1>12. \A x \in Conns : First(cs2, x) => First(conn, x) BY <1>9 DEF First
<1>13. Counts(cs2, r2, c) => Covered(ledger.log, reader.handled, cn.down)
  BY <1>1, <1>3, <1>4, <1>7, <1>12 DEF Counts
<1>14. ledger.reg = c => cn.brg = "failed"
  <2>1. ledger.reg = c => conn[c].srv = "auth" BY <1>1 DEF EndOK
  <2>2. QED BY <1>2, <1>3, <2>1
<1>15. LinksOK(ledger, cs2, r2)
  BY <1>1, <1>3, <1>4, <1>5, <1>8, <1>11, <1>12, <1>13, <1>14, LinkChanged DEF cs2
<1>16. QED BY <1>2, <1>15

LEMMA BridgeCrashKeeps ==
  ASSUME LinksOK(ledger, conn, reader), BridgeCrash
  PROVE  LinksOK(ledger', conn', reader')
<1> DEFINE e == <<>>
           Lost(x) == [conn[x] EXCEPT !.brg = "failed", !.seen = TRUE, !.down = e, !.up = NoCursor]
           cs2 == [x \in Conns |-> IF conn[x].srv = "none" THEN conn[x] ELSE Lost(x)]
           r2 == FreshReader(reader.handled)
<1>1. ledger \in Ledgers /\ conn \in [Conns -> Links] /\ reader \in Readers BY DEF LinksOK, TypesOK
<1>2. ledger' = ledger /\ conn' = cs2 /\ reader' = r2 BY DEF BridgeCrash
<1>3. e \in Seq(Frames) /\ e = <<>> OBVIOUS
<1> HIDE DEF e
<1>4. ASSUME NEW x \in Conns
      PROVE  /\ conn[x].srv = "none" => cs2[x] = conn[x]
             /\ conn[x].srv # "none" => /\ cs2[x] \in Links /\ cs2[x].brg = "failed" /\ cs2[x].seen = TRUE
                                        /\ cs2[x].down = e /\ cs2[x].up = NoCursor /\ cs2[x].srv = conn[x].srv
             /\ cs2[x] \in Links /\ EndOK(ledger, x, conn[x])
             /\ conn[x].srv = "none" => conn[x].down = <<>> /\ conn[x].up = NoCursor
  <2>1. conn[x] \in Links /\ EndOK(ledger, x, conn[x]) BY LinkFacts
  <2>2. conn[x].srv = "none" => conn[x].down = <<>> /\ conn[x].up = NoCursor BY <2>1 DEF EndOK
  <2>3. CASE conn[x].srv = "none" BY <2>1, <2>3, <2>2
  <2>4. CASE conn[x].srv # "none"
    <3>1. cs2[x] = Lost(x) BY <2>4
    <3>2. /\ Lost(x) \in Links /\ Lost(x).brg = "failed" /\ Lost(x).seen = TRUE
          /\ Lost(x).down = e /\ Lost(x).up = NoCursor /\ Lost(x).srv = conn[x].srv
      BY <1>3, <2>1 DEF Links
    <3> HIDE DEF Lost, cs2
    <3>3. QED BY <2>1, <2>4, <3>1, <3>2
  <2>5. QED BY <2>3, <2>4
<1>5. cs2 = [x \in Conns |-> cs2[x]] OBVIOUS
<1>6. /\ r2 \in Readers /\ r2.busy = FALSE /\ r2.cursor = 0 /\ r2.handled = reader.handled
  BY <1>1, ReaderTypes DEF FreshReader, Readers
<1> HIDE DEF cs2, r2
<1>7. TypesOK(ledger, cs2, r2) BY <1>1, <1>4, <1>5, <1>6 DEF TypesOK
<1>8. CursorsOK(ledger, cs2, r2)
  <2>1. CursorsOK(ledger, conn, reader) BY DEF LinksOK
  <2>2. \A n : Upto(ledger, reader, n) <=> Upto(ledger, r2, n) BY <1>6 DEF Upto
  <2>3. Upto(ledger, r2, 0)
    <3>1. Len(ledger.log) \in Nat BY <1>1, LedgerTypes
    <3>2. QED BY <3>1 DEF Upto
  <2>4. \A x \in Conns : cs2[x].up = NoCursor BY <1>4
  <2>5. QED BY <1>6, <2>1, <2>2, <2>3, <2>4 DEF CursorsOK
<1>9. EndsOK(ledger, cs2)
  <2>1. SUFFICES ASSUME NEW x \in Conns PROVE EndOK(ledger, x, cs2[x]) BY DEF EndsOK
  <2>2. CASE conn[x].srv = "none" BY <1>4, <2>2
  <2>3. CASE conn[x].srv # "none"
    <3>1. /\ cs2[x].brg = "failed" /\ cs2[x].down = <<>> /\ cs2[x].up = NoCursor
          /\ cs2[x].srv = conn[x].srv
      BY <1>3, <1>4, <2>3
    <3>2. conn[x].srv = "auth" <=> ledger.reg = x BY <1>4 DEF EndOK
    <3>3. QED BY <2>3, <3>1, <3>2 DEF EndOK
  <2>4. QED BY <2>2, <2>3
<1>10. OneAtATime(cs2, r2)
  <2>1. \A x \in Conns : (cs2[x].srv = "none" <=> conn[x].srv = "none") BY <1>4
  <2>2. \A x \in Conns : cs2[x].srv # "none" => cs2[x].seen /\ cs2[x].brg = "failed" BY <1>4, <2>1
  <2>3. OneAtATime(conn, reader) BY DEF LinksOK
  <2>4. ASSUME NEW x \in Conns, conn[x].srv = "none" PROVE ~cs2[x].seen
    <3>1. conn[x].brg = "none" BY <1>4, <2>4 DEF EndOK
    <3>2. QED BY <1>4, <2>3, <2>4, <3>1 DEF OneAtATime
  <2>5. ASSUME NEW b \in Conns, NEW x \in Conns, b < x, cs2[x].srv # "none" PROVE cs2[b].seen
    <3>1. conn[b].seen BY <2>1, <2>3, <2>5 DEF OneAtATime
    <3>2. QED BY <1>4, <3>1
  <2>6. QED BY <2>1, <2>2, <2>4, <2>5 DEF OneAtATime
<1>11. HandlesFirst(cs2, r2) BY <1>6 DEF HandlesFirst
<1>12. FramesOK(ledger, cs2, r2)
  <2>1. \A x \in Conns : cs2[x].down = <<>> BY <1>3, <1>4
  <2>2. \A x \in Conns : Covered(ledger.log, r2.handled, cs2[x].down) BY <2>1 DEF Covered
  <2>3. ASSUME ledger.reg # 0 PROVE cs2[ledger.reg].brg = "failed"
    <3>1. ledger.reg \in Conns BY <1>1, <2>3, LedgerTypes
    <3>2. conn[ledger.reg].srv = "auth" BY <1>4, <3>1 DEF EndOK
    <3>3. QED BY <1>4, <3>1, <3>2
  <2>4. QED BY <2>2, <2>3 DEF FramesOK
<1>13. LinksOK(ledger, cs2, r2) BY <1>7, <1>8, <1>9, <1>10, <1>11, <1>12 DEF LinksOK
<1>14. QED BY <1>2, <1>13

-----------------------------------------------------------------------------
(* The outbox and the ledger.                                                *)

States == {"none", "pending", "pushed"}

At(log, x) == {n \in DOMAIN log : log[n].of = x}

LEMMA AtFinite ==
  ASSUME NEW log \in Seq(Entries), NEW x
  PROVE  /\ IsFiniteSet(At(log, x)) /\ At(log, x) = {n \in 1 .. Len(log) : log[n].of = x}
         /\ Cardinality(At(log, x)) = 0 => At(log, x) = {}
<1>1. DOMAIN log = 1 .. Len(log) /\ Len(log) \in Nat BY LenProperties
<1>2. At(log, x) \in SUBSET (1 .. Len(log)) BY <1>1 DEF At
<1>3. IsFiniteSet(1 .. Len(log)) BY <1>1, FS_Interval
<1>4. IsFiniteSet(At(log, x)) BY <1>2, <1>3, FS_Subset
<1>5. QED BY <1>1, <1>4, FS_EmptySet DEF At

LEMMA BroadcastPromotes ==
  ASSUME ledger \in Ledgers, outbox \in [Transitions -> States], PromotedOnce,
         NEW cs, NEW c, NEW es \in Seq(Entries), NEW due,
         \A i \in 1 .. Len(es) : es[i].of \notin Transitions, Broadcast(cs, c, es, due)
  PROVE  PromotedOnce' /\ outbox' \in [Transitions -> States]
<1> DEFINE log == ledger.log
           a == Promoted(log)
           p == a \o es
           n == Cardinality(Pending)
           z == Len(log)
           f == SetToSeq(Pending)
<1>1. log \in Seq(Entries) /\ z \in Nat BY LedgerTypes
<1>2. outbox' = Acked /\ ledger'.log = p BY DEF Broadcast, Ledgers
<1>3. outbox' \in [Transitions -> States] BY <1>2 DEF Acked, States
<1>4. /\ n \in Nat /\ a \in Seq(Entries) /\ Len(a) = z + n
      /\ \A i \in 1 .. z : a[i] = log[i]
      /\ \A i \in 1 .. n : a[z + i] = [of |-> f[i], to |-> "bridge"]
  BY <1>1, PromotedIs
<1>5. /\ p \in Seq(Entries) /\ Len(p) = Len(a) + Len(es) /\ Len(es) \in Nat
      /\ \A i \in 1 .. Len(a) : p[i] = a[i]
      /\ \A i \in 1 .. Len(es) : p[Len(a) + i] = es[i]
  <2>1. Grown(a, p) /\ p \in Seq(Entries) /\ Len(p) = Len(a) + Len(es)
        /\ \A i \in 1 .. Len(es) : p[Len(a) + i] = es[i]
    BY <1>1, LogGrows
  <2>2. QED BY <2>1, LenProperties DEF Grown
<1>6. /\ f \in [1 .. n -> Pending] /\ (\A i, j \in 1 .. n : f[i] = f[j] => i = j)
      /\ \A x \in Pending : \E i \in 1 .. n : f[i] = x
  BY PendingFinite, ListsSet
<1> HIDE DEF a, p, n, z, f
<1>7. ASSUME NEW x \in Transitions, NEW m \in 1 .. Len(p), p[m].of = x
      PROVE  (m \in 1 .. z /\ log[m].of = x) \/ \E i \in 1 .. n : m = z + i /\ f[i] = x
  <2>1. CASE m \in 1 .. z BY <1>1, <1>4, <1>5, <1>7, <2>1
  <2>2. CASE m \in (z + 1) .. (z + n)
    <3>1. m - z \in 1 .. n /\ m = z + (m - z) /\ m \in 1 .. Len(a) BY <1>1, <1>4, <2>2
    <3>2. p[m] = [of |-> f[m - z], to |-> "bridge"] BY <1>4, <1>5, <3>1
    <3>3. QED BY <1>7, <3>1, <3>2
  <2>3. CASE m \in (Len(a) + 1) .. (Len(a) + Len(es))
    <3>1. m - Len(a) \in 1 .. Len(es) /\ m = Len(a) + (m - Len(a)) BY <1>1, <1>4, <1>5, <2>3
    <3>2. p[m] = es[m - Len(a)] BY <1>5, <3>1
    <3>3. QED BY <1>7, <3>1, <3>2
  <2>4. QED BY <1>1, <1>4, <1>5, <2>1, <2>2, <2>3
<1>8. ASSUME NEW x \in Transitions, NEW m \in 1 .. z, log[m].of = x PROVE m \in 1 .. Len(p) /\ p[m].of = x
  BY <1>1, <1>4, <1>5, <1>8
<1>9. ASSUME NEW x \in Transitions
      PROVE  Cardinality(At(p, x)) = IF outbox'[x] = "pushed" THEN 1 ELSE 0
  <2>1. Cardinality(At(log, x)) = IF outbox[x] = "pushed" THEN 1 ELSE 0 BY DEF PromotedOnce, At
  <2>2. At(p, x) = {m \in 1 .. Len(p) : p[m].of = x} BY <1>5, AtFinite
  <2>3. /\ At(log, x) = {m \in 1 .. z : log[m].of = x}
        /\ Cardinality(At(log, x)) = 0 => At(log, x) = {}
    BY <1>1, AtFinite DEF z
  <2>4. CASE outbox[x] = "pending"
    <3>1. x \in Pending /\ outbox'[x] = "pushed" BY <1>2, <2>4 DEF Pending, Acked
    <3>2. PICK i \in 1 .. n : f[i] = x BY <1>6, <3>1
    <3>3. At(log, x) = {} BY <2>1, <2>3, <2>4
    <3>4. z + i \in 1 .. Len(p) /\ p[z + i].of = x
      <4>1. z + i \in 1 .. Len(a) /\ z + i \in 1 .. Len(p) BY <1>1, <1>4, <1>5
      <4>2. p[z + i] = [of |-> f[i], to |-> "bridge"] BY <1>4, <1>5, <4>1
      <4>3. QED BY <3>2, <4>1, <4>2
    <3>5. At(p, x) = {z + i} BY <1>6, <1>7, <2>2, <2>3, <3>2, <3>3, <3>4
    <3>6. QED BY <3>1, <3>5, FS_Singleton
  <2>5. CASE outbox[x] # "pending"
    <3>1. x \notin Pending /\ outbox'[x] = outbox[x] BY <1>2, <2>5 DEF Pending, Acked
    <3>2. \A i \in 1 .. n : f[i] # x BY <1>6, <3>1
    <3>3. At(p, x) = At(log, x) BY <1>7, <1>8, <2>2, <2>3, <3>2
    <3>4. QED BY <2>1, <3>1, <3>3
  <2>6. QED BY <2>4, <2>5
<1>10. PromotedOnce' BY <1>2, <1>9 DEF PromotedOnce, At
<1>11. QED BY <1>3, <1>10

(* What a push appends beside the transitions is none of them.               *)
LEMMA NoTransition ==
  /\ \A i \in 1 .. Len(<<>>) : <<>>[i].of \notin Transitions
  /\ \A i \in 1 .. Len(<<Presence>>) : <<Presence>>[i].of \notin Transitions
  /\ \A d \in Parcels, t \in {"bridge", "other"} :
       \A i \in 1 .. Len(<<[of |-> d, to |-> t]>>) : <<[of |-> d, to |-> t]>>[i].of \notin Transitions
<1>1. \A i \in 1 .. Len(<<>>) : <<>>[i].of \notin Transitions OBVIOUS
<1>2. \A i \in 1 .. Len(<<Presence>>) : <<Presence>>[i].of \notin Transitions
  BY PushAssumption DEF Presence
<1>3. ASSUME NEW d \in Parcels, NEW t, NEW i \in 1 .. Len(<<[of |-> d, to |-> t]>>)
      PROVE  <<[of |-> d, to |-> t]>>[i].of \notin Transitions
  <2>1. i = 1 OBVIOUS
  <2>2. QED BY <2>1, PushAssumption
<1>4. QED BY <1>1, <1>2, <1>3
LEMMA SameOutbox ==
  ASSUME PromotedOnce, outbox \in [Transitions -> States], outbox' = outbox, ledger'.log = ledger.log
  PROVE  PromotedOnce' /\ outbox' \in [Transitions -> States]
BY DEF PromotedOnce

LEMMA OutboxKept ==
  ASSUME PushInv, PushNext
  PROVE  PromotedOnce' /\ outbox' \in [Transitions -> States]
<1>1. ledger \in Ledgers /\ outbox \in [Transitions -> States] /\ PromotedOnce
  BY DEF PushInv, LinksOK, TypesOK, States
<1>2. ASSUME NEW cs, NEW c, NEW due, Broadcast(cs, c, <<>>, due)
      PROVE  PromotedOnce' /\ outbox' \in [Transitions -> States]
  BY <1>1, <1>2, BroadcastPromotes, EntryTypes, NoTransition
<1>3. ASSUME NEW cs, NEW c, NEW due, Broadcast(cs, c, <<Presence>>, due)
      PROVE  PromotedOnce' /\ outbox' \in [Transitions -> States]
  BY <1>1, <1>3, BroadcastPromotes, EntryTypes, NoTransition
<1>4. ASSUME NEW x \in Transitions, CommitTransition(x)
      PROVE  PromotedOnce' /\ outbox' \in [Transitions -> States]
  <2>1. /\ outbox' = [outbox EXCEPT ![x] = "pending"] /\ outbox[x] = "none"
        /\ ledger' = ledger
    BY <1>4 DEF CommitTransition
  <2>2. outbox' \in [Transitions -> States] BY <1>1, <2>1 DEF States
  <2>3. \A y \in Transitions : outbox'[y] = "pushed" <=> outbox[y] = "pushed" BY <1>1, <2>1
  <2>4. PromotedOnce' BY <1>1, <2>1, <2>3 DEF PromotedOnce
  <2>5. QED BY <2>2, <2>4
<1>5. ASSUME NEW d \in Parcels, CommitParcel(d)
      PROVE  PromotedOnce' /\ outbox' \in [Transitions -> States]
  <2>1. outbox' = outbox /\ ledger'.log = ledger.log BY <1>1, <1>5 DEF CommitParcel, Ledgers
  <2>2. QED BY <1>1, <2>1, SameOutbox
<1>6. ASSUME NEW d \in Parcels, Announce(d)
      PROVE  PromotedOnce' /\ outbox' \in [Transitions -> States]
  <2> DEFINE t == IF d \in Foreign THEN "other" ELSE "bridge"
             es == <<[of |-> d, to |-> t]>>
  <2>1. t \in {"bridge", "other"} OBVIOUS
  <2>2. Broadcast(conn, ledger.reg, es, ledger.due \ {d}) BY <1>6 DEF Announce
  <2>3. es \in Seq(Entries) BY EntryTypes
  <2> HIDE DEF t
  <2>4. \A i \in 1 .. Len(es) : es[i].of \notin Transitions BY <2>1, NoTransition
  <2> HIDE DEF es
  <2>5. QED BY <1>1, <2>2, <2>3, <2>4, BroadcastPromotes
<1>7. CASE Drain BY <1>2, <1>7 DEF Drain
<1>8. CASE Connect BY <1>1, <1>8, SameOutbox DEF Connect
<1>9. CASE BusCrash
  <2>1. \E cs : Broadcast(cs, 0, <<>>, {}) BY <1>9 DEF BusCrash
  <2>2. QED BY <1>2, <2>1
<1>10. CASE BridgeCrash BY <1>1, <1>10, SameOutbox DEF BridgeCrash
<1>11. ASSUME NEW c \in Conns, Authenticate(c)
       PROVE  PromotedOnce' /\ outbox' \in [Transitions -> States]
  <2>1. \E cs : Broadcast(cs, c, <<Presence>>, ledger.due) BY <1>11 DEF Authenticate
  <2>2. QED BY <1>3, <2>1
<1>12. ASSUME NEW c \in Conns, Acknowledge(c)
       PROVE  PromotedOnce' /\ outbox' \in [Transitions -> States]
  <2>1. outbox' = outbox /\ ledger'.log = ledger.log BY <1>1, <1>12 DEF Acknowledge, Ledgers
  <2>2. QED BY <1>1, <2>1, SameOutbox
<1>13. ASSUME NEW c \in Conns, ServerSeesClose(c)
       PROVE  PromotedOnce' /\ outbox' \in [Transitions -> States]
  <2>1. \/ \E cs : Broadcast(cs, 0, <<Presence>>, ledger.due)
        \/ outbox' = outbox /\ ledger' = ledger
    BY <1>13 DEF ServerSeesClose
  <2>2. QED BY <1>1, <1>3, <2>1, SameOutbox
<1>14. ASSUME NEW c \in Conns, Break(c)
       PROVE  PromotedOnce' /\ outbox' \in [Transitions -> States]
  <2>1. \/ \E cs : Broadcast(cs, 0, <<Presence>>, ledger.due)
        \/ outbox' = outbox /\ ledger' = ledger
    BY <1>14 DEF Break
  <2>2. QED BY <1>1, <1>3, <2>1, SameOutbox
<1>15. ASSUME NEW c \in Conns, BridgeStep(c) \/ FrameFails(c)
       PROVE  PromotedOnce' /\ outbox' \in [Transitions -> States]
  <2>1. outbox' = outbox /\ ledger' = ledger
    BY <1>15 DEF BridgeStep, FrameAtOnce, FrameBegins, FrameEnds, BridgeSeesClose, FrameFails
  <2>2. QED BY <1>1, <2>1, SameOutbox
<1>16. QED
  BY <1>4, <1>5, <1>6, <1>7, <1>8, <1>9, <1>10, <1>11, <1>12, <1>13, <1>14, <1>15 DEF PushNext, ServerStep

-----------------------------------------------------------------------------
(* The invariant.                                                            *)

LEMMA StreamStarts ==
  PushInit => PushInv
<1> SUFFICES ASSUME PushInit PROVE PushInv OBVIOUS
<1>1. /\ ledger = [log |-> <<>>, ckpt |-> 0, reg |-> 0, due |-> {}]
      /\ outbox = [x \in Transitions |-> "none"]
      /\ conn = [c \in Conns |-> NoConn] /\ reader = FreshReader({})
  BY DEF PushInit
<1> DEFINE e == <<>>
<1>2. e \in Seq(Frames) /\ e \in Seq(Entries) /\ Len(e) = 0 /\ e = <<>> /\ DOMAIN e = {} OBVIOUS
<1>3. ledger = [log |-> e, ckpt |-> 0, reg |-> 0, due |-> {}] BY <1>1
<1>4. NoConn = [srv |-> "none", down |-> e, up |-> NoCursor, brg |-> "none", seen |-> FALSE] BY DEF NoConn
<1> HIDE DEF e
<1>5. /\ ledger \in Ledgers /\ ledger.log = e /\ ledger.ckpt = 0 /\ ledger.reg = 0 BY <1>2, <1>3 DEF Ledgers
<1>6. /\ NoConn \in Links /\ NoConn.srv = "none" /\ NoConn.down = e /\ NoConn.up = NoCursor
      /\ NoConn.brg = "none" /\ NoConn.seen = FALSE
  BY <1>2, <1>4 DEF Links
<1>7. /\ reader \in Readers /\ reader.cursor = 0 /\ reader.busy = FALSE /\ reader.handled = {}
  BY <1>1 DEF FreshReader, Readers
<1>8. conn \in [Conns -> Links] /\ \A c \in Conns : conn[c] = NoConn BY <1>1, <1>6
<1>9. 0 \notin Conns BY PushAssumption DEF Conns
<1>10. CursorsOK(ledger, conn, reader) BY <1>2, <1>5, <1>6, <1>7, <1>8 DEF CursorsOK, Upto
<1>11. EndsOK(ledger, conn) BY <1>2, <1>5, <1>6, <1>8, <1>9 DEF EndsOK, EndOK
<1>12. OneAtATime(conn, reader) BY <1>6, <1>8 DEF OneAtATime
<1>13. HandlesFirst(conn, reader) BY <1>7 DEF HandlesFirst
<1>14. FramesOK(ledger, conn, reader)
  <2>1. \A c \in Conns : conn[c].down = e BY <1>6, <1>8
  <2>2. \A c \in Conns : Covered(ledger.log, reader.handled, conn[c].down) BY <1>2, <1>5, <2>1 DEF Covered
  <2>3. QED BY <1>5, <2>2 DEF FramesOK
<1>15. LinksOK(ledger, conn, reader)
  BY <1>5, <1>7, <1>8, <1>10, <1>11, <1>12, <1>13, <1>14 DEF LinksOK, TypesOK
<1>16. PromotedOnce
  <2>1. \A x : {n \in DOMAIN ledger.log : ledger.log[n].of = x} = {} BY <1>2, <1>5
  <2>2. \A x \in Transitions : outbox[x] # "pushed" BY <1>1
  <2>3. QED BY <2>1, <2>2, FS_EmptySet DEF PromotedOnce
<1>17. QED BY <1>1, <1>15, <1>16 DEF PushInv

LEMMA StreamStep ==
  ASSUME PushInv, PushNext
  PROVE  PushInv'
<1>1. LinksOK(ledger, conn, reader) BY DEF PushInv
<1>2. ASSUME NEW x \in Transitions, CommitTransition(x) PROVE LinksOK(ledger', conn', reader')
  BY <1>1, <1>2 DEF CommitTransition
<1>3. ASSUME NEW c \in Conns, ServerStep(c) \/ BridgeStep(c) \/ FrameFails(c) \/ Break(c)
      PROVE  LinksOK(ledger', conn', reader')
  BY <1>1, <1>3, AuthenticateKeeps, AcknowledgeKeeps, ServerSeesCloseKeeps, FrameAtOnceKeeps, FrameBeginsKeeps,
     FrameEndsKeeps, BridgeSeesCloseKeeps, FrameFailsKeeps, BreakKeeps DEF ServerStep, BridgeStep
<1>4. LinksOK(ledger', conn', reader')
  BY <1>1, <1>2, <1>3, CommitParcelKeeps, AnnounceKeeps, DrainKeeps, ConnectKeeps, BusCrashKeeps, BridgeCrashKeeps
     DEF PushNext
<1>5. PromotedOnce' /\ outbox' \in [Transitions -> States] BY OutboxKept
<1>6. LinksOK(ledger, conn, reader)' BY <1>4
<1>7. QED BY <1>5, <1>6 DEF PushInv, States

(* The push stream agrees with itself across crashes, breaks, failed frames  *)
(* and replaced connections: checkpoints, cursors and the acknowledgements   *)
(* on their way are true, at most one connection is looked at, no frame      *)
(* still to be handled passes over an entry, and every committed transition  *)
(* is in the ledger once (transport-push-stream.ts, server.ts, daemon.ts).   *)
THEOREM StreamAgrees == PushSpec => []PushInv
<1>1. PushInit => PushInv BY StreamStarts
<1>2. PushInv /\ [PushNext]_pushVars => PushInv'
  <2> SUFFICES ASSUME PushInv, [PushNext]_pushVars PROVE PushInv' OBVIOUS
  <2>1. CASE PushNext BY <2>1, StreamStep
  <2>2. CASE UNCHANGED pushVars
    <3>1. ledger' = ledger /\ outbox' = outbox /\ conn' = conn /\ reader' = reader BY <2>2 DEF pushVars
    <3>2. LinksOK(ledger, conn, reader)' BY <3>1 DEF PushInv
    <3>3. PromotedOnce' BY <3>1 DEF PushInv, PromotedOnce
    <3>4. QED BY <3>1, <3>2, <3>3 DEF PushInv
  <2>3. QED BY <2>1, <2>2
<1>3. QED BY <1>1, <1>2, PTL DEF PushSpec

(* What the Bridge handled is a prefix of what is for it in the ledger of    *)
(* the Bus, and every committed transition is there once.                    *)
THEOREM StreamStaysWhole == PushSpec => []StreamIsWhole
<1>1. PushInv => StreamIsWhole
  <2> SUFFICES ASSUME PushInv PROVE StreamIsWhole OBVIOUS
  <2>1. CursorsOK(ledger, conn, reader) /\ PromotedOnce BY DEF PushInv, LinksOK
  <2>2. ledger \in Ledgers /\ reader \in Readers BY DEF PushInv, LinksOK, TypesOK
  <2>3. ledger.ckpt \in Nat /\ reader.cursor \in Nat /\ Len(ledger.log) \in Nat
    BY <2>2, LedgerTypes, ReaderTypes
  <2>4. \A n \in reader.handled : \A m \in 1 .. n : Mine(m) => m \in reader.handled
    BY <2>1 DEF CursorsOK, Upto, Mine
  <2>5. ASSUME NEW m \in 1 .. Len(ledger.log), Mine(m), m <= ledger.ckpt \/ m <= reader.cursor
        PROVE  m \in reader.handled
    <3>1. m \in 1 .. ledger.ckpt \/ m \in 1 .. reader.cursor BY <2>3, <2>5
    <3>2. QED BY <2>1, <2>5, <3>1 DEF CursorsOK, Upto, Mine
  <2>6. QED BY <2>1, <2>4, <2>5 DEF StreamIsWhole, NoneSkipped
<1>2. QED BY <1>1, StreamAgrees, PTL
=============================================================================
