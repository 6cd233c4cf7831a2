-------------------------- MODULE OperationsProofs --------------------------
(***************************************************************************)
(* Proofs about module Operations, for any set of invocations and approval  *)
(* requirements, any limit and any number of crashes and faults.            *)
(*                                                                          *)
(* An action writes one invocation and moves the stretch under way; the     *)
(* invariant therefore speaks of one record (KeyOK, Charges, Waits, Runs)   *)
(* and of the stretch with the record it works on (StepOK, StepCharges).    *)
(***************************************************************************)
EXTENDS Operations, FiniteSetTheorems, TLAPS

-----------------------------------------------------------------------------
(* The inductive invariant.                                                  *)

(* Between begin and the handler. *)
Preparing == {"admit", "evaluated", "approve", "decide", "refuse", "await",
              "authorize", "enter"}

OnApproval(r) ==
  r.policy = "require_approval" => r.used = Requirements /\ Approved(r)

(* A key that may still be prepared was never entered, and one that was       *)
(* entered was so on consumed approvals.                                      *)
KeyOK(r) ==
  /\ r.entered <= 1
  /\ r.ledger \in {"none", "awaiting_approval"} => r.entered = 0
  /\ r.used # {} => r.used = Requirements
  /\ r.entered > 0 => OnApproval(r)

(* The stretch t under way prepares a key that was never entered; r is the    *)
(* record of that key.                                                        *)
StepOK(t, r) ==
  /\ t.pc \in Preparing => r.entered = 0 /\ r.ledger # "none"
  /\ t.pc = "enter" => r.ledger = "running"
  /\ t.pc \in {"authorize", "enter"} => OnApproval(r)
  /\ t.pc = "record" => t.out \in Terminal \cup {"outcome_unknown"}

OperationsInv ==
  /\ TypeOK
  /\ \A k \in Invocations : KeyOK(inv[k])
  /\ StepOK(step, inv[step.k])

(* The Bus does not die between a refusal that released a reservation and     *)
(* the update of the receipt.                                                 *)
Careful == "refuse" \notin CrashPoints

(* The reservation the evidence names is open. *)
Holds(r, ev) == r.resv = IF ev.resv THEN "reserved" ELSE "none"

(* UncertainStaysCharged and RecordsAgree for one key. *)
Charges(r) ==
  /\ r.entered = 0 => r.did = "nothing"
  /\ r.did = "maybe" /\ r.limited /\ ~r.cleared
       => r.resv \in Charged \cup {"committed", "exceeded"}
  /\ r.ledger = "completed" =>
       /\ r.did = "maybe" /\ r.audit = "completed"
       /\ r.resv \in {"none", "committed", "exceeded"}
  /\ r.ledger = "refused" =>
       /\ r.did # "maybe" /\ r.audit \in {"none", "open", "refused"}
       /\ r.booked = 0
  /\ r.audit = "refused" => r.did # "maybe"
  /\ r.booked # 0 => r.audit = "completed"

(* What a call for the key that goes on from its receipt relies on. *)
Waits(r) ==
  /\ r.ledger \in {"none", "awaiting_approval"} =>
       r.audit \in {"none", "open"} /\ r.booked = 0 /\ Holds(r, r.ev)
  /\ r.ledger = "awaiting_approval" => r.policy # "none" /\ (r.limited => r.ev.resv)

(* A handler that runs in process e. *)
Runs(r, e) ==
  /\ r.ledger = "running" /\ r.owner = e /\ r.did = "maybe"
  /\ r.audit = "open" /\ r.booked = 0 /\ Holds(r, r.ev)

StepCharges(t, r) ==
  /\ t.pc \in Preparing \ {"refuse"} =>
       r.audit \in {"none", "open"} /\ r.booked = 0 /\ Holds(r, t.ev)
  /\ t.pc \in {"evaluated", "approve", "decide", "await"} => r.policy # "none"
  /\ t.pc \in {"approve", "decide", "await", "authorize", "enter"} /\ r.limited => t.ev.resv
  /\ t.pc \in {"decide", "await", "authorize", "enter"} => r.audit = "open"
  /\ t.pc = "enter" => r.owner = epoch /\ r.ev = t.ev
  /\ t.pc = "refuse" => r.audit = "refused" /\ r.booked = 0
  /\ t.pc \in {"repair", "recover", "record"} => r.ledger \in {"running", "outcome_unknown"}
  /\ t.pc = "record" /\ t.out = "completed" =>
       r.did = "maybe" /\ r.audit = "completed" /\ r.resv \in {"none", "committed", "exceeded"}
  /\ t.pc = "record" /\ t.out = "refused" =>
       r.did = "refused" /\ r.audit = "refused" /\ r.booked = 0

ChargesInv ==
  /\ \A k \in Invocations :
       /\ Charges(inv[k])
       /\ ~At(k, "refuse") => Waits(inv[k])
       /\ k \in active => Runs(inv[k], epoch)
  /\ StepCharges(step, inv[step.k])
  /\ step.pc # "idle" => step.k \notin active

-----------------------------------------------------------------------------
(* Lemmas about the pieces.                                                  *)

StepRecord == [k: Invocations, pc: Steps, ev: Evidence,
               out: Terminal \cup {"none", "lost", "outcome_unknown"}]

RestType ==
  /\ active \subseteq Invocations
  /\ epoch \in 1 .. MaxCrashes + 1 /\ mistaken \subseteq 1 .. MaxCrashes
  /\ now \in 1 .. Windows /\ faults \in 0 .. MaxFaults

(* The type invariant by its parts. *)
LEMMA TypeParts ==
  /\ TypeOK <=> inv \in [Invocations -> Invocation] /\ step \in StepRecord /\ RestType
  /\ TypeOK' <=> inv' \in [Invocations -> Invocation] /\ step' \in StepRecord /\ RestType'
  BY DEF TypeOK, StepRecord, RestType

(* No stretch is under way. *)
LEMMA IdleStep ==
  /\ Idle \in StepRecord /\ Idle.pc = "idle"
  /\ \A r : StepOK(Idle, r) /\ StepCharges(Idle, r)
<1>1. Idle \in StepRecord /\ Idle.pc = "idle"
  BY OperationsAssumption DEF Idle, StepRecord, Steps, Evidence, NoEvidence
<1> QED BY <1>1 DEF StepOK, StepCharges, Preparing

(* An action that writes one key and keeps everything about that key keeps    *)
(* the invariant.                                                             *)
LEMMA Combine ==
  ASSUME OperationsInv, NEW k \in Invocations, NEW r \in Invocation, NEW t \in StepRecord,
         Set(k, r), step' = t, RestType', KeyOK(r),
         t.pc = "idle" \/ (t.k = k /\ StepOK(t, r))
  PROVE  OperationsInv'
<1>1. /\ inv' \in [Invocations -> Invocation] /\ inv'[k] = r
      /\ \A j \in Invocations : j # k => inv'[j] = inv[j]
  BY DEF OperationsInv, TypeOK, Set
<1>2. TypeOK' BY <1>1, TypeParts
<1>3. \A j \in Invocations : KeyOK(inv'[j])
  BY <1>1 DEF OperationsInv
<1>4. StepOK(t, inv'[t.k])
  <2>1. CASE t.pc = "idle" BY <2>1 DEF StepOK, Preparing
  <2>2. CASE t.k = k /\ StepOK(t, r) BY <1>1, <2>2
  <2> QED BY <2>1, <2>2
<1> QED BY <1>2, <1>3, <1>4 DEF OperationsInv, KeyOK, StepOK, OnApproval, Approved

(* The same for what is charged.  Only the stretch of k is moved. *)
LEMMA CombineCharges ==
  ASSUME OperationsInv, ChargesInv, NEW k \in Invocations, NEW r \in Invocation,
         NEW t \in StepRecord, Set(k, r), step' = t, epoch' = epoch,
         step.pc = "idle" \/ step.k = k,
         Charges(r), t.pc # "refuse" => Waits(r),
         \A j \in active' : IF j = k THEN Runs(r, epoch) ELSE j \in active,
         t.pc = "idle" \/ (t.k = k /\ StepCharges(t, r) /\ k \notin active')
  PROVE  ChargesInv'
<1>1. /\ inv' \in [Invocations -> Invocation] /\ inv'[k] = r
      /\ \A j \in Invocations : j # k => inv'[j] = inv[j]
  BY DEF OperationsInv, TypeOK, Set
<1>2. ASSUME NEW j \in Invocations
      PROVE  /\ Charges(inv'[j])
             /\ ~At(j, "refuse")' => Waits(inv'[j])
             /\ j \in active' => Runs(inv'[j], epoch')
  <2>1. CASE j = k
    <3>1. Charges(inv'[j]) BY <1>1, <2>1
    <3>2. ~At(j, "refuse")' => Waits(inv'[j])
      <4>1. CASE t.pc = "refuse" BY <1>1, <2>1, <4>1 DEF At
      <4>2. CASE t.pc # "refuse" BY <1>1, <2>1, <4>2
      <4> QED BY <4>1, <4>2
    <3>3. j \in active' => Runs(inv'[j], epoch') BY <1>1, <2>1
    <3> QED BY <3>1, <3>2, <3>3
  <2>2. CASE j # k
    <3>1. inv'[j] = inv[j] BY <1>1, <2>2
    <3>2. ~At(j, "refuse") BY <2>2 DEF At
    <3>3. j \in active' => j \in active BY <2>2
    <3> QED BY <3>1, <3>2, <3>3 DEF ChargesInv
  <2> QED BY <2>1, <2>2
<1>3. StepCharges(t, inv'[t.k]) /\ (t.pc # "idle" => t.k \notin active')
  <2>1. CASE t.pc = "idle" BY <2>1 DEF StepCharges, Preparing
  <2>2. CASE t.k = k /\ StepCharges(t, r) /\ k \notin active' BY <1>1, <2>2
  <2> QED BY <2>1, <2>2
<1>4. StepCharges(t, inv'[t.k]) = StepCharges(step, inv[step.k])' BY DEF StepCharges, Holds
<1> QED BY <1>2, <1>3, <1>4 DEF ChargesInv

(* Everything but the reservation, its booking and the audit record. *)
SameWork(r, s) ==
  /\ s.ledger = r.ledger /\ s.owner = r.owner /\ s.ev = r.ev
  /\ s.policy = r.policy /\ s.limited = r.limited /\ s.window = r.window
  /\ s.req = r.req /\ s.rcpt = r.rcpt /\ s.used = r.used
  /\ s.entered = r.entered /\ s.did = r.did /\ s.cleared = r.cleared

(* KeyOK does not read the reservation or the audit record. *)
LEMMA SameWorkOK ==
  ASSUME NEW r, NEW s, SameWork(r, s), KeyOK(r)
  PROVE  KeyOK(s)
  BY DEF SameWork, KeyOK, OnApproval, Approved

(* What the helpers change. *)
LEMMA AuditedEffect ==
  ASSUME NEW r \in Invocation, NEW o \in Terminal \cup {"outcome_unknown"}
  PROVE  /\ Audited(r, o) \in Invocation /\ SameWork(r, Audited(r, o))
         /\ Audited(r, o).resv = r.resv /\ Audited(r, o).booked = r.booked
         /\ Audited(r, o).audit = IF r.audit \in {"none", "open"} THEN o ELSE r.audit
  BY DEF Audited, Invocation, SameWork

(* beginAudit opens the audit record once. *)
LEMMA BeginAuditEffect ==
  ASSUME NEW r \in Invocation
  PROVE  /\ BeginAudit(r) \in Invocation /\ SameWork(r, BeginAudit(r))
         /\ BeginAudit(r).resv = r.resv /\ BeginAudit(r).booked = r.booked
         /\ BeginAudit(r).audit = IF r.audit = "none" THEN "open" ELSE r.audit
  BY DEF BeginAudit, Invocation, SameWork

(* A refusal releases what is still reserved and completes the audit record. *)
LEMMA RefusedEffect ==
  ASSUME NEW r \in Invocation, NEW ev \in Evidence
  PROVE  /\ Refused(r, ev) \in Invocation /\ SameWork(r, Refused(r, ev))
         /\ Refused(r, ev).booked = r.booked
         /\ r.audit \in {"none", "open"} => Refused(r, ev).audit = "refused"
<1>1. /\ Released(r, ev) \in Invocation /\ SameWork(r, Released(r, ev))
      /\ Released(r, ev).booked = r.booked /\ Released(r, ev).audit = r.audit
  BY DEF Released, Invocation, SameWork
<1> QED BY <1>1, AuditedEffect DEF Refused, SameWork, Terminal

(* Settling books, releases or keeps the reservation the evidence names. *)
LEMMA SettleEffect ==
  ASSUME TypeOK, NEW r \in Invocation, NEW o \in {"completed", "refused", "outcome_unknown"}
  PROVE  LET s == Settle(r, o)
         IN  /\ s \in Invocation /\ SameWork(r, s)
             /\ s.audit = IF r.audit \in {"none", "open"} THEN o ELSE r.audit
             /\ ~r.ev.resv => s.resv = r.resv /\ s.booked = r.booked
             /\ r.ev.resv /\ o = "completed" => s.resv \in {"committed", "exceeded"}
             /\ r.ev.resv /\ o = "refused" => s.resv = "released" /\ s.booked = r.booked
             /\ r.ev.resv /\ o = "outcome_unknown" =>
                  s.resv = "outcome_unknown" /\ s.booked = r.booked
<1>0. now \in 0 .. Windows BY OperationsAssumption DEF TypeOK
<1>1. /\ Commit(r) \in Invocation /\ SameWork(r, Commit(r)) /\ Commit(r).audit = r.audit
      /\ Commit(r).resv \in {"committed", "exceeded"}
  <2> DEFINE c == [r EXCEPT !.resv = "committed", !.booked = now]
             x == [r EXCEPT !.resv = "exceeded", !.booked = now]
  <2>1. /\ c \in Invocation /\ SameWork(r, c) /\ c.audit = r.audit /\ c.resv = "committed"
        /\ x \in Invocation /\ SameWork(r, x) /\ x.audit = r.audit /\ x.resv = "exceeded"
    BY <1>0 DEF Invocation, SameWork
  <2>2. Commit(r) = c \/ Commit(r) = x BY DEF Commit
  <2> QED BY <2>1, <2>2
<1>2. LET s == SettleBudget(r, o)
      IN  /\ s \in Invocation /\ SameWork(r, s) /\ s.audit = r.audit
          /\ ~r.ev.resv => s.resv = r.resv /\ s.booked = r.booked
          /\ r.ev.resv /\ o = "completed" => s.resv \in {"committed", "exceeded"}
          /\ r.ev.resv /\ o = "refused" => s.resv = "released" /\ s.booked = r.booked
          /\ r.ev.resv /\ o = "outcome_unknown" =>
               s.resv = "outcome_unknown" /\ s.booked = r.booked
  <2>1. CASE ~r.ev.resv BY <2>1 DEF SettleBudget, SameWork
  <2>2. CASE r.ev.resv /\ o = "completed" BY <1>1, <2>2 DEF SettleBudget
  <2>3. CASE r.ev.resv /\ o = "refused" BY <2>3 DEF SettleBudget, Invocation, SameWork
  <2>4. CASE r.ev.resv /\ o = "outcome_unknown"
    BY <2>4 DEF SettleBudget, Invocation, SameWork, Charged
  <2> QED BY <2>1, <2>2, <2>3, <2>4
<1>3. SettleBudget(r, o) \in Invocation BY <1>2
<1>4. /\ Settle(r, o) \in Invocation /\ SameWork(SettleBudget(r, o), Settle(r, o))
      /\ Settle(r, o).resv = SettleBudget(r, o).resv
      /\ Settle(r, o).booked = SettleBudget(r, o).booked
      /\ Settle(r, o).audit = IF SettleBudget(r, o).audit \in {"none", "open"} THEN o
                              ELSE SettleBudget(r, o).audit
  BY <1>3, AuditedEffect DEF Settle, Terminal
<1> QED BY <1>2, <1>4 DEF SameWork

(* Begin keeps the invariant. *)
LEMMA BeginOK ==
  ASSUME OperationsInv, NEW k \in Invocations, Begin(k)
  PROVE  OperationsInv' /\ (ChargesInv => ChargesInv')
<1> DEFINE r == IF inv[k].ledger = "none"
                THEN [inv[k] EXCEPT !.ledger = "running", !.owner = epoch]
                ELSE inv[k]
           t == [k |-> k, pc |-> "admit", ev |-> inv[k].ev, out |-> "none"]
<1>0. /\ inv[k] \in Invocation /\ step.ev \in Evidence
      /\ 0 \in 0 .. MaxCrashes + 1 /\ epoch \in 0 .. MaxCrashes + 1 /\ now \in 0 .. Windows
  BY TypeParts, OperationsAssumption DEF OperationsInv, RestType, StepRecord
<1>1. /\ inv \in [Invocations -> Invocation] /\ inv[k] \in Invocation
      /\ step \in StepRecord /\ RestType /\ TypeOK /\ KeyOK(inv[k]) /\ StepOK(step, inv[step.k])
  BY TypeParts DEF OperationsInv
<1>2. /\ Set(k, r) /\ step' = t
      /\ step.pc = "idle" \/ step.k = k
  BY <1>1 DEF Begin, Set
<1>3. r \in Invocation
  <2>1. [inv[k] EXCEPT !.ledger = "running", !.owner = epoch] \in Invocation BY <1>0 DEF Invocation
  <2> QED BY <1>0, <2>1
<1>4. t \in StepRecord
  BY <1>1 DEF StepRecord, Steps, Evidence, NoEvidence, Terminal, Invocation
<1>5. RestType'
  BY <1>1, OperationsAssumption DEF Begin, RestType, Steady
<1>6. KeyOK(r)
  BY <1>1 DEF Begin, At, KeyOK, OnApproval, Approved, StepOK, Preparing, Invocation, Terminal
<1>7. t.pc = "idle" \/ (t.k = k /\ StepOK(t, r))
  BY <1>1, <1>6 DEF Begin, At, StepOK, KeyOK, Preparing, OnApproval, Approved, StepRecord,
     Invocation, Terminal
<1>8. OperationsInv'
  <2> HIDE DEF r, t
  <2> QED BY <1>2, <1>3, <1>4, <1>5, <1>6, <1>7, Combine
<1>9. ASSUME ChargesInv PROVE ChargesInv'
  <2>0. /\ Charges(inv[k]) /\ (~At(k, "refuse") => Waits(inv[k]))
        /\ (k \in active => Runs(inv[k], epoch))
        /\ (step.k = k => StepCharges(step, inv[k])) /\ (step.pc # "idle" => step.k \notin active)
    BY <1>1, <1>9 DEF ChargesInv
  <2>1. Charges(r)
    BY <1>1, <2>0 DEF Begin, At, Charges, Waits, Runs, Holds, StepCharges, KeyOK, StepOK,
       Preparing, Charged, Invocation, StepRecord, Terminal
  <2>2. t.pc # "refuse" => Waits(r)
    BY <1>1, <2>0 DEF Begin, At, Charges, Waits, Runs, Holds, StepCharges, KeyOK, StepOK,
       Preparing, Charged, Invocation, StepRecord, Evidence, Terminal
  <2>3. epoch' = epoch /\ \A j \in active' : IF j = k THEN Runs(r, epoch) ELSE j \in active
    BY <1>1, <2>0 DEF Begin, At, Charges, Waits, Runs, Holds, StepCharges, KeyOK, StepOK,
       Preparing, Charged, Invocation, StepRecord, Steady
  <2>4. t.pc = "idle" \/ (t.k = k /\ StepCharges(t, r) /\ k \notin active')
    BY <1>1, <2>0 DEF Begin, At, Charges, Waits, Runs, Holds, StepCharges, KeyOK, StepOK,
       Preparing, Charged, Invocation, StepRecord, Evidence, Steady
  <2> HIDE DEF r, t
  <2> QED BY <1>2, <1>3, <1>4, <1>9, <2>1, <2>2, <2>3, <2>4, CombineCharges
<1> QED BY <1>8, <1>9

(* RecoverBudget keeps the invariant. *)
LEMMA RecoverBudgetOK ==
  ASSUME OperationsInv, NEW k \in Invocations, RecoverBudget(k)
  PROVE  OperationsInv' /\ (ChargesInv => ChargesInv')
<1> DEFINE r == IF inv[k].ev.resv /\ inv[k].resv = "reserved"
                THEN [inv[k] EXCEPT !.resv = "outcome_unknown"]
                ELSE inv[k]
           t == [k |-> k, pc |-> "repair", ev |-> inv[k].ev,
                 out |-> IF inv[k].ledger = "running" /\ ~MayStillRun(inv[k].owner) THEN "lost" ELSE "none"]
<1>0. /\ inv[k] \in Invocation /\ step.ev \in Evidence
      /\ 0 \in 0 .. MaxCrashes + 1 /\ epoch \in 0 .. MaxCrashes + 1 /\ now \in 0 .. Windows
  BY TypeParts, OperationsAssumption DEF OperationsInv, RestType, StepRecord
<1>1. /\ inv \in [Invocations -> Invocation] /\ inv[k] \in Invocation
      /\ step \in StepRecord /\ RestType /\ TypeOK /\ KeyOK(inv[k]) /\ StepOK(step, inv[step.k])
  BY TypeParts DEF OperationsInv
<1>2. /\ Set(k, r) /\ step' = t
      /\ step.pc = "idle" \/ step.k = k
  BY <1>1 DEF RecoverBudget, Set
<1>3. r \in Invocation
  BY <1>0 DEF Invocation, Charged
<1>4. t \in StepRecord
  BY <1>1 DEF StepRecord, Steps, Evidence, NoEvidence, Terminal, Invocation
<1>5. RestType'
  BY <1>1, OperationsAssumption DEF RecoverBudget, RestType, Steady
<1>6. KeyOK(r)
  BY <1>1 DEF RecoverBudget, At, KeyOK, OnApproval, Approved, StepOK, Preparing, Invocation,
     Terminal
<1>7. t.pc = "idle" \/ (t.k = k /\ StepOK(t, r))
  BY <1>1, <1>6 DEF RecoverBudget, At, StepOK, KeyOK, Preparing, OnApproval, Approved,
     StepRecord, Invocation, Terminal
<1>8. OperationsInv'
  <2> HIDE DEF r, t
  <2> QED BY <1>2, <1>3, <1>4, <1>5, <1>6, <1>7, Combine
<1>9. ASSUME ChargesInv PROVE ChargesInv'
  <2>0. /\ Charges(inv[k]) /\ (~At(k, "refuse") => Waits(inv[k]))
        /\ (k \in active => Runs(inv[k], epoch))
        /\ (step.k = k => StepCharges(step, inv[k])) /\ (step.pc # "idle" => step.k \notin active)
    BY <1>1, <1>9 DEF ChargesInv
  <2>1. Charges(r)
    BY <1>1, <2>0 DEF RecoverBudget, At, Charges, Waits, Runs, Holds, StepCharges, KeyOK,
       StepOK, Preparing, Charged, Invocation, StepRecord, Terminal
  <2>2. t.pc # "refuse" => Waits(r)
    BY <1>1, <2>0 DEF RecoverBudget, At, Charges, Waits, Runs, Holds, StepCharges, KeyOK,
       StepOK, Preparing, Charged, Invocation, StepRecord, Evidence, Terminal
  <2>3. epoch' = epoch /\ \A j \in active' : IF j = k THEN Runs(r, epoch) ELSE j \in active
    BY <1>1, <2>0 DEF RecoverBudget, At, Charges, Waits, Runs, Holds, StepCharges, KeyOK,
       StepOK, Preparing, Charged, Invocation, StepRecord, Steady, MayStillRun
  <2>4. t.pc = "idle" \/ (t.k = k /\ StepCharges(t, r) /\ k \notin active')
    BY <1>1, <2>0 DEF RecoverBudget, At, Charges, Waits, Runs, Holds, StepCharges, KeyOK,
       StepOK, Preparing, Charged, Invocation, StepRecord, Evidence, Steady, MayStillRun
  <2> HIDE DEF r, t
  <2> QED BY <1>2, <1>3, <1>4, <1>9, <2>1, <2>2, <2>3, <2>4, CombineCharges
<1> QED BY <1>8, <1>9

(* RecoverAudit keeps the invariant. *)
LEMMA RecoverAuditOK ==
  ASSUME OperationsInv, NEW k \in Invocations, RecoverAudit(k)
  PROVE  OperationsInv' /\ (ChargesInv => ChargesInv')
<1> DEFINE r == IF inv[k].audit = "open"
                THEN [inv[k] EXCEPT !.audit = "outcome_unknown"]
                ELSE inv[k]
           t == IF step.out = "lost" THEN [step EXCEPT !.pc = "recover"] ELSE Idle
<1>0. /\ inv[k] \in Invocation /\ step.ev \in Evidence
      /\ 0 \in 0 .. MaxCrashes + 1 /\ epoch \in 0 .. MaxCrashes + 1 /\ now \in 0 .. Windows
  BY TypeParts, OperationsAssumption DEF OperationsInv, RestType, StepRecord
<1>1. /\ inv \in [Invocations -> Invocation] /\ inv[k] \in Invocation
      /\ step \in StepRecord /\ RestType /\ TypeOK /\ KeyOK(inv[k]) /\ StepOK(step, inv[step.k])
  BY TypeParts DEF OperationsInv
<1>2. /\ Set(k, r) /\ step' = t
      /\ step.pc = "idle" \/ step.k = k
  BY <1>1 DEF RecoverAudit, Set, At, Goto, Return
<1>3. r \in Invocation
  BY <1>0 DEF Invocation
<1>4. t \in StepRecord
  BY <1>1, IdleStep DEF StepRecord, Steps, Evidence, NoEvidence, Terminal
<1>5. RestType'
  BY <1>1, OperationsAssumption DEF RecoverAudit, RestType, Steady
<1>6. KeyOK(r)
  BY <1>1 DEF RecoverAudit, At, KeyOK, OnApproval, Approved, StepOK, Preparing, Invocation,
     Terminal
<1>7. t.pc = "idle" \/ (t.k = k /\ StepOK(t, r))
  BY <1>1, <1>6, IdleStep DEF RecoverAudit, At, StepOK, KeyOK, Preparing, OnApproval, Approved,
     StepRecord, Invocation, Terminal
<1>8. OperationsInv'
  <2> HIDE DEF r, t
  <2> QED BY <1>2, <1>3, <1>4, <1>5, <1>6, <1>7, Combine
<1>9. ASSUME ChargesInv PROVE ChargesInv'
  <2>0. /\ Charges(inv[k]) /\ (~At(k, "refuse") => Waits(inv[k]))
        /\ (k \in active => Runs(inv[k], epoch))
        /\ (step.k = k => StepCharges(step, inv[k])) /\ (step.pc # "idle" => step.k \notin active)
    BY <1>1, <1>9 DEF ChargesInv
  <2>1. Charges(r)
    BY <1>1, <2>0 DEF RecoverAudit, At, Charges, Waits, Runs, Holds, StepCharges, KeyOK,
       StepOK, Preparing, Charged, Invocation, StepRecord, Terminal
  <2>2. t.pc # "refuse" => Waits(r)
    BY <1>1, <2>0 DEF RecoverAudit, At, Charges, Waits, Runs, Holds, StepCharges, KeyOK,
       StepOK, Preparing, Charged, Invocation, StepRecord, Evidence, Terminal
  <2>3. epoch' = epoch /\ \A j \in active' : IF j = k THEN Runs(r, epoch) ELSE j \in active
    BY <1>1, <2>0 DEF RecoverAudit, At, Charges, Waits, Runs, Holds, StepCharges, KeyOK,
       StepOK, Preparing, Charged, Invocation, StepRecord, Steady
  <2>4. t.pc = "idle" \/ (t.k = k /\ StepCharges(t, r) /\ k \notin active')
    BY <1>1, <2>0, IdleStep DEF RecoverAudit, At, Charges, Waits, Runs, Holds, StepCharges,
       KeyOK, StepOK, Preparing, Charged, Invocation, StepRecord, Evidence, Steady
  <2> HIDE DEF r, t
  <2> QED BY <1>2, <1>3, <1>4, <1>9, <2>1, <2>2, <2>3, <2>4, CombineCharges
<1> QED BY <1>8, <1>9

(* RecoverLedger keeps the invariant. *)
LEMMA RecoverLedgerOK ==
  ASSUME OperationsInv, NEW k \in Invocations, RecoverLedger(k)
  PROVE  OperationsInv' /\ (ChargesInv => ChargesInv')
<1> DEFINE r == [inv[k] EXCEPT !.ledger = "outcome_unknown", !.owner = 0]
           t == Idle
<1>0. /\ inv[k] \in Invocation /\ step.ev \in Evidence
      /\ 0 \in 0 .. MaxCrashes + 1 /\ epoch \in 0 .. MaxCrashes + 1 /\ now \in 0 .. Windows
  BY TypeParts, OperationsAssumption DEF OperationsInv, RestType, StepRecord
<1>1. /\ inv \in [Invocations -> Invocation] /\ inv[k] \in Invocation
      /\ step \in StepRecord /\ RestType /\ TypeOK /\ KeyOK(inv[k]) /\ StepOK(step, inv[step.k])
  BY TypeParts DEF OperationsInv
<1>2. /\ Set(k, r) /\ step' = t
      /\ step.pc = "idle" \/ step.k = k
  BY <1>1 DEF RecoverLedger, Set, At, Return
<1>3. r \in Invocation
  BY <1>0 DEF Invocation
<1>4. t \in StepRecord
  BY <1>1, IdleStep DEF StepRecord, Steps, Evidence, NoEvidence, Terminal
<1>5. RestType'
  BY <1>1, OperationsAssumption DEF RecoverLedger, RestType, Steady
<1>6. KeyOK(r)
  BY <1>1 DEF RecoverLedger, At, KeyOK, OnApproval, Approved, StepOK, Preparing, Invocation,
     Terminal
<1>7. t.pc = "idle" \/ (t.k = k /\ StepOK(t, r))
  BY <1>1, <1>6, IdleStep DEF RecoverLedger, At, StepOK, KeyOK, Preparing, OnApproval,
     Approved, StepRecord, Invocation, Terminal
<1>8. OperationsInv'
  <2> HIDE DEF r, t
  <2> QED BY <1>2, <1>3, <1>4, <1>5, <1>6, <1>7, Combine
<1>9. ASSUME ChargesInv PROVE ChargesInv'
  <2>0. /\ Charges(inv[k]) /\ (~At(k, "refuse") => Waits(inv[k]))
        /\ (k \in active => Runs(inv[k], epoch))
        /\ (step.k = k => StepCharges(step, inv[k])) /\ (step.pc # "idle" => step.k \notin active)
    BY <1>1, <1>9 DEF ChargesInv
  <2>1. Charges(r)
    BY <1>1, <2>0 DEF RecoverLedger, At, Charges, Waits, Runs, Holds, StepCharges, KeyOK,
       StepOK, Preparing, Charged, Invocation, StepRecord, Terminal
  <2>2. t.pc # "refuse" => Waits(r)
    BY <1>1, <2>0 DEF RecoverLedger, At, Charges, Waits, Runs, Holds, StepCharges, KeyOK,
       StepOK, Preparing, Charged, Invocation, StepRecord, Evidence, Terminal
  <2>3. epoch' = epoch /\ \A j \in active' : IF j = k THEN Runs(r, epoch) ELSE j \in active
    BY <1>1, <2>0 DEF RecoverLedger, At, Charges, Waits, Runs, Holds, StepCharges, KeyOK,
       StepOK, Preparing, Charged, Invocation, StepRecord, Steady
  <2>4. t.pc = "idle" \/ (t.k = k /\ StepCharges(t, r) /\ k \notin active')
    BY <1>1, <2>0, IdleStep DEF RecoverLedger, At, Charges, Waits, Runs, Holds, StepCharges,
       KeyOK, StepOK, Preparing, Charged, Invocation, StepRecord, Evidence, Steady
  <2> HIDE DEF r, t
  <2> QED BY <1>2, <1>3, <1>4, <1>9, <2>1, <2>2, <2>3, <2>4, CombineCharges
<1> QED BY <1>8, <1>9

(* CompleteRefusal keeps the invariant. *)
LEMMA CompleteRefusalOK ==
  ASSUME OperationsInv, NEW k \in Invocations, CompleteRefusal(k)
  PROVE  OperationsInv' /\ (ChargesInv => ChargesInv')
<1> DEFINE r == [inv[k] EXCEPT !.ledger = "refused", !.owner = 0]
           t == Idle
<1>0. /\ inv[k] \in Invocation /\ step.ev \in Evidence
      /\ 0 \in 0 .. MaxCrashes + 1 /\ epoch \in 0 .. MaxCrashes + 1 /\ now \in 0 .. Windows
  BY TypeParts, OperationsAssumption DEF OperationsInv, RestType, StepRecord
<1>1. /\ inv \in [Invocations -> Invocation] /\ inv[k] \in Invocation
      /\ step \in StepRecord /\ RestType /\ TypeOK /\ KeyOK(inv[k]) /\ StepOK(step, inv[step.k])
  BY TypeParts DEF OperationsInv
<1>2. /\ Set(k, r) /\ step' = t
      /\ step.pc = "idle" \/ step.k = k
  BY <1>1 DEF CompleteRefusal, Set, At, Return
<1>3. r \in Invocation
  BY <1>0 DEF Invocation, Terminal
<1>4. t \in StepRecord
  BY <1>1, IdleStep DEF StepRecord, Steps, Evidence, NoEvidence, Terminal
<1>5. RestType'
  BY <1>1, OperationsAssumption DEF CompleteRefusal, RestType, Steady
<1>6. KeyOK(r)
  BY <1>1 DEF CompleteRefusal, At, KeyOK, OnApproval, Approved, StepOK, Preparing, Invocation,
     Terminal
<1>7. t.pc = "idle" \/ (t.k = k /\ StepOK(t, r))
  BY <1>1, <1>6, IdleStep DEF CompleteRefusal, At, StepOK, KeyOK, Preparing, OnApproval,
     Approved, StepRecord, Invocation, Terminal
<1>8. OperationsInv'
  <2> HIDE DEF r, t
  <2> QED BY <1>2, <1>3, <1>4, <1>5, <1>6, <1>7, Combine
<1>9. ASSUME ChargesInv PROVE ChargesInv'
  <2>0. /\ Charges(inv[k]) /\ (~At(k, "refuse") => Waits(inv[k]))
        /\ (k \in active => Runs(inv[k], epoch))
        /\ (step.k = k => StepCharges(step, inv[k])) /\ (step.pc # "idle" => step.k \notin active)
    BY <1>1, <1>9 DEF ChargesInv
  <2>1. Charges(r)
    BY <1>1, <2>0 DEF CompleteRefusal, At, Charges, Waits, Runs, Holds, StepCharges, KeyOK,
       StepOK, Preparing, Charged, Invocation, StepRecord, Terminal
  <2>2. t.pc # "refuse" => Waits(r)
    BY <1>1, <2>0 DEF CompleteRefusal, At, Charges, Waits, Runs, Holds, StepCharges, KeyOK,
       StepOK, Preparing, Charged, Invocation, StepRecord, Evidence, Terminal
  <2>3. epoch' = epoch /\ \A j \in active' : IF j = k THEN Runs(r, epoch) ELSE j \in active
    BY <1>1, <2>0 DEF CompleteRefusal, At, Charges, Waits, Runs, Holds, StepCharges, KeyOK,
       StepOK, Preparing, Charged, Invocation, StepRecord, Steady
  <2>4. t.pc = "idle" \/ (t.k = k /\ StepCharges(t, r) /\ k \notin active')
    BY <1>1, <2>0, IdleStep DEF CompleteRefusal, At, Charges, Waits, Runs, Holds, StepCharges,
       KeyOK, StepOK, Preparing, Charged, Invocation, StepRecord, Evidence, Steady
  <2> HIDE DEF r, t
  <2> QED BY <1>2, <1>3, <1>4, <1>9, <2>1, <2>2, <2>3, <2>4, CombineCharges
<1> QED BY <1>8, <1>9

(* GovernanceThrows keeps the invariant. *)
LEMMA GovernanceThrowsOK ==
  ASSUME OperationsInv, NEW k \in Invocations, GovernanceThrows(k)
  PROVE  OperationsInv' /\ (ChargesInv => ChargesInv')
<1> DEFINE r == [inv[k] EXCEPT !.ledger = "refused", !.owner = 0]
           t == Idle
<1>0. /\ inv[k] \in Invocation /\ step.ev \in Evidence
      /\ 0 \in 0 .. MaxCrashes + 1 /\ epoch \in 0 .. MaxCrashes + 1 /\ now \in 0 .. Windows
  BY TypeParts, OperationsAssumption DEF OperationsInv, RestType, StepRecord
<1>1. /\ inv \in [Invocations -> Invocation] /\ inv[k] \in Invocation
      /\ step \in StepRecord /\ RestType /\ TypeOK /\ KeyOK(inv[k]) /\ StepOK(step, inv[step.k])
  BY TypeParts DEF OperationsInv
<1>2. /\ Set(k, r) /\ step' = t
      /\ step.pc = "idle" \/ step.k = k
  BY <1>1 DEF GovernanceThrows, Set, Return
<1>3. r \in Invocation
  BY <1>0 DEF Invocation, Terminal
<1>4. t \in StepRecord
  BY <1>1, IdleStep DEF StepRecord, Steps, Evidence, NoEvidence, Terminal
<1>5. RestType'
  BY <1>1, OperationsAssumption DEF GovernanceThrows, RestType
<1>6. KeyOK(r)
  BY <1>1 DEF GovernanceThrows, At, KeyOK, OnApproval, Approved, StepOK, Preparing, Invocation,
     Terminal
<1>7. t.pc = "idle" \/ (t.k = k /\ StepOK(t, r))
  BY <1>1, <1>6, IdleStep DEF GovernanceThrows, At, StepOK, KeyOK, Preparing, OnApproval,
     Approved, StepRecord, Invocation, Terminal
<1>8. OperationsInv'
  <2> HIDE DEF r, t
  <2> QED BY <1>2, <1>3, <1>4, <1>5, <1>6, <1>7, Combine
<1>9. ASSUME ChargesInv PROVE ChargesInv'
  <2>0. /\ Charges(inv[k]) /\ (~At(k, "refuse") => Waits(inv[k]))
        /\ (k \in active => Runs(inv[k], epoch))
        /\ (step.k = k => StepCharges(step, inv[k])) /\ (step.pc # "idle" => step.k \notin active)
    BY <1>1, <1>9 DEF ChargesInv
  <2>1. Charges(r)
    BY <1>1, <2>0 DEF GovernanceThrows, At, Charges, Waits, Runs, Holds, StepCharges, KeyOK,
       StepOK, Preparing, Charged, Invocation, StepRecord, Terminal
  <2>2. t.pc # "refuse" => Waits(r)
    BY <1>1, <2>0 DEF GovernanceThrows, At, Charges, Waits, Runs, Holds, StepCharges, KeyOK,
       StepOK, Preparing, Charged, Invocation, StepRecord, Evidence, Terminal
  <2>3. epoch' = epoch /\ \A j \in active' : IF j = k THEN Runs(r, epoch) ELSE j \in active
    BY <1>1, <2>0 DEF GovernanceThrows, At, Charges, Waits, Runs, Holds, StepCharges, KeyOK,
       StepOK, Preparing, Charged, Invocation, StepRecord, Steady
  <2>4. t.pc = "idle" \/ (t.k = k /\ StepCharges(t, r) /\ k \notin active')
    BY <1>1, <2>0, IdleStep DEF GovernanceThrows, At, Charges, Waits, Runs, Holds, StepCharges,
       KeyOK, StepOK, Preparing, Charged, Invocation, StepRecord, Evidence, Steady
  <2> HIDE DEF r, t
  <2> QED BY <1>2, <1>3, <1>4, <1>9, <2>1, <2>2, <2>3, <2>4, CombineCharges
<1> QED BY <1>8, <1>9

(* EvaluationFails keeps the invariant. *)
LEMMA EvaluationFailsOK ==
  ASSUME OperationsInv, NEW k \in Invocations, EvaluationFails(k)
  PROVE  OperationsInv' /\ (ChargesInv => ChargesInv')
<1> DEFINE r == Refused(inv[k], step.ev)
           t == [step EXCEPT !.pc = "refuse"]
<1>0. /\ inv[k] \in Invocation /\ step.ev \in Evidence
      /\ 0 \in 0 .. MaxCrashes + 1 /\ epoch \in 0 .. MaxCrashes + 1 /\ now \in 0 .. Windows
  BY TypeParts, OperationsAssumption DEF OperationsInv, RestType, StepRecord
<1>1. /\ inv \in [Invocations -> Invocation] /\ inv[k] \in Invocation
      /\ step \in StepRecord /\ RestType /\ TypeOK /\ KeyOK(inv[k]) /\ StepOK(step, inv[step.k])
  BY TypeParts DEF OperationsInv
<1>2. /\ Set(k, r) /\ step' = t
      /\ step.pc = "idle" \/ step.k = k
  BY <1>1 DEF EvaluationFails, Set, At, Goto
<1>r. /\ r \in Invocation /\ SameWork(inv[k], r) /\ r.booked = inv[k].booked
      /\ inv[k].audit \in {"none", "open"} => r.audit = "refused"
  BY <1>0, RefusedEffect DEF Terminal
<1>3. r \in Invocation
  BY <1>r
<1>4. t \in StepRecord
  BY <1>1 DEF StepRecord, Steps, Evidence, NoEvidence, Terminal
<1>5. RestType'
  BY <1>1, OperationsAssumption DEF EvaluationFails, RestType, Steady
<1> HIDE DEF r
<1>6. KeyOK(r)
  BY <1>1, <1>r, SameWorkOK
<1>7. t.pc = "idle" \/ (t.k = k /\ StepOK(t, r))
  BY <1>1, <1>6, <1>r DEF EvaluationFails, At, StepOK, KeyOK, Preparing, OnApproval, Approved,
     StepRecord, Invocation, SameWork, Terminal
<1>8. OperationsInv'
  <2> HIDE DEF r, t
  <2> QED BY <1>2, <1>3, <1>4, <1>5, <1>6, <1>7, Combine
<1>9. ASSUME ChargesInv PROVE ChargesInv'
  <2>0. /\ Charges(inv[k]) /\ (~At(k, "refuse") => Waits(inv[k]))
        /\ (k \in active => Runs(inv[k], epoch))
        /\ (step.k = k => StepCharges(step, inv[k])) /\ (step.pc # "idle" => step.k \notin active)
    BY <1>1, <1>9 DEF ChargesInv
  <2>1. Charges(r)
    BY <1>1, <2>0, <1>r DEF EvaluationFails, At, Charges, Waits, Runs, Holds, StepCharges,
       KeyOK, StepOK, Preparing, Charged, SameWork, Invocation, StepRecord, Terminal
  <2>2. t.pc # "refuse" => Waits(r)
    BY <1>1, <2>0, <1>r DEF EvaluationFails, At, Charges, Waits, Runs, Holds, StepCharges,
       KeyOK, StepOK, Preparing, Charged, SameWork, Invocation, StepRecord, Evidence, Terminal
  <2>3. epoch' = epoch /\ \A j \in active' : IF j = k THEN Runs(r, epoch) ELSE j \in active
    BY <1>1, <2>0, <1>r DEF EvaluationFails, At, Charges, Waits, Runs, Holds, StepCharges,
       KeyOK, StepOK, Preparing, Charged, SameWork, Invocation, StepRecord, Steady
  <2>4. t.pc = "idle" \/ (t.k = k /\ StepCharges(t, r) /\ k \notin active')
    BY <1>1, <2>0, <1>r DEF EvaluationFails, At, Charges, Waits, Runs, Holds, StepCharges,
       KeyOK, StepOK, Preparing, Charged, SameWork, Invocation, StepRecord, Evidence, Steady
  <2> HIDE DEF r, t
  <2> QED BY <1>2, <1>3, <1>4, <1>9, <2>1, <2>2, <2>3, <2>4, CombineCharges
<1> QED BY <1>8, <1>9

(* Evaluate keeps the invariant. *)
LEMMA EvaluateOK ==
  ASSUME OperationsInv,
         NEW k \in Invocations, NEW d \in Decisions, NEW l \in BOOLEAN, Evaluate(k, d, l)
  PROVE  OperationsInv' /\ (ChargesInv => ChargesInv')
<1> DEFINE r == IF inv[k].policy = "none"
                THEN [inv[k] EXCEPT !.policy = d, !.limited = l]
                ELSE inv[k]
           t == [step EXCEPT !.pc = "evaluated"]
<1>0. /\ inv[k] \in Invocation /\ step.ev \in Evidence
      /\ 0 \in 0 .. MaxCrashes + 1 /\ epoch \in 0 .. MaxCrashes + 1 /\ now \in 0 .. Windows
  BY TypeParts, OperationsAssumption DEF OperationsInv, RestType, StepRecord
<1>1. /\ inv \in [Invocations -> Invocation] /\ inv[k] \in Invocation
      /\ step \in StepRecord /\ RestType /\ TypeOK /\ KeyOK(inv[k]) /\ StepOK(step, inv[step.k])
  BY TypeParts DEF OperationsInv
<1>2. /\ Set(k, r) /\ step' = t
      /\ step.pc = "idle" \/ step.k = k
  BY <1>1 DEF Evaluate, Set, At, Goto
<1>3. r \in Invocation
  <2>1. d \in {"none", "allow", "require_approval", "deny"} BY OperationsAssumption
  <2>2. [inv[k] EXCEPT !.policy = d, !.limited = l] \in Invocation BY <1>0, <2>1 DEF Invocation
  <2> QED BY <1>0, <2>2
<1>4. t \in StepRecord
  BY <1>1 DEF StepRecord, Steps, Evidence, NoEvidence, Terminal
<1>5. RestType'
  BY <1>1, OperationsAssumption DEF Evaluate, RestType, Steady
<1>6. KeyOK(r)
  BY <1>1 DEF Evaluate, At, KeyOK, OnApproval, Approved, StepOK, Preparing, Invocation, Terminal
<1>7. t.pc = "idle" \/ (t.k = k /\ StepOK(t, r))
  BY <1>1, <1>6 DEF Evaluate, At, StepOK, KeyOK, Preparing, OnApproval, Approved, StepRecord,
     Invocation, Terminal
<1>8. OperationsInv'
  <2> HIDE DEF r, t
  <2> QED BY <1>2, <1>3, <1>4, <1>5, <1>6, <1>7, Combine
<1>9. ASSUME ChargesInv PROVE ChargesInv'
  <2>0. /\ Charges(inv[k]) /\ (~At(k, "refuse") => Waits(inv[k]))
        /\ (k \in active => Runs(inv[k], epoch))
        /\ (step.k = k => StepCharges(step, inv[k])) /\ (step.pc # "idle" => step.k \notin active)
    BY <1>1, <1>9 DEF ChargesInv
  <2>1. Charges(r)
    BY <1>1, <2>0 DEF Evaluate, At, Charges, Waits, Runs, Holds, StepCharges, KeyOK, StepOK,
       Preparing, Charged, Invocation, StepRecord, Terminal
  <2>2. t.pc # "refuse" => Waits(r)
    BY <1>1, <2>0 DEF Evaluate, At, Charges, Waits, Runs, Holds, StepCharges, KeyOK, StepOK,
       Preparing, Charged, Invocation, StepRecord, Evidence, Terminal
  <2>3. epoch' = epoch /\ \A j \in active' : IF j = k THEN Runs(r, epoch) ELSE j \in active
    BY <1>1, <2>0 DEF Evaluate, At, Charges, Waits, Runs, Holds, StepCharges, KeyOK, StepOK,
       Preparing, Charged, Invocation, StepRecord, Steady
  <2>4. t.pc = "idle" \/ (t.k = k /\ StepCharges(t, r) /\ k \notin active')
    BY <1>1, <2>0, OperationsAssumption DEF Evaluate, At, Charges, Waits, Runs, Holds,
       StepCharges, KeyOK, StepOK, Preparing, Charged, Invocation, StepRecord, Evidence, Steady
  <2> HIDE DEF r, t
  <2> QED BY <1>2, <1>3, <1>4, <1>9, <2>1, <2>2, <2>3, <2>4, CombineCharges
<1> QED BY <1>8, <1>9

(* RefuseBeforeEffects keeps the invariant. *)
LEMMA RefuseBeforeEffectsOK ==
  ASSUME OperationsInv, NEW k \in Invocations, RefuseBeforeEffects(k)
  PROVE  OperationsInv' /\ (ChargesInv => ChargesInv')
<1> DEFINE r == Audited(inv[k], "refused")
           t == [step EXCEPT !.pc = "refuse", !.ev = NoEvidence]
<1>0. /\ inv[k] \in Invocation /\ step.ev \in Evidence
      /\ 0 \in 0 .. MaxCrashes + 1 /\ epoch \in 0 .. MaxCrashes + 1 /\ now \in 0 .. Windows
  BY TypeParts, OperationsAssumption DEF OperationsInv, RestType, StepRecord
<1>1. /\ inv \in [Invocations -> Invocation] /\ inv[k] \in Invocation
      /\ step \in StepRecord /\ RestType /\ TypeOK /\ KeyOK(inv[k]) /\ StepOK(step, inv[step.k])
  BY TypeParts DEF OperationsInv
<1>2. /\ Set(k, r) /\ step' = t
      /\ step.pc = "idle" \/ step.k = k
  BY <1>1 DEF RefuseBeforeEffects, Set, At
<1>r. /\ r \in Invocation /\ SameWork(inv[k], r) /\ r.booked = inv[k].booked
      /\ inv[k].audit \in {"none", "open"} => r.audit = "refused"
  BY <1>0, AuditedEffect DEF Terminal
<1>3. r \in Invocation
  BY <1>r
<1>4. t \in StepRecord
  BY <1>1 DEF StepRecord, Steps, Evidence, NoEvidence, Terminal
<1>5. RestType'
  BY <1>1, OperationsAssumption DEF RefuseBeforeEffects, RestType, Steady
<1> HIDE DEF r
<1>6. KeyOK(r)
  BY <1>1, <1>r, SameWorkOK
<1>7. t.pc = "idle" \/ (t.k = k /\ StepOK(t, r))
  BY <1>1, <1>6, <1>r DEF RefuseBeforeEffects, At, StepOK, KeyOK, Preparing, OnApproval,
     Approved, StepRecord, Invocation, SameWork, Terminal
<1>8. OperationsInv'
  <2> HIDE DEF r, t
  <2> QED BY <1>2, <1>3, <1>4, <1>5, <1>6, <1>7, Combine
<1>9. ASSUME ChargesInv PROVE ChargesInv'
  <2>0. /\ Charges(inv[k]) /\ (~At(k, "refuse") => Waits(inv[k]))
        /\ (k \in active => Runs(inv[k], epoch))
        /\ (step.k = k => StepCharges(step, inv[k])) /\ (step.pc # "idle" => step.k \notin active)
    BY <1>1, <1>9 DEF ChargesInv
  <2>1. Charges(r)
    BY <1>1, <2>0, <1>r DEF RefuseBeforeEffects, At, Charges, Waits, Runs, Holds, StepCharges,
       KeyOK, StepOK, Preparing, Charged, SameWork, Invocation, StepRecord, Terminal
  <2>2. t.pc # "refuse" => Waits(r)
    BY <1>1, <2>0, <1>r DEF RefuseBeforeEffects, At, Charges, Waits, Runs, Holds, StepCharges,
       KeyOK, StepOK, Preparing, Charged, SameWork, Invocation, StepRecord, Evidence, Terminal
  <2>3. epoch' = epoch /\ \A j \in active' : IF j = k THEN Runs(r, epoch) ELSE j \in active
    BY <1>1, <2>0, <1>r DEF RefuseBeforeEffects, At, Charges, Waits, Runs, Holds, StepCharges,
       KeyOK, StepOK, Preparing, Charged, SameWork, Invocation, StepRecord, Steady
  <2>4. t.pc = "idle" \/ (t.k = k /\ StepCharges(t, r) /\ k \notin active')
    BY <1>1, <2>0, <1>r DEF RefuseBeforeEffects, At, Charges, Waits, Runs, Holds, StepCharges,
       KeyOK, StepOK, Preparing, Charged, SameWork, Invocation, StepRecord, Evidence, Steady
  <2> HIDE DEF r, t
  <2> QED BY <1>2, <1>3, <1>4, <1>9, <2>1, <2>2, <2>3, <2>4, CombineCharges
<1> QED BY <1>8, <1>9

(* Reserve keeps the invariant. *)
LEMMA ReserveOK ==
  ASSUME OperationsInv, NEW k \in Invocations, Reserve(k)
  PROVE  OperationsInv' /\ (ChargesInv => ChargesInv')
<1> DEFINE r == IF inv[k].limited /\ ~step.ev.resv
                THEN [inv[k] EXCEPT !.resv = "reserved", !.window = now]
                ELSE inv[k]
           t == IF inv[k].limited /\ ~step.ev.resv
                THEN [step EXCEPT !.pc = "approve", !.ev.resv = TRUE]
                ELSE [step EXCEPT !.pc = "approve"]
<1>0. /\ inv[k] \in Invocation /\ step.ev \in Evidence
      /\ 0 \in 0 .. MaxCrashes + 1 /\ epoch \in 0 .. MaxCrashes + 1 /\ now \in 0 .. Windows
  BY TypeParts, OperationsAssumption DEF OperationsInv, RestType, StepRecord
<1>1. /\ inv \in [Invocations -> Invocation] /\ inv[k] \in Invocation
      /\ step \in StepRecord /\ RestType /\ TypeOK /\ KeyOK(inv[k]) /\ StepOK(step, inv[step.k])
  BY TypeParts DEF OperationsInv
<1>2. /\ Set(k, r) /\ step' = t
      /\ step.pc = "idle" \/ step.k = k
  BY <1>1 DEF Reserve, Set, At, Goto
<1>3. r \in Invocation
  <2>1. [inv[k] EXCEPT !.resv = "reserved", !.window = now] \in Invocation
    BY <1>0 DEF Invocation, Charged
  <2> QED BY <1>0, <2>1
<1>4. t \in StepRecord
  BY <1>1 DEF StepRecord, Steps, Evidence, NoEvidence, Terminal
<1>5. RestType'
  BY <1>1, OperationsAssumption DEF Reserve, RestType, Steady
<1>6. KeyOK(r)
  BY <1>1 DEF Reserve, At, KeyOK, OnApproval, Approved, StepOK, Preparing, Invocation, Terminal
<1>7. t.pc = "idle" \/ (t.k = k /\ StepOK(t, r))
  BY <1>1, <1>6 DEF Reserve, At, StepOK, KeyOK, Preparing, OnApproval, Approved, StepRecord,
     Invocation, Terminal
<1>8. OperationsInv'
  <2> HIDE DEF r, t
  <2> QED BY <1>2, <1>3, <1>4, <1>5, <1>6, <1>7, Combine
<1>9. ASSUME ChargesInv PROVE ChargesInv'
  <2>0. /\ Charges(inv[k]) /\ (~At(k, "refuse") => Waits(inv[k]))
        /\ (k \in active => Runs(inv[k], epoch))
        /\ (step.k = k => StepCharges(step, inv[k])) /\ (step.pc # "idle" => step.k \notin active)
    BY <1>1, <1>9 DEF ChargesInv
  <2>1. Charges(r)
    BY <1>1, <2>0 DEF Reserve, At, Charges, Waits, Runs, Holds, StepCharges, KeyOK, StepOK,
       Preparing, Charged, Invocation, StepRecord, Terminal
  <2>2. t.pc # "refuse" => Waits(r)
    BY <1>1, <2>0 DEF Reserve, At, Charges, Waits, Runs, Holds, StepCharges, KeyOK, StepOK,
       Preparing, Charged, Invocation, StepRecord, Evidence, Terminal
  <2>3. epoch' = epoch /\ \A j \in active' : IF j = k THEN Runs(r, epoch) ELSE j \in active
    BY <1>1, <2>0 DEF Reserve, At, Charges, Waits, Runs, Holds, StepCharges, KeyOK, StepOK,
       Preparing, Charged, Invocation, StepRecord, Steady
  <2>4. t.pc = "idle" \/ (t.k = k /\ StepCharges(t, r) /\ k \notin active')
    BY <1>1, <2>0 DEF Reserve, At, Charges, Waits, Runs, Holds, StepCharges, KeyOK, StepOK,
       Preparing, Charged, Invocation, StepRecord, Evidence, Steady
  <2> HIDE DEF r, t
  <2> QED BY <1>2, <1>3, <1>4, <1>9, <2>1, <2>2, <2>3, <2>4, CombineCharges
<1> QED BY <1>8, <1>9

(* BudgetExceeded keeps the invariant. *)
LEMMA BudgetExceededOK ==
  ASSUME OperationsInv, NEW k \in Invocations, BudgetExceeded(k)
  PROVE  OperationsInv' /\ (ChargesInv => ChargesInv')
<1> DEFINE r == Audited(inv[k], "refused")
           t == [step EXCEPT !.pc = "refuse", !.ev = NoEvidence]
<1>0. /\ inv[k] \in Invocation /\ step.ev \in Evidence
      /\ 0 \in 0 .. MaxCrashes + 1 /\ epoch \in 0 .. MaxCrashes + 1 /\ now \in 0 .. Windows
  BY TypeParts, OperationsAssumption DEF OperationsInv, RestType, StepRecord
<1>1. /\ inv \in [Invocations -> Invocation] /\ inv[k] \in Invocation
      /\ step \in StepRecord /\ RestType /\ TypeOK /\ KeyOK(inv[k]) /\ StepOK(step, inv[step.k])
  BY TypeParts DEF OperationsInv
<1>2. /\ Set(k, r) /\ step' = t
      /\ step.pc = "idle" \/ step.k = k
  BY <1>1 DEF BudgetExceeded, Set, At
<1>r. /\ r \in Invocation /\ SameWork(inv[k], r) /\ r.booked = inv[k].booked
      /\ inv[k].audit \in {"none", "open"} => r.audit = "refused"
  BY <1>0, AuditedEffect DEF Terminal
<1>3. r \in Invocation
  BY <1>r
<1>4. t \in StepRecord
  BY <1>1 DEF StepRecord, Steps, Evidence, NoEvidence, Terminal
<1>5. RestType'
  BY <1>1, OperationsAssumption DEF BudgetExceeded, RestType, Steady
<1> HIDE DEF r
<1>6. KeyOK(r)
  BY <1>1, <1>r, SameWorkOK
<1>7. t.pc = "idle" \/ (t.k = k /\ StepOK(t, r))
  BY <1>1, <1>6, <1>r DEF BudgetExceeded, At, StepOK, KeyOK, Preparing, OnApproval, Approved,
     StepRecord, Invocation, SameWork, Terminal
<1>8. OperationsInv'
  <2> HIDE DEF r, t
  <2> QED BY <1>2, <1>3, <1>4, <1>5, <1>6, <1>7, Combine
<1>9. ASSUME ChargesInv PROVE ChargesInv'
  <2>0. /\ Charges(inv[k]) /\ (~At(k, "refuse") => Waits(inv[k]))
        /\ (k \in active => Runs(inv[k], epoch))
        /\ (step.k = k => StepCharges(step, inv[k])) /\ (step.pc # "idle" => step.k \notin active)
    BY <1>1, <1>9 DEF ChargesInv
  <2>1. Charges(r)
    BY <1>1, <2>0, <1>r DEF BudgetExceeded, At, Charges, Waits, Runs, Holds, StepCharges,
       KeyOK, StepOK, Preparing, Charged, SameWork, Invocation, StepRecord, Terminal
  <2>2. t.pc # "refuse" => Waits(r)
    BY <1>1, <2>0, <1>r DEF BudgetExceeded, At, Charges, Waits, Runs, Holds, StepCharges,
       KeyOK, StepOK, Preparing, Charged, SameWork, Invocation, StepRecord, Evidence, Terminal
  <2>3. epoch' = epoch /\ \A j \in active' : IF j = k THEN Runs(r, epoch) ELSE j \in active
    BY <1>1, <2>0, <1>r DEF BudgetExceeded, At, Charges, Waits, Runs, Holds, StepCharges,
       KeyOK, StepOK, Preparing, Charged, SameWork, Invocation, StepRecord, Steady
  <2>4. t.pc = "idle" \/ (t.k = k /\ StepCharges(t, r) /\ k \notin active')
    BY <1>1, <2>0, <1>r DEF BudgetExceeded, At, Charges, Waits, Runs, Holds, StepCharges,
       KeyOK, StepOK, Preparing, Charged, SameWork, Invocation, StepRecord, Evidence, Steady
  <2> HIDE DEF r, t
  <2> QED BY <1>2, <1>3, <1>4, <1>9, <2>1, <2>2, <2>3, <2>4, CombineCharges
<1> QED BY <1>8, <1>9

(* Allow keeps the invariant. *)
LEMMA AllowOK ==
  ASSUME OperationsInv, NEW k \in Invocations, Allow(k)
  PROVE  OperationsInv' /\ (ChargesInv => ChargesInv')
<1> DEFINE r == BeginAudit(inv[k])
           t == [step EXCEPT !.pc = "authorize"]
<1>0. /\ inv[k] \in Invocation /\ step.ev \in Evidence
      /\ 0 \in 0 .. MaxCrashes + 1 /\ epoch \in 0 .. MaxCrashes + 1 /\ now \in 0 .. Windows
  BY TypeParts, OperationsAssumption DEF OperationsInv, RestType, StepRecord
<1>1. /\ inv \in [Invocations -> Invocation] /\ inv[k] \in Invocation
      /\ step \in StepRecord /\ RestType /\ TypeOK /\ KeyOK(inv[k]) /\ StepOK(step, inv[step.k])
  BY TypeParts DEF OperationsInv
<1>2. /\ Set(k, r) /\ step' = t
      /\ step.pc = "idle" \/ step.k = k
  BY <1>1 DEF Allow, Set, At, Goto
<1>r. /\ r \in Invocation /\ SameWork(inv[k], r) /\ r.booked = inv[k].booked
      /\ r.resv = inv[k].resv
      /\ r.audit = IF inv[k].audit = "none" THEN "open" ELSE inv[k].audit
  BY <1>0, BeginAuditEffect DEF Terminal
<1>3. r \in Invocation
  BY <1>r
<1>4. t \in StepRecord
  BY <1>1 DEF StepRecord, Steps, Evidence, NoEvidence, Terminal
<1>5. RestType'
  BY <1>1, OperationsAssumption DEF Allow, RestType, Steady
<1> HIDE DEF r
<1>6. KeyOK(r)
  BY <1>1, <1>r, SameWorkOK
<1>7. t.pc = "idle" \/ (t.k = k /\ StepOK(t, r))
  BY <1>1, <1>6, <1>r DEF Allow, At, StepOK, KeyOK, Preparing, OnApproval, Approved,
     StepRecord, Invocation, SameWork, Terminal
<1>8. OperationsInv'
  <2> HIDE DEF r, t
  <2> QED BY <1>2, <1>3, <1>4, <1>5, <1>6, <1>7, Combine
<1>9. ASSUME ChargesInv PROVE ChargesInv'
  <2>0. /\ Charges(inv[k]) /\ (~At(k, "refuse") => Waits(inv[k]))
        /\ (k \in active => Runs(inv[k], epoch))
        /\ (step.k = k => StepCharges(step, inv[k])) /\ (step.pc # "idle" => step.k \notin active)
    BY <1>1, <1>9 DEF ChargesInv
  <2>1. Charges(r)
    BY <1>1, <2>0, <1>r DEF Allow, At, Charges, Waits, Runs, Holds, StepCharges, KeyOK, StepOK,
       Preparing, Charged, SameWork, Invocation, StepRecord, Terminal
  <2>2. t.pc # "refuse" => Waits(r)
    BY <1>1, <2>0, <1>r DEF Allow, At, Charges, Waits, Runs, Holds, StepCharges, KeyOK, StepOK,
       Preparing, Charged, SameWork, Invocation, StepRecord, Evidence, Terminal
  <2>3. epoch' = epoch /\ \A j \in active' : IF j = k THEN Runs(r, epoch) ELSE j \in active
    BY <1>1, <2>0, <1>r DEF Allow, At, Charges, Waits, Runs, Holds, StepCharges, KeyOK, StepOK,
       Preparing, Charged, SameWork, Invocation, StepRecord, Steady
  <2>4. t.pc = "idle" \/ (t.k = k /\ StepCharges(t, r) /\ k \notin active')
    BY <1>1, <2>0, <1>r DEF Allow, At, Charges, Waits, Runs, Holds, StepCharges, KeyOK, StepOK,
       Preparing, Charged, SameWork, Invocation, StepRecord, Evidence, Steady
  <2> HIDE DEF r, t
  <2> QED BY <1>2, <1>3, <1>4, <1>9, <2>1, <2>2, <2>3, <2>4, CombineCharges
<1> QED BY <1>8, <1>9

(* RequestsFail keeps the invariant. *)
LEMMA RequestsFailOK ==
  ASSUME OperationsInv, NEW k \in Invocations, RequestsFail(k)
  PROVE  OperationsInv' /\ (ChargesInv => ChargesInv')
<1> DEFINE r == Refused(inv[k], step.ev)
           t == [step EXCEPT !.pc = "refuse", !.ev.reqs = FALSE]
<1>0. /\ inv[k] \in Invocation /\ step.ev \in Evidence
      /\ 0 \in 0 .. MaxCrashes + 1 /\ epoch \in 0 .. MaxCrashes + 1 /\ now \in 0 .. Windows
  BY TypeParts, OperationsAssumption DEF OperationsInv, RestType, StepRecord
<1>1. /\ inv \in [Invocations -> Invocation] /\ inv[k] \in Invocation
      /\ step \in StepRecord /\ RestType /\ TypeOK /\ KeyOK(inv[k]) /\ StepOK(step, inv[step.k])
  BY TypeParts DEF OperationsInv
<1>2. /\ Set(k, r) /\ step' = t
      /\ step.pc = "idle" \/ step.k = k
  BY <1>1 DEF RequestsFail, Set, At
<1>r. /\ r \in Invocation /\ SameWork(inv[k], r) /\ r.booked = inv[k].booked
      /\ inv[k].audit \in {"none", "open"} => r.audit = "refused"
  BY <1>0, RefusedEffect DEF Terminal
<1>3. r \in Invocation
  BY <1>r
<1>4. t \in StepRecord
  BY <1>1 DEF StepRecord, Steps, Evidence, NoEvidence, Terminal
<1>5. RestType'
  BY <1>1, OperationsAssumption DEF RequestsFail, RestType, Steady
<1> HIDE DEF r
<1>6. KeyOK(r)
  BY <1>1, <1>r, SameWorkOK
<1>7. t.pc = "idle" \/ (t.k = k /\ StepOK(t, r))
  BY <1>1, <1>6, <1>r DEF RequestsFail, At, StepOK, KeyOK, Preparing, OnApproval, Approved,
     StepRecord, Invocation, SameWork, Terminal
<1>8. OperationsInv'
  <2> HIDE DEF r, t
  <2> QED BY <1>2, <1>3, <1>4, <1>5, <1>6, <1>7, Combine
<1>9. ASSUME ChargesInv PROVE ChargesInv'
  <2>0. /\ Charges(inv[k]) /\ (~At(k, "refuse") => Waits(inv[k]))
        /\ (k \in active => Runs(inv[k], epoch))
        /\ (step.k = k => StepCharges(step, inv[k])) /\ (step.pc # "idle" => step.k \notin active)
    BY <1>1, <1>9 DEF ChargesInv
  <2>1. Charges(r)
    BY <1>1, <2>0, <1>r DEF RequestsFail, At, Charges, Waits, Runs, Holds, StepCharges, KeyOK,
       StepOK, Preparing, Charged, SameWork, Invocation, StepRecord, Terminal
  <2>2. t.pc # "refuse" => Waits(r)
    BY <1>1, <2>0, <1>r DEF RequestsFail, At, Charges, Waits, Runs, Holds, StepCharges, KeyOK,
       StepOK, Preparing, Charged, SameWork, Invocation, StepRecord, Evidence, Terminal
  <2>3. epoch' = epoch /\ \A j \in active' : IF j = k THEN Runs(r, epoch) ELSE j \in active
    BY <1>1, <2>0, <1>r DEF RequestsFail, At, Charges, Waits, Runs, Holds, StepCharges, KeyOK,
       StepOK, Preparing, Charged, SameWork, Invocation, StepRecord, Steady
  <2>4. t.pc = "idle" \/ (t.k = k /\ StepCharges(t, r) /\ k \notin active')
    BY <1>1, <2>0, <1>r DEF RequestsFail, At, Charges, Waits, Runs, Holds, StepCharges, KeyOK,
       StepOK, Preparing, Charged, SameWork, Invocation, StepRecord, Evidence, Steady
  <2> HIDE DEF r, t
  <2> QED BY <1>2, <1>3, <1>4, <1>9, <2>1, <2>2, <2>3, <2>4, CombineCharges
<1> QED BY <1>8, <1>9

(* RequestApprovals keeps the invariant. *)
LEMMA RequestApprovalsOK ==
  ASSUME OperationsInv,
         NEW k \in Invocations, NEW S \in SUBSET Requirements, RequestApprovals(k, S)
  PROVE  OperationsInv' /\ (ChargesInv => ChargesInv')
<1> DEFINE r == [BeginAudit(inv[k]) EXCEPT !.req = [q \in Requirements |-> IF q \in S
                THEN "closed" ELSE (IF step.ev.reqs
                THEN inv[k].req
                ELSE [p \in Requirements |-> "pending"])[q]]]
           t == [step EXCEPT !.pc = "decide", !.ev.reqs = TRUE]
<1>0. /\ inv[k] \in Invocation /\ step.ev \in Evidence
      /\ 0 \in 0 .. MaxCrashes + 1 /\ epoch \in 0 .. MaxCrashes + 1 /\ now \in 0 .. Windows
  BY TypeParts, OperationsAssumption DEF OperationsInv, RestType, StepRecord
<1>1. /\ inv \in [Invocations -> Invocation] /\ inv[k] \in Invocation
      /\ step \in StepRecord /\ RestType /\ TypeOK /\ KeyOK(inv[k]) /\ StepOK(step, inv[step.k])
  BY TypeParts DEF OperationsInv
<1>2. /\ Set(k, r) /\ step' = t
      /\ step.pc = "idle" \/ step.k = k
  BY <1>1 DEF RequestApprovals, Set, At
<1> DEFINE b == BeginAudit(inv[k])
<1>b. /\ b \in Invocation /\ SameWork(inv[k], b) /\ b.resv = inv[k].resv /\ b.booked = inv[k].booked
      /\ b.audit = IF inv[k].audit = "none" THEN "open" ELSE inv[k].audit
  BY <1>1, BeginAuditEffect
<1>r. /\ r \in Invocation /\ r.resv = b.resv /\ r.booked = b.booked /\ r.audit = b.audit
      /\ r.ledger = b.ledger /\ r.entered = b.entered /\ r.did = b.did /\ r.used = b.used
      /\ r.limited = b.limited /\ r.cleared = b.cleared /\ r.ev = b.ev /\ r.owner = b.owner
      /\ r.policy = b.policy
  <2> DEFINE f == [q \in Requirements |-> IF q \in S THEN "closed"
                     ELSE (IF step.ev.reqs THEN inv[k].req ELSE [p \in Requirements |-> "pending"])[q]]
  <2>1. f \in [Requirements -> {"none", "pending", "approved", "closed"}]
    BY <1>1 DEF Invocation
  <2>2. \A g \in [Requirements -> {"none", "pending", "approved", "closed"}] :
          LET s == [b EXCEPT !.req = g]
          IN  /\ s \in Invocation /\ s.resv = b.resv /\ s.booked = b.booked /\ s.audit = b.audit
              /\ s.ledger = b.ledger /\ s.entered = b.entered /\ s.did = b.did /\ s.used = b.used
              /\ s.limited = b.limited /\ s.cleared = b.cleared /\ s.ev = b.ev /\ s.owner = b.owner
              /\ s.policy = b.policy
    <3> HIDE DEF b
    <3> QED BY <1>b DEF Invocation
  <2> QED BY <2>1, <2>2
<1>3. r \in Invocation
  BY <1>r
<1>4. t \in StepRecord
  BY <1>1 DEF StepRecord, Steps, Evidence, NoEvidence, Terminal
<1>5. RestType'
  BY <1>1, OperationsAssumption DEF RequestApprovals, RestType, Steady
<1> HIDE DEF b
<1>s. /\ r.ledger = inv[k].ledger /\ r.entered = inv[k].entered /\ r.did = inv[k].did
      /\ r.used = inv[k].used /\ r.limited = inv[k].limited /\ r.cleared = inv[k].cleared
      /\ r.ev = inv[k].ev /\ r.owner = inv[k].owner /\ r.policy = inv[k].policy
      /\ r.resv = inv[k].resv /\ r.booked = inv[k].booked
      /\ r.audit = IF inv[k].audit = "none" THEN "open" ELSE inv[k].audit
  BY <1>r, <1>b DEF SameWork
<1>t. /\ t.pc = "decide" /\ t.k = step.k /\ t.out = step.out
      /\ t.ev.resv = step.ev.resv /\ step.pc = "approve" /\ step.k = k
      /\ inv[k].entered = 0 /\ inv[k].ledger # "none" /\ inv[k].policy = "require_approval"
  BY <1>1 DEF RequestApprovals, At, StepRecord, Evidence, StepOK, Preparing
<1>u. active' = active /\ epoch' = epoch
  BY DEF RequestApprovals, Steady
<1> HIDE DEF r, t
<1>6. KeyOK(r)
  BY <1>1, <1>s, <1>t DEF KeyOK
<1>7. t.pc = "idle" \/ (t.k = k /\ StepOK(t, r))
  BY <1>s, <1>t DEF StepOK, Preparing
<1>8. OperationsInv'
  BY <1>2, <1>3, <1>4, <1>5, <1>6, <1>7, Combine
<1>9. ASSUME ChargesInv PROVE ChargesInv'
  <2>0. /\ Charges(inv[k]) /\ (~At(k, "refuse") => Waits(inv[k]))
        /\ StepCharges(step, inv[step.k]) /\ (step.pc # "idle" => step.k \notin active)
    BY <1>1, <1>9 DEF ChargesInv
  <2>a. Waits(inv[k]) /\ k \notin active
    BY <2>0, <1>t DEF At
  <2>b. /\ inv[k].audit \in {"none", "open"} /\ inv[k].booked = 0
        /\ Holds(inv[k], step.ev) /\ (inv[k].limited => step.ev.resv)
    BY <2>0, <1>t DEF StepCharges, Preparing
  <2>c. r.audit = "open" /\ r.booked = 0 /\ Holds(r, t.ev) /\ (r.limited => t.ev.resv)
    BY <2>b, <1>s, <1>t DEF Holds
  <2>1. Charges(r)
    <3>1. r.ledger # "completed"
      BY <2>0, <1>s, <1>t DEF Charges
    <3>2. r.did = "nothing"
      BY <2>0, <1>s, <1>t DEF Charges
    <3> QED BY <3>1, <3>2, <2>c DEF Charges
  <2>2. t.pc # "refuse" => Waits(r)
    <3>1. Holds(inv[k], inv[k].ev) \/ inv[k].ledger \notin {"none", "awaiting_approval"}
      BY <2>a DEF Waits
    <3>2. r.ledger = "awaiting_approval" => r.policy # "none" /\ (r.limited => r.ev.resv)
      BY <2>a, <1>s DEF Waits
    <3>3. Holds(r, r.ev) \/ r.ledger \notin {"none", "awaiting_approval"}
      BY <3>1, <1>s DEF Holds
    <3> QED BY <3>2, <3>3, <2>c DEF Waits
  <2>3. epoch' = epoch /\ \A j \in active' : IF j = k THEN Runs(r, epoch) ELSE j \in active
    BY <1>u, <2>a
  <2>4. t.pc = "idle" \/ (t.k = k /\ StepCharges(t, r) /\ k \notin active')
    <3>1. StepCharges(t, r)
      BY <1>s, <1>t, <2>c DEF StepCharges, Preparing
    <3> QED BY <3>1, <1>t, <1>u, <2>a
  <2> QED BY <1>2, <1>3, <1>4, <1>9, <2>1, <2>2, <2>3, <2>4, CombineCharges
<1> QED BY <1>8, <1>9

(* StillPending keeps the invariant. *)
LEMMA StillPendingOK ==
  ASSUME OperationsInv, NEW k \in Invocations, StillPending(k)
  PROVE  OperationsInv' /\ (ChargesInv => ChargesInv')
<1> DEFINE r == inv[k]
           t == [step EXCEPT !.pc = "await"]
<1>0. /\ inv[k] \in Invocation /\ step.ev \in Evidence
      /\ 0 \in 0 .. MaxCrashes + 1 /\ epoch \in 0 .. MaxCrashes + 1 /\ now \in 0 .. Windows
  BY TypeParts, OperationsAssumption DEF OperationsInv, RestType, StepRecord
<1>1. /\ inv \in [Invocations -> Invocation] /\ inv[k] \in Invocation
      /\ step \in StepRecord /\ RestType /\ TypeOK /\ KeyOK(inv[k]) /\ StepOK(step, inv[step.k])
  BY TypeParts DEF OperationsInv
<1>2. /\ Set(k, r) /\ step' = t
      /\ step.pc = "idle" \/ step.k = k
  BY <1>1 DEF StillPending, Set, At, Goto
<1>3. r \in Invocation
  BY <1>0 DEF Invocation
<1>4. t \in StepRecord
  BY <1>1 DEF StepRecord, Steps, Evidence, NoEvidence, Terminal
<1>5. RestType'
  BY <1>1, OperationsAssumption DEF StillPending, RestType, Steady
<1>6. KeyOK(r)
  BY <1>1 DEF StillPending, At, KeyOK, OnApproval, Approved, StepOK, Preparing, Invocation,
     Terminal
<1>7. t.pc = "idle" \/ (t.k = k /\ StepOK(t, r))
  BY <1>1, <1>6 DEF StillPending, At, StepOK, KeyOK, Preparing, OnApproval, Approved,
     StepRecord, Invocation, Terminal
<1>8. OperationsInv'
  <2> HIDE DEF r, t
  <2> QED BY <1>2, <1>3, <1>4, <1>5, <1>6, <1>7, Combine
<1>9. ASSUME ChargesInv PROVE ChargesInv'
  <2>0. /\ Charges(inv[k]) /\ (~At(k, "refuse") => Waits(inv[k]))
        /\ (k \in active => Runs(inv[k], epoch))
        /\ (step.k = k => StepCharges(step, inv[k])) /\ (step.pc # "idle" => step.k \notin active)
    BY <1>1, <1>9 DEF ChargesInv
  <2>1. Charges(r)
    BY <1>1, <2>0 DEF StillPending, At, Charges, Waits, Runs, Holds, StepCharges, KeyOK,
       StepOK, Preparing, Charged, Invocation, StepRecord, Terminal
  <2>2. t.pc # "refuse" => Waits(r)
    BY <1>1, <2>0 DEF StillPending, At, Charges, Waits, Runs, Holds, StepCharges, KeyOK,
       StepOK, Preparing, Charged, Invocation, StepRecord, Evidence, Terminal
  <2>3. epoch' = epoch /\ \A j \in active' : IF j = k THEN Runs(r, epoch) ELSE j \in active
    BY <1>1, <2>0 DEF StillPending, At, Charges, Waits, Runs, Holds, StepCharges, KeyOK,
       StepOK, Preparing, Charged, Invocation, StepRecord, Steady
  <2>4. t.pc = "idle" \/ (t.k = k /\ StepCharges(t, r) /\ k \notin active')
    BY <1>1, <2>0 DEF StillPending, At, Charges, Waits, Runs, Holds, StepCharges, KeyOK,
       StepOK, Preparing, Charged, Invocation, StepRecord, Evidence, Steady
  <2> HIDE DEF r, t
  <2> QED BY <1>2, <1>3, <1>4, <1>9, <2>1, <2>2, <2>3, <2>4, CombineCharges
<1> QED BY <1>8, <1>9

(* NotApproved keeps the invariant. *)
LEMMA NotApprovedOK ==
  ASSUME OperationsInv, NEW k \in Invocations, NotApproved(k)
  PROVE  OperationsInv' /\ (ChargesInv => ChargesInv')
<1> DEFINE r == Refused(inv[k], step.ev)
           t == [step EXCEPT !.pc = "refuse"]
<1>0. /\ inv[k] \in Invocation /\ step.ev \in Evidence
      /\ 0 \in 0 .. MaxCrashes + 1 /\ epoch \in 0 .. MaxCrashes + 1 /\ now \in 0 .. Windows
  BY TypeParts, OperationsAssumption DEF OperationsInv, RestType, StepRecord
<1>1. /\ inv \in [Invocations -> Invocation] /\ inv[k] \in Invocation
      /\ step \in StepRecord /\ RestType /\ TypeOK /\ KeyOK(inv[k]) /\ StepOK(step, inv[step.k])
  BY TypeParts DEF OperationsInv
<1>2. /\ Set(k, r) /\ step' = t
      /\ step.pc = "idle" \/ step.k = k
  BY <1>1 DEF NotApproved, Set, At, Goto
<1>r. /\ r \in Invocation /\ SameWork(inv[k], r) /\ r.booked = inv[k].booked
      /\ inv[k].audit \in {"none", "open"} => r.audit = "refused"
  BY <1>0, RefusedEffect DEF Terminal
<1>3. r \in Invocation
  BY <1>r
<1>4. t \in StepRecord
  BY <1>1 DEF StepRecord, Steps, Evidence, NoEvidence, Terminal
<1>5. RestType'
  BY <1>1, OperationsAssumption DEF NotApproved, RestType, Steady
<1> HIDE DEF r
<1>6. KeyOK(r)
  BY <1>1, <1>r, SameWorkOK
<1>7. t.pc = "idle" \/ (t.k = k /\ StepOK(t, r))
  BY <1>1, <1>6, <1>r DEF NotApproved, At, StepOK, KeyOK, Preparing, OnApproval, Approved,
     StepRecord, Invocation, SameWork, Terminal
<1>8. OperationsInv'
  <2> HIDE DEF r, t
  <2> QED BY <1>2, <1>3, <1>4, <1>5, <1>6, <1>7, Combine
<1>9. ASSUME ChargesInv PROVE ChargesInv'
  <2>0. /\ Charges(inv[k]) /\ (~At(k, "refuse") => Waits(inv[k]))
        /\ (k \in active => Runs(inv[k], epoch))
        /\ (step.k = k => StepCharges(step, inv[k])) /\ (step.pc # "idle" => step.k \notin active)
    BY <1>1, <1>9 DEF ChargesInv
  <2>1. Charges(r)
    BY <1>1, <2>0, <1>r DEF NotApproved, At, Charges, Waits, Runs, Holds, StepCharges, KeyOK,
       StepOK, Preparing, Charged, SameWork, Invocation, StepRecord, Terminal
  <2>2. t.pc # "refuse" => Waits(r)
    BY <1>1, <2>0, <1>r DEF NotApproved, At, Charges, Waits, Runs, Holds, StepCharges, KeyOK,
       StepOK, Preparing, Charged, SameWork, Invocation, StepRecord, Evidence, Terminal
  <2>3. epoch' = epoch /\ \A j \in active' : IF j = k THEN Runs(r, epoch) ELSE j \in active
    BY <1>1, <2>0, <1>r DEF NotApproved, At, Charges, Waits, Runs, Holds, StepCharges, KeyOK,
       StepOK, Preparing, Charged, SameWork, Invocation, StepRecord, Steady
  <2>4. t.pc = "idle" \/ (t.k = k /\ StepCharges(t, r) /\ k \notin active')
    BY <1>1, <2>0, <1>r DEF NotApproved, At, Charges, Waits, Runs, Holds, StepCharges, KeyOK,
       StepOK, Preparing, Charged, SameWork, Invocation, StepRecord, Evidence, Steady
  <2> HIDE DEF r, t
  <2> QED BY <1>2, <1>3, <1>4, <1>9, <2>1, <2>2, <2>3, <2>4, CombineCharges
<1> QED BY <1>8, <1>9

(* VerifyFails keeps the invariant. *)
LEMMA VerifyFailsOK ==
  ASSUME OperationsInv, NEW k \in Invocations, NEW S \in SUBSET Requirements, VerifyFails(k, S)
  PROVE  OperationsInv' /\ (ChargesInv => ChargesInv')
<1> DEFINE c == [inv[k] EXCEPT !.rcpt = [q \in Requirements |->
                                  IF q \in S THEN "revoked" ELSE inv[k].rcpt[q]]]
<1> DEFINE r == Refused(c, step.ev)
           t == [step EXCEPT !.pc = "refuse"]
<1>0. /\ inv[k] \in Invocation /\ step.ev \in Evidence
      /\ 0 \in 0 .. MaxCrashes + 1 /\ epoch \in 0 .. MaxCrashes + 1 /\ now \in 0 .. Windows
  BY TypeParts, OperationsAssumption DEF OperationsInv, RestType, StepRecord
<1>1. /\ inv \in [Invocations -> Invocation] /\ inv[k] \in Invocation
      /\ step \in StepRecord /\ RestType /\ TypeOK /\ KeyOK(inv[k]) /\ StepOK(step, inv[step.k])
  BY TypeParts DEF OperationsInv
<1>2. /\ Set(k, r) /\ step' = t
      /\ step.pc = "idle" \/ step.k = k
  BY <1>1 DEF VerifyFails, Set, At, Goto
<1>c. /\ c \in Invocation /\ KeyOK(c) /\ c.resv = inv[k].resv /\ c.booked = inv[k].booked
      /\ c.audit = inv[k].audit /\ c.ledger = inv[k].ledger /\ c.entered = inv[k].entered
      /\ c.did = inv[k].did
  <2> DEFINE f == [q \in Requirements |-> IF q \in S THEN "revoked" ELSE inv[k].rcpt[q]]
  <2>1. f \in [Requirements -> {"none", "issued", "revoked"}]
    BY <1>0 DEF Invocation
  <2>2. /\ c \in Invocation /\ c.resv = inv[k].resv /\ c.booked = inv[k].booked
        /\ c.audit = inv[k].audit /\ c.ledger = inv[k].ledger /\ c.entered = inv[k].entered
        /\ c.did = inv[k].did /\ c.used = inv[k].used /\ c.policy = inv[k].policy
        /\ c.req = inv[k].req
    <3> HIDE DEF f
    <3> QED BY <1>0, <2>1 DEF Invocation
  <2> QED BY <1>1, <2>2 DEF KeyOK, OnApproval, Approved
<1>r. /\ r \in Invocation /\ SameWork(c, r) /\ r.booked = c.booked
      /\ c.audit \in {"none", "open"} => r.audit = "refused"
  BY <1>0, <1>c, RefusedEffect
<1>3. r \in Invocation
  BY <1>r
<1>4. t \in StepRecord
  BY <1>1 DEF StepRecord, Steps, Evidence, NoEvidence, Terminal
<1>5. RestType'
  BY <1>1, OperationsAssumption DEF VerifyFails, RestType, Steady
<1> HIDE DEF r, c
<1>6. KeyOK(r)
  BY <1>c, <1>r, SameWorkOK
<1>7. t.pc = "idle" \/ (t.k = k /\ StepOK(t, r))
  BY <1>1, <1>6, <1>r, <1>c DEF VerifyFails, At, StepOK, KeyOK, Preparing, OnApproval,
     Approved, StepRecord, Invocation, SameWork, Terminal
<1>8. OperationsInv'
  <2> HIDE DEF r, t
  <2> QED BY <1>2, <1>3, <1>4, <1>5, <1>6, <1>7, Combine
<1>9. ASSUME ChargesInv PROVE ChargesInv'
  <2>0. /\ Charges(inv[k]) /\ (~At(k, "refuse") => Waits(inv[k]))
        /\ (k \in active => Runs(inv[k], epoch))
        /\ (step.k = k => StepCharges(step, inv[k])) /\ (step.pc # "idle" => step.k \notin active)
    BY <1>1, <1>9 DEF ChargesInv
  <2>1. Charges(r)
    BY <1>1, <2>0, <1>r, <1>c DEF VerifyFails, At, Charges, Waits, Runs, Holds, StepCharges,
       KeyOK, StepOK, Preparing, Charged, SameWork, Invocation, StepRecord, Terminal
  <2>2. t.pc # "refuse" => Waits(r)
    BY <1>1, <2>0, <1>r, <1>c DEF VerifyFails, At, Charges, Waits, Runs, Holds, StepCharges,
       KeyOK, StepOK, Preparing, Charged, SameWork, Invocation, StepRecord, Evidence, Terminal
  <2>3. epoch' = epoch /\ \A j \in active' : IF j = k THEN Runs(r, epoch) ELSE j \in active
    BY <1>1, <2>0, <1>r, <1>c DEF VerifyFails, At, Charges, Waits, Runs, Holds, StepCharges,
       KeyOK, StepOK, Preparing, Charged, SameWork, Invocation, StepRecord, Steady
  <2>4. t.pc = "idle" \/ (t.k = k /\ StepCharges(t, r) /\ k \notin active')
    BY <1>1, <2>0, <1>r, <1>c DEF VerifyFails, At, Charges, Waits, Runs, Holds, StepCharges,
       KeyOK, StepOK, Preparing, Charged, SameWork, Invocation, StepRecord, Evidence, Steady
  <2> HIDE DEF r, t
  <2> QED BY <1>2, <1>3, <1>4, <1>9, <2>1, <2>2, <2>3, <2>4, CombineCharges
<1> QED BY <1>8, <1>9

(* Consume keeps the invariant. *)
LEMMA ConsumeOK ==
  ASSUME OperationsInv, NEW k \in Invocations, Consume(k)
  PROVE  OperationsInv' /\ (ChargesInv => ChargesInv')
<1> DEFINE r == [inv[k] EXCEPT !.used = Requirements]
           t == [step EXCEPT !.pc = "authorize"]
<1>0. /\ inv[k] \in Invocation /\ step.ev \in Evidence
      /\ 0 \in 0 .. MaxCrashes + 1 /\ epoch \in 0 .. MaxCrashes + 1 /\ now \in 0 .. Windows
  BY TypeParts, OperationsAssumption DEF OperationsInv, RestType, StepRecord
<1>1. /\ inv \in [Invocations -> Invocation] /\ inv[k] \in Invocation
      /\ step \in StepRecord /\ RestType /\ TypeOK /\ KeyOK(inv[k]) /\ StepOK(step, inv[step.k])
  BY TypeParts DEF OperationsInv
<1>2. /\ Set(k, r) /\ step' = t
      /\ step.pc = "idle" \/ step.k = k
  BY <1>1 DEF Consume, Set, At, Goto
<1>3. r \in Invocation
  BY <1>0 DEF Invocation
<1>4. t \in StepRecord
  BY <1>1 DEF StepRecord, Steps, Evidence, NoEvidence, Terminal
<1>5. RestType'
  BY <1>1, OperationsAssumption DEF Consume, RestType, Steady
<1>6. KeyOK(r)
  BY <1>1 DEF Consume, At, KeyOK, OnApproval, Approved, StepOK, Preparing, Invocation, Terminal
<1>7. t.pc = "idle" \/ (t.k = k /\ StepOK(t, r))
  BY <1>1, <1>6 DEF Consume, At, StepOK, KeyOK, Preparing, OnApproval, Approved, StepRecord,
     Invocation, Terminal
<1>8. OperationsInv'
  <2> HIDE DEF r, t
  <2> QED BY <1>2, <1>3, <1>4, <1>5, <1>6, <1>7, Combine
<1>9. ASSUME ChargesInv PROVE ChargesInv'
  <2>0. /\ Charges(inv[k]) /\ (~At(k, "refuse") => Waits(inv[k]))
        /\ (k \in active => Runs(inv[k], epoch))
        /\ (step.k = k => StepCharges(step, inv[k])) /\ (step.pc # "idle" => step.k \notin active)
    BY <1>1, <1>9 DEF ChargesInv
  <2>1. Charges(r)
    BY <1>1, <2>0 DEF Consume, At, Charges, Waits, Runs, Holds, StepCharges, KeyOK, StepOK,
       Preparing, Charged, Invocation, StepRecord, Terminal
  <2>2. t.pc # "refuse" => Waits(r)
    BY <1>1, <2>0 DEF Consume, At, Charges, Waits, Runs, Holds, StepCharges, KeyOK, StepOK,
       Preparing, Charged, Invocation, StepRecord, Evidence, Terminal
  <2>3. epoch' = epoch /\ \A j \in active' : IF j = k THEN Runs(r, epoch) ELSE j \in active
    BY <1>1, <2>0 DEF Consume, At, Charges, Waits, Runs, Holds, StepCharges, KeyOK, StepOK,
       Preparing, Charged, Invocation, StepRecord, Steady
  <2>4. t.pc = "idle" \/ (t.k = k /\ StepCharges(t, r) /\ k \notin active')
    BY <1>1, <2>0 DEF Consume, At, Charges, Waits, Runs, Holds, StepCharges, KeyOK, StepOK,
       Preparing, Charged, Invocation, StepRecord, Evidence, Steady
  <2> HIDE DEF r, t
  <2> QED BY <1>2, <1>3, <1>4, <1>9, <2>1, <2>2, <2>3, <2>4, CombineCharges
<1> QED BY <1>8, <1>9

(* RecordRefused keeps the invariant. *)
LEMMA RecordRefusedOK ==
  ASSUME OperationsInv, NEW k \in Invocations, RecordRefused(k)
  PROVE  OperationsInv' /\ (ChargesInv => ChargesInv')
<1> DEFINE r == [inv[k] EXCEPT !.ledger = "refused", !.owner = 0, !.ev = step.ev]
           t == Idle
<1>0. /\ inv[k] \in Invocation /\ step.ev \in Evidence
      /\ 0 \in 0 .. MaxCrashes + 1 /\ epoch \in 0 .. MaxCrashes + 1 /\ now \in 0 .. Windows
  BY TypeParts, OperationsAssumption DEF OperationsInv, RestType, StepRecord
<1>1. /\ inv \in [Invocations -> Invocation] /\ inv[k] \in Invocation
      /\ step \in StepRecord /\ RestType /\ TypeOK /\ KeyOK(inv[k]) /\ StepOK(step, inv[step.k])
  BY TypeParts DEF OperationsInv
<1>2. /\ Set(k, r) /\ step' = t
      /\ step.pc = "idle" \/ step.k = k
  BY <1>1 DEF RecordRefused, UpdatePrepared, Set, At, Return
<1>3. r \in Invocation
  BY <1>0 DEF Invocation, Terminal
<1>4. t \in StepRecord
  BY <1>1, IdleStep DEF StepRecord, Steps, Evidence, NoEvidence, Terminal
<1>5. RestType'
  BY <1>1, OperationsAssumption DEF RecordRefused, UpdatePrepared, RestType, Steady
<1>6. KeyOK(r)
  BY <1>1 DEF RecordRefused, UpdatePrepared, At, KeyOK, OnApproval, Approved, StepOK,
     Preparing, Invocation, Terminal
<1>7. t.pc = "idle" \/ (t.k = k /\ StepOK(t, r))
  BY <1>1, <1>6, IdleStep DEF RecordRefused, UpdatePrepared, At, StepOK, KeyOK, Preparing,
     OnApproval, Approved, StepRecord, Invocation, Terminal
<1>8. OperationsInv'
  <2> HIDE DEF r, t
  <2> QED BY <1>2, <1>3, <1>4, <1>5, <1>6, <1>7, Combine
<1>9. ASSUME ChargesInv PROVE ChargesInv'
  <2>0. /\ Charges(inv[k]) /\ (~At(k, "refuse") => Waits(inv[k]))
        /\ (k \in active => Runs(inv[k], epoch))
        /\ (step.k = k => StepCharges(step, inv[k])) /\ (step.pc # "idle" => step.k \notin active)
    BY <1>1, <1>9 DEF ChargesInv
  <2>1. Charges(r)
    BY <1>1, <2>0 DEF RecordRefused, UpdatePrepared, At, Charges, Waits, Runs, Holds,
       StepCharges, KeyOK, StepOK, Preparing, Charged, Invocation, StepRecord, Terminal
  <2>2. t.pc # "refuse" => Waits(r)
    BY <1>1, <2>0 DEF RecordRefused, UpdatePrepared, At, Charges, Waits, Runs, Holds,
       StepCharges, KeyOK, StepOK, Preparing, Charged, Invocation, StepRecord, Evidence,
       Terminal
  <2>3. epoch' = epoch /\ \A j \in active' : IF j = k THEN Runs(r, epoch) ELSE j \in active
    BY <1>1, <2>0 DEF RecordRefused, UpdatePrepared, At, Charges, Waits, Runs, Holds,
       StepCharges, KeyOK, StepOK, Preparing, Charged, Invocation, StepRecord, Steady
  <2>4. t.pc = "idle" \/ (t.k = k /\ StepCharges(t, r) /\ k \notin active')
    BY <1>1, <2>0, IdleStep DEF RecordRefused, UpdatePrepared, At, Charges, Waits, Runs, Holds,
       StepCharges, KeyOK, StepOK, Preparing, Charged, Invocation, StepRecord, Evidence, Steady
  <2> HIDE DEF r, t
  <2> QED BY <1>2, <1>3, <1>4, <1>9, <2>1, <2>2, <2>3, <2>4, CombineCharges
<1> QED BY <1>8, <1>9

(* RecordAwaiting keeps the invariant. *)
LEMMA RecordAwaitingOK ==
  ASSUME OperationsInv, NEW k \in Invocations, RecordAwaiting(k)
  PROVE  OperationsInv' /\ (ChargesInv => ChargesInv')
<1> DEFINE r == [inv[k] EXCEPT !.ledger = "awaiting_approval", !.owner = 0, !.ev = step.ev]
           t == Idle
<1>0. /\ inv[k] \in Invocation /\ step.ev \in Evidence
      /\ 0 \in 0 .. MaxCrashes + 1 /\ epoch \in 0 .. MaxCrashes + 1 /\ now \in 0 .. Windows
  BY TypeParts, OperationsAssumption DEF OperationsInv, RestType, StepRecord
<1>1. /\ inv \in [Invocations -> Invocation] /\ inv[k] \in Invocation
      /\ step \in StepRecord /\ RestType /\ TypeOK /\ KeyOK(inv[k]) /\ StepOK(step, inv[step.k])
  BY TypeParts DEF OperationsInv
<1>2. /\ Set(k, r) /\ step' = t
      /\ step.pc = "idle" \/ step.k = k
  BY <1>1 DEF RecordAwaiting, UpdatePrepared, Set, At, Return
<1>3. r \in Invocation
  BY <1>0 DEF Invocation
<1>4. t \in StepRecord
  BY <1>1, IdleStep DEF StepRecord, Steps, Evidence, NoEvidence, Terminal
<1>5. RestType'
  BY <1>1, OperationsAssumption DEF RecordAwaiting, UpdatePrepared, RestType, Steady
<1>6. KeyOK(r)
  BY <1>1 DEF RecordAwaiting, UpdatePrepared, At, KeyOK, OnApproval, Approved, StepOK,
     Preparing, Invocation, Terminal
<1>7. t.pc = "idle" \/ (t.k = k /\ StepOK(t, r))
  BY <1>1, <1>6, IdleStep DEF RecordAwaiting, UpdatePrepared, At, StepOK, KeyOK, Preparing,
     OnApproval, Approved, StepRecord, Invocation, Terminal
<1>8. OperationsInv'
  <2> HIDE DEF r, t
  <2> QED BY <1>2, <1>3, <1>4, <1>5, <1>6, <1>7, Combine
<1>9. ASSUME ChargesInv PROVE ChargesInv'
  <2>0. /\ Charges(inv[k]) /\ (~At(k, "refuse") => Waits(inv[k]))
        /\ (k \in active => Runs(inv[k], epoch))
        /\ (step.k = k => StepCharges(step, inv[k])) /\ (step.pc # "idle" => step.k \notin active)
    BY <1>1, <1>9 DEF ChargesInv
  <2>1. Charges(r)
    BY <1>1, <2>0 DEF RecordAwaiting, UpdatePrepared, At, Charges, Waits, Runs, Holds,
       StepCharges, KeyOK, StepOK, Preparing, Charged, Invocation, StepRecord, Terminal
  <2>2. t.pc # "refuse" => Waits(r)
    BY <1>1, <2>0 DEF RecordAwaiting, UpdatePrepared, At, Charges, Waits, Runs, Holds,
       StepCharges, KeyOK, StepOK, Preparing, Charged, Invocation, StepRecord, Evidence,
       Terminal
  <2>3. epoch' = epoch /\ \A j \in active' : IF j = k THEN Runs(r, epoch) ELSE j \in active
    BY <1>1, <2>0 DEF RecordAwaiting, UpdatePrepared, At, Charges, Waits, Runs, Holds,
       StepCharges, KeyOK, StepOK, Preparing, Charged, Invocation, StepRecord, Steady
  <2>4. t.pc = "idle" \/ (t.k = k /\ StepCharges(t, r) /\ k \notin active')
    BY <1>1, <2>0, IdleStep DEF RecordAwaiting, UpdatePrepared, At, Charges, Waits, Runs,
       Holds, StepCharges, KeyOK, StepOK, Preparing, Charged, Invocation, StepRecord, Evidence,
       Steady
  <2> HIDE DEF r, t
  <2> QED BY <1>2, <1>3, <1>4, <1>9, <2>1, <2>2, <2>3, <2>4, CombineCharges
<1> QED BY <1>8, <1>9

(* RecordAuthorized keeps the invariant. *)
LEMMA RecordAuthorizedOK ==
  ASSUME OperationsInv, NEW k \in Invocations, RecordAuthorized(k)
  PROVE  OperationsInv' /\ (ChargesInv => ChargesInv')
<1> DEFINE r == [inv[k] EXCEPT !.ledger = "running", !.owner = epoch, !.ev = step.ev]
           t == [step EXCEPT !.pc = "enter"]
<1>0. /\ inv[k] \in Invocation /\ step.ev \in Evidence
      /\ 0 \in 0 .. MaxCrashes + 1 /\ epoch \in 0 .. MaxCrashes + 1 /\ now \in 0 .. Windows
  BY TypeParts, OperationsAssumption DEF OperationsInv, RestType, StepRecord
<1>1. /\ inv \in [Invocations -> Invocation] /\ inv[k] \in Invocation
      /\ step \in StepRecord /\ RestType /\ TypeOK /\ KeyOK(inv[k]) /\ StepOK(step, inv[step.k])
  BY TypeParts DEF OperationsInv
<1>2. /\ Set(k, r) /\ step' = t
      /\ step.pc = "idle" \/ step.k = k
  BY <1>1 DEF RecordAuthorized, UpdatePrepared, Set, At, Goto
<1>3. r \in Invocation
  BY <1>0 DEF Invocation
<1>4. t \in StepRecord
  BY <1>1 DEF StepRecord, Steps, Evidence, NoEvidence, Terminal
<1>5. RestType'
  BY <1>1, OperationsAssumption DEF RecordAuthorized, UpdatePrepared, RestType, Steady
<1>6. KeyOK(r)
  BY <1>1 DEF RecordAuthorized, UpdatePrepared, At, KeyOK, OnApproval, Approved, StepOK,
     Preparing, Invocation, Terminal
<1>7. t.pc = "idle" \/ (t.k = k /\ StepOK(t, r))
  BY <1>1, <1>6 DEF RecordAuthorized, UpdatePrepared, At, StepOK, KeyOK, Preparing, OnApproval,
     Approved, StepRecord, Invocation, Terminal
<1>8. OperationsInv'
  <2> HIDE DEF r, t
  <2> QED BY <1>2, <1>3, <1>4, <1>5, <1>6, <1>7, Combine
<1>9. ASSUME ChargesInv PROVE ChargesInv'
  <2>0. /\ Charges(inv[k]) /\ (~At(k, "refuse") => Waits(inv[k]))
        /\ (k \in active => Runs(inv[k], epoch))
        /\ (step.k = k => StepCharges(step, inv[k])) /\ (step.pc # "idle" => step.k \notin active)
    BY <1>1, <1>9 DEF ChargesInv
  <2>1. Charges(r)
    BY <1>1, <2>0 DEF RecordAuthorized, UpdatePrepared, At, Charges, Waits, Runs, Holds,
       StepCharges, KeyOK, StepOK, Preparing, Charged, Invocation, StepRecord, Terminal
  <2>2. t.pc # "refuse" => Waits(r)
    BY <1>1, <2>0 DEF RecordAuthorized, UpdatePrepared, At, Charges, Waits, Runs, Holds,
       StepCharges, KeyOK, StepOK, Preparing, Charged, Invocation, StepRecord, Evidence,
       Terminal
  <2>3. epoch' = epoch /\ \A j \in active' : IF j = k THEN Runs(r, epoch) ELSE j \in active
    BY <1>1, <2>0 DEF RecordAuthorized, UpdatePrepared, At, Charges, Waits, Runs, Holds,
       StepCharges, KeyOK, StepOK, Preparing, Charged, Invocation, StepRecord, Steady
  <2>4. t.pc = "idle" \/ (t.k = k /\ StepCharges(t, r) /\ k \notin active')
    BY <1>1, <2>0 DEF RecordAuthorized, UpdatePrepared, At, Charges, Waits, Runs, Holds,
       StepCharges, KeyOK, StepOK, Preparing, Charged, Invocation, StepRecord, Evidence, Steady
  <2> HIDE DEF r, t
  <2> QED BY <1>2, <1>3, <1>4, <1>9, <2>1, <2>2, <2>3, <2>4, CombineCharges
<1> QED BY <1>8, <1>9

(* EnterHandler keeps the invariant. *)
LEMMA EnterHandlerOK ==
  ASSUME OperationsInv, NEW k \in Invocations, EnterHandler(k)
  PROVE  OperationsInv' /\ (ChargesInv => ChargesInv')
<1> DEFINE r == [inv[k] EXCEPT !.entered = @ + 1, !.did = "maybe"]
           t == Idle
<1>0. /\ inv[k] \in Invocation /\ step.ev \in Evidence
      /\ 0 \in 0 .. MaxCrashes + 1 /\ epoch \in 0 .. MaxCrashes + 1 /\ now \in 0 .. Windows
  BY TypeParts, OperationsAssumption DEF OperationsInv, RestType, StepRecord
<1>1. /\ inv \in [Invocations -> Invocation] /\ inv[k] \in Invocation
      /\ step \in StepRecord /\ RestType /\ TypeOK /\ KeyOK(inv[k]) /\ StepOK(step, inv[step.k])
  BY TypeParts DEF OperationsInv
<1>2. /\ Set(k, r) /\ step' = t
      /\ step.pc = "idle" \/ step.k = k
  BY <1>1 DEF EnterHandler, Set, At, Return
<1>3. r \in Invocation
  <2>1. inv[k].entered + 1 \in Nat BY <1>0 DEF Invocation
  <2>2. \A n \in Nat : [inv[k] EXCEPT !.entered = n, !.did = "maybe"] \in Invocation
    BY <1>0 DEF Invocation
  <2> QED BY <2>1, <2>2
<1>4. t \in StepRecord
  BY <1>1, IdleStep DEF StepRecord, Steps, Evidence, NoEvidence, Terminal
<1>5. RestType'
  BY <1>1, OperationsAssumption DEF EnterHandler, RestType
<1>6. KeyOK(r)
  BY <1>1 DEF EnterHandler, At, KeyOK, OnApproval, Approved, StepOK, Preparing, Invocation,
     Terminal
<1>7. t.pc = "idle" \/ (t.k = k /\ StepOK(t, r))
  BY <1>1, <1>6, IdleStep DEF EnterHandler, At, StepOK, KeyOK, Preparing, OnApproval, Approved,
     StepRecord, Invocation, Terminal
<1>8. OperationsInv'
  <2> HIDE DEF r, t
  <2> QED BY <1>2, <1>3, <1>4, <1>5, <1>6, <1>7, Combine
<1>9. ASSUME ChargesInv PROVE ChargesInv'
  <2>0. /\ Charges(inv[k]) /\ (~At(k, "refuse") => Waits(inv[k]))
        /\ (k \in active => Runs(inv[k], epoch))
        /\ (step.k = k => StepCharges(step, inv[k])) /\ (step.pc # "idle" => step.k \notin active)
    BY <1>1, <1>9 DEF ChargesInv
  <2>1. Charges(r)
    BY <1>1, <2>0 DEF EnterHandler, At, Charges, Waits, Runs, Holds, StepCharges, KeyOK,
       StepOK, Preparing, Charged, Invocation, StepRecord, Terminal
  <2>2. t.pc # "refuse" => Waits(r)
    BY <1>1, <2>0 DEF EnterHandler, At, Charges, Waits, Runs, Holds, StepCharges, KeyOK,
       StepOK, Preparing, Charged, Invocation, StepRecord, Evidence, Terminal
  <2>3. epoch' = epoch /\ \A j \in active' : IF j = k THEN Runs(r, epoch) ELSE j \in active
    BY <1>1, <2>0 DEF EnterHandler, At, Charges, Waits, Runs, Holds, StepCharges, KeyOK,
       StepOK, Preparing, Charged, Invocation, StepRecord, Steady
  <2>4. t.pc = "idle" \/ (t.k = k /\ StepCharges(t, r) /\ k \notin active')
    BY <1>1, <2>0, IdleStep DEF EnterHandler, At, Charges, Waits, Runs, Holds, StepCharges,
       KeyOK, StepOK, Preparing, Charged, Invocation, StepRecord, Evidence, Steady
  <2> HIDE DEF r, t
  <2> QED BY <1>2, <1>3, <1>4, <1>9, <2>1, <2>2, <2>3, <2>4, CombineCharges
<1> QED BY <1>8, <1>9

(* RecordOutcome keeps the invariant. *)
LEMMA RecordOutcomeOK ==
  ASSUME OperationsInv, NEW k \in Invocations, RecordOutcome(k)
  PROVE  OperationsInv' /\ (ChargesInv => ChargesInv')
<1> DEFINE r == [inv[k] EXCEPT !.ledger = step.out, !.owner = 0]
           t == Idle
<1>0. /\ inv[k] \in Invocation /\ step.ev \in Evidence
      /\ 0 \in 0 .. MaxCrashes + 1 /\ epoch \in 0 .. MaxCrashes + 1 /\ now \in 0 .. Windows
  BY TypeParts, OperationsAssumption DEF OperationsInv, RestType, StepRecord
<1>1. /\ inv \in [Invocations -> Invocation] /\ inv[k] \in Invocation
      /\ step \in StepRecord /\ RestType /\ TypeOK /\ KeyOK(inv[k]) /\ StepOK(step, inv[step.k])
  BY TypeParts DEF OperationsInv
<1>2. /\ Set(k, r) /\ step' = t
      /\ step.pc = "idle" \/ step.k = k
  BY <1>1 DEF RecordOutcome, Set, At, Return
<1>3. r \in Invocation
  <2>1. step.out \in Terminal \cup {"outcome_unknown"} BY <1>1 DEF RecordOutcome, At, StepOK
  <2> QED BY <1>0, <2>1 DEF Invocation
<1>4. t \in StepRecord
  BY <1>1, IdleStep DEF StepRecord, Steps, Evidence, NoEvidence, Terminal
<1>5. RestType'
  BY <1>1, OperationsAssumption DEF RecordOutcome, RestType, Steady
<1>6. KeyOK(r)
  BY <1>1 DEF RecordOutcome, At, KeyOK, OnApproval, Approved, StepOK, Preparing, Invocation,
     Terminal
<1>7. t.pc = "idle" \/ (t.k = k /\ StepOK(t, r))
  BY <1>1, <1>6, IdleStep DEF RecordOutcome, At, StepOK, KeyOK, Preparing, OnApproval,
     Approved, StepRecord, Invocation, Terminal
<1>8. OperationsInv'
  <2> HIDE DEF r, t
  <2> QED BY <1>2, <1>3, <1>4, <1>5, <1>6, <1>7, Combine
<1>9. ASSUME ChargesInv PROVE ChargesInv'
  <2>0. /\ Charges(inv[k]) /\ (~At(k, "refuse") => Waits(inv[k]))
        /\ (k \in active => Runs(inv[k], epoch))
        /\ (step.k = k => StepCharges(step, inv[k])) /\ (step.pc # "idle" => step.k \notin active)
    BY <1>1, <1>9 DEF ChargesInv
  <2>1. Charges(r)
    BY <1>1, <2>0 DEF RecordOutcome, At, Charges, Waits, Runs, Holds, StepCharges, KeyOK,
       StepOK, Preparing, Charged, Invocation, StepRecord, Terminal
  <2>2. t.pc # "refuse" => Waits(r)
    BY <1>1, <2>0 DEF RecordOutcome, At, Charges, Waits, Runs, Holds, StepCharges, KeyOK,
       StepOK, Preparing, Charged, Invocation, StepRecord, Evidence, Terminal
  <2>3. epoch' = epoch /\ \A j \in active' : IF j = k THEN Runs(r, epoch) ELSE j \in active
    BY <1>1, <2>0 DEF RecordOutcome, At, Charges, Waits, Runs, Holds, StepCharges, KeyOK,
       StepOK, Preparing, Charged, Invocation, StepRecord, Steady
  <2>4. t.pc = "idle" \/ (t.k = k /\ StepCharges(t, r) /\ k \notin active')
    BY <1>1, <2>0, IdleStep DEF RecordOutcome, At, Charges, Waits, Runs, Holds, StepCharges,
       KeyOK, StepOK, Preparing, Charged, Invocation, StepRecord, Evidence, Steady
  <2> HIDE DEF r, t
  <2> QED BY <1>2, <1>3, <1>4, <1>9, <2>1, <2>2, <2>3, <2>4, CombineCharges
<1> QED BY <1>8, <1>9

(* HandlerEnds keeps the invariant. *)
LEMMA HandlerEndsOK ==
  ASSUME OperationsInv,
         NEW k \in Invocations, NEW out \in {"completed", "refused", "outcome_unknown"}, HandlerEnds(k, out)
  PROVE  OperationsInv' /\ (ChargesInv => ChargesInv')
<1> DEFINE c == [inv[k] EXCEPT !.did = IF out = "refused" THEN "refused" ELSE @]
<1> DEFINE r == Settle(c, out)
           t == [k |-> k, pc |-> "record", ev |-> inv[k].ev, out |-> out]
<1>0. /\ inv[k] \in Invocation /\ step.ev \in Evidence
      /\ 0 \in 0 .. MaxCrashes + 1 /\ epoch \in 0 .. MaxCrashes + 1 /\ now \in 0 .. Windows
  BY TypeParts, OperationsAssumption DEF OperationsInv, RestType, StepRecord
<1>1. /\ inv \in [Invocations -> Invocation] /\ inv[k] \in Invocation
      /\ step \in StepRecord /\ RestType /\ TypeOK /\ KeyOK(inv[k]) /\ StepOK(step, inv[step.k])
  BY TypeParts DEF OperationsInv
<1>2. /\ Set(k, r) /\ step' = t
      /\ step.pc = "idle" \/ step.k = k
  BY <1>1 DEF HandlerEnds, Set
<1>a. k \in active /\ active' = active \ {k} BY DEF HandlerEnds
<1>c. /\ c \in Invocation /\ c.resv = inv[k].resv /\ c.booked = inv[k].booked
      /\ c.audit = inv[k].audit /\ c.ledger = inv[k].ledger /\ c.entered = inv[k].entered
      /\ c.did = (IF out = "refused" THEN "refused" ELSE inv[k].did) /\ c.limited = inv[k].limited
      /\ c.ev = inv[k].ev /\ c.cleared = inv[k].cleared /\ c.used = inv[k].used
      /\ c.policy = inv[k].policy /\ c.req = inv[k].req
  BY <1>1 DEF Invocation
<1>r. /\ r \in Invocation /\ SameWork(c, r)
      /\ r.audit = IF c.audit \in {"none", "open"} THEN out ELSE c.audit
      /\ ~c.ev.resv => r.resv = c.resv /\ r.booked = c.booked
      /\ c.ev.resv /\ out = "completed" => r.resv \in {"committed", "exceeded"}
      /\ c.ev.resv /\ out = "refused" => r.resv = "released" /\ r.booked = c.booked
      /\ c.ev.resv /\ out = "outcome_unknown" => r.resv = "outcome_unknown" /\ r.booked = c.booked
  <2>1. TypeOK /\ c \in Invocation BY <1>1, <1>c
  <2> HIDE DEF c
  <2>2. \A o \in {"completed", "refused", "outcome_unknown"} :
          LET s == Settle(c, o)
          IN  /\ s \in Invocation /\ SameWork(c, s)
              /\ s.audit = IF c.audit \in {"none", "open"} THEN o ELSE c.audit
              /\ ~c.ev.resv => s.resv = c.resv /\ s.booked = c.booked
              /\ c.ev.resv /\ o = "completed" => s.resv \in {"committed", "exceeded"}
              /\ c.ev.resv /\ o = "refused" => s.resv = "released" /\ s.booked = c.booked
              /\ c.ev.resv /\ o = "outcome_unknown" =>
                   s.resv = "outcome_unknown" /\ s.booked = c.booked
    BY <2>1, SettleEffect
  <2> QED BY <2>2
<1>3. r \in Invocation
  BY <1>r
<1>4. t \in StepRecord
  BY <1>1 DEF StepRecord, Steps, Evidence, NoEvidence, Terminal, Invocation
<1>5. RestType'
  BY <1>1, OperationsAssumption DEF HandlerEnds, RestType
<1> HIDE DEF r, c
<1>6. KeyOK(r)
  BY <1>1, <1>c, <1>r DEF KeyOK, OnApproval, Approved, SameWork
<1>7. t.pc = "idle" \/ (t.k = k /\ StepOK(t, r))
  BY <1>1, <1>6, <1>r, <1>c DEF HandlerEnds, At, StepOK, KeyOK, Preparing, OnApproval,
     Approved, StepRecord, Invocation, SameWork, Terminal
<1>8. OperationsInv'
  <2> HIDE DEF r, t
  <2> QED BY <1>2, <1>3, <1>4, <1>5, <1>6, <1>7, Combine
<1>9. ASSUME ChargesInv PROVE ChargesInv'
  <2>0. /\ Charges(inv[k]) /\ (~At(k, "refuse") => Waits(inv[k]))
        /\ (k \in active => Runs(inv[k], epoch))
        /\ (step.k = k => StepCharges(step, inv[k])) /\ (step.pc # "idle" => step.k \notin active)
    BY <1>1, <1>9 DEF ChargesInv
  <2>1. Charges(r)
    BY <1>1, <2>0, <1>r, <1>c DEF HandlerEnds, At, Charges, Waits, Runs, Holds, StepCharges,
       KeyOK, StepOK, Preparing, Charged, SameWork, Invocation, StepRecord, Terminal
  <2>2. t.pc # "refuse" => Waits(r)
    BY <1>1, <2>0, <1>r, <1>c DEF HandlerEnds, At, Charges, Waits, Runs, Holds, StepCharges,
       KeyOK, StepOK, Preparing, Charged, SameWork, Invocation, StepRecord, Evidence, Terminal
  <2>3. epoch' = epoch /\ \A j \in active' : IF j = k THEN Runs(r, epoch) ELSE j \in active
    BY <1>1, <2>0, <1>r, <1>c DEF HandlerEnds, At, Charges, Waits, Runs, Holds, StepCharges,
       KeyOK, StepOK, Preparing, Charged, SameWork, Invocation, StepRecord, Steady
  <2>4. t.pc = "idle" \/ (t.k = k /\ StepCharges(t, r) /\ k \notin active')
    BY <1>1, <2>0, <1>r, <1>c DEF HandlerEnds, At, Charges, Waits, Runs, Holds, StepCharges,
       KeyOK, StepOK, Preparing, Charged, SameWork, Invocation, StepRecord, Evidence, Steady
  <2> HIDE DEF r, t
  <2> QED BY <1>2, <1>3, <1>4, <1>9, <2>1, <2>2, <2>3, <2>4, CombineCharges
<1> QED BY <1>8, <1>9

(* SettleThrows keeps the invariant. *)
LEMMA SettleThrowsOK ==
  ASSUME OperationsInv,
         NEW k \in Invocations, NEW out \in {"completed", "refused", "outcome_unknown"},
         NEW again \in BOOLEAN, SettleThrows(k, out, again)
  PROVE  OperationsInv' /\ (ChargesInv => ChargesInv')
<1> DEFINE a == [inv[k] EXCEPT !.did = "refused"]
           b == Settle(inv[k], "outcome_unknown")
           r == IF out = "refused" THEN a ELSE IF again THEN b ELSE inv[k]
           t == IF out = "refused" THEN step
                ELSE [k |-> k, pc |-> "record", ev |-> inv[k].ev, out |-> "outcome_unknown"]
<1>0. /\ inv[k] \in Invocation /\ inv \in [Invocations -> Invocation] /\ step \in StepRecord
      /\ RestType /\ TypeOK /\ KeyOK(inv[k])
  BY TypeParts DEF OperationsInv
<1>1. /\ Set(k, r) /\ step' = t /\ step.pc = "idle" /\ k \in active /\ active' = active \ {k}
      /\ epoch' = epoch /\ mistaken' = mistaken /\ now' = now
      /\ faults' = faults \/ (faults < MaxFaults /\ faults' = faults + 1)
  BY <1>0 DEF SettleThrows, Set
<1>2. /\ a \in Invocation /\ a.ledger = inv[k].ledger /\ a.entered = inv[k].entered /\ a.did = "refused"
      /\ a.used = inv[k].used /\ a.policy = inv[k].policy /\ a.req = inv[k].req /\ a.ev = inv[k].ev
      /\ a.resv = inv[k].resv /\ a.booked = inv[k].booked /\ a.audit = inv[k].audit
  BY <1>0 DEF Invocation
<1>3. /\ b \in Invocation /\ SameWork(inv[k], b)
      /\ b.audit = IF inv[k].audit \in {"none", "open"} THEN "outcome_unknown" ELSE inv[k].audit
      /\ ~inv[k].ev.resv => b.resv = inv[k].resv /\ b.booked = inv[k].booked
      /\ inv[k].ev.resv => b.resv = "outcome_unknown" /\ b.booked = inv[k].booked
  BY <1>0, SettleEffect
<1> HIDE DEF a, b
<1>4. r \in Invocation BY <1>0, <1>2, <1>3
<1>5. t \in StepRecord BY <1>0 DEF StepRecord, Steps, Invocation
<1>6. RestType' BY <1>0, <1>1, OperationsAssumption DEF RestType
<1>7. KeyOK(r)
  <2>1. KeyOK(a) BY <1>0, <1>2 DEF KeyOK, OnApproval, Approved
  <2>2. KeyOK(b) BY <1>0, <1>3, SameWorkOK
  <2> QED BY <1>0, <2>1, <2>2
<1>8. t.pc = "idle" \/ (t.k = k /\ StepOK(t, r))
  BY <1>1 DEF StepOK, Preparing
<1>9. OperationsInv'
  <2> HIDE DEF r, t
  <2> QED BY <1>1, <1>4, <1>5, <1>6, <1>7, <1>8, Combine
<1>10. ASSUME ChargesInv PROVE ChargesInv'
  <2>1. Charges(inv[k]) /\ Runs(inv[k], epoch) BY <1>1, <1>10 DEF ChargesInv
  <2>2. Charges(a) /\ a.ledger = "running"
    BY <1>2, <2>1 DEF Charges, Runs
  <2>3. Charges(b) /\ b.ledger = "running"
    BY <1>3, <2>1 DEF Charges, Runs, SameWork, Charged, Holds
  <2>4. Charges(r) /\ r.ledger = "running" BY <2>1, <2>2, <2>3 DEF Runs
  <2>5. t.pc # "refuse" => Waits(r) BY <2>4 DEF Waits
  <2>6. \A j \in active' : IF j = k THEN Runs(r, epoch) ELSE j \in active BY <1>1
  <2>7. t.pc = "idle" \/ (t.k = k /\ StepCharges(t, r) /\ k \notin active')
    BY <1>1, <2>4 DEF StepCharges, Preparing
  <2> HIDE DEF r, t
  <2> QED BY <1>1, <1>4, <1>5, <1>10, <2>4, <2>5, <2>6, <2>7, CombineCharges
<1> QED BY <1>9, <1>10

(* DecideRequest keeps the invariant. *)
LEMMA DecideRequestOK ==
  ASSUME OperationsInv,
         NEW k \in Invocations, NEW q \in Requirements, NEW status \in {"approved", "closed"}, DecideRequest(k, q, status)
  PROVE  OperationsInv' /\ (ChargesInv => ChargesInv')
<1> DEFINE r == [inv[k] EXCEPT !.req[q] = status, !.rcpt[q] = IF status = "approved"
                THEN "issued"
                ELSE @]
           t == step
<1>0. /\ inv[k] \in Invocation /\ step.ev \in Evidence
      /\ 0 \in 0 .. MaxCrashes + 1 /\ epoch \in 0 .. MaxCrashes + 1 /\ now \in 0 .. Windows
  BY TypeParts, OperationsAssumption DEF OperationsInv, RestType, StepRecord
<1>1. /\ inv \in [Invocations -> Invocation] /\ inv[k] \in Invocation
      /\ step \in StepRecord /\ RestType /\ TypeOK /\ KeyOK(inv[k]) /\ StepOK(step, inv[step.k])
  BY TypeParts DEF OperationsInv
<1>2. /\ Set(k, r) /\ step' = t
      /\ step.pc = "idle" \/ step.k = k
  BY <1>1 DEF DecideRequest, Set
<1>3. r \in Invocation
  BY <1>0 DEF Invocation
<1>4. t \in StepRecord
  BY <1>1 DEF StepRecord, Steps, Evidence, NoEvidence, Terminal
<1>5. RestType'
  BY <1>1, OperationsAssumption DEF DecideRequest, RestType, Steady
<1>6. KeyOK(r)
  BY <1>1 DEF DecideRequest, At, KeyOK, OnApproval, Approved, StepOK, Preparing, Invocation,
     Terminal
<1>7. t.pc = "idle" \/ (t.k = k /\ StepOK(t, r))
  BY <1>1, <1>6 DEF DecideRequest, At, StepOK, KeyOK, Preparing, OnApproval, Approved,
     StepRecord, Invocation, Terminal
<1>8. OperationsInv'
  <2> HIDE DEF r, t
  <2> QED BY <1>2, <1>3, <1>4, <1>5, <1>6, <1>7, Combine
<1>9. ASSUME ChargesInv PROVE ChargesInv'
  <2>0. /\ Charges(inv[k]) /\ (~At(k, "refuse") => Waits(inv[k]))
        /\ (k \in active => Runs(inv[k], epoch))
        /\ (step.k = k => StepCharges(step, inv[k])) /\ (step.pc # "idle" => step.k \notin active)
    BY <1>1, <1>9 DEF ChargesInv
  <2>1. Charges(r)
    BY <1>1, <2>0 DEF DecideRequest, At, Charges, Waits, Runs, Holds, StepCharges, KeyOK,
       StepOK, Preparing, Charged, Invocation, StepRecord, Terminal
  <2>2. t.pc # "refuse" => Waits(r)
    BY <1>1, <2>0 DEF DecideRequest, At, Charges, Waits, Runs, Holds, StepCharges, KeyOK,
       StepOK, Preparing, Charged, Invocation, StepRecord, Evidence, Terminal
  <2>3. epoch' = epoch /\ \A j \in active' : IF j = k THEN Runs(r, epoch) ELSE j \in active
    BY <1>1, <2>0 DEF DecideRequest, At, Charges, Waits, Runs, Holds, StepCharges, KeyOK,
       StepOK, Preparing, Charged, Invocation, StepRecord, Steady
  <2>4. t.pc = "idle" \/ (t.k = k /\ StepCharges(t, r) /\ k \notin active')
    BY <1>1, <2>0 DEF DecideRequest, At, Charges, Waits, Runs, Holds, StepCharges, KeyOK,
       StepOK, Preparing, Charged, Invocation, StepRecord, Evidence, Steady
  <2> HIDE DEF r, t
  <2> QED BY <1>2, <1>3, <1>4, <1>9, <2>1, <2>2, <2>3, <2>4, CombineCharges
<1> QED BY <1>8, <1>9

(* RevokeReceipt keeps the invariant. *)
LEMMA RevokeReceiptOK ==
  ASSUME OperationsInv, NEW k \in Invocations, NEW q \in Requirements, RevokeReceipt(k, q)
  PROVE  OperationsInv' /\ (ChargesInv => ChargesInv')
<1> DEFINE r == [inv[k] EXCEPT !.rcpt[q] = "revoked"]
           t == step
<1>0. /\ inv[k] \in Invocation /\ step.ev \in Evidence
      /\ 0 \in 0 .. MaxCrashes + 1 /\ epoch \in 0 .. MaxCrashes + 1 /\ now \in 0 .. Windows
  BY TypeParts, OperationsAssumption DEF OperationsInv, RestType, StepRecord
<1>1. /\ inv \in [Invocations -> Invocation] /\ inv[k] \in Invocation
      /\ step \in StepRecord /\ RestType /\ TypeOK /\ KeyOK(inv[k]) /\ StepOK(step, inv[step.k])
  BY TypeParts DEF OperationsInv
<1>2. /\ Set(k, r) /\ step' = t
      /\ step.pc = "idle" \/ step.k = k
  BY <1>1 DEF RevokeReceipt, Set
<1>3. r \in Invocation
  BY <1>0 DEF Invocation
<1>4. t \in StepRecord
  BY <1>1 DEF StepRecord, Steps, Evidence, NoEvidence, Terminal
<1>5. RestType'
  BY <1>1, OperationsAssumption DEF RevokeReceipt, RestType, Steady
<1>6. KeyOK(r)
  BY <1>1 DEF RevokeReceipt, At, KeyOK, OnApproval, Approved, StepOK, Preparing, Invocation,
     Terminal
<1>7. t.pc = "idle" \/ (t.k = k /\ StepOK(t, r))
  BY <1>1, <1>6 DEF RevokeReceipt, At, StepOK, KeyOK, Preparing, OnApproval, Approved,
     StepRecord, Invocation, Terminal
<1>8. OperationsInv'
  <2> HIDE DEF r, t
  <2> QED BY <1>2, <1>3, <1>4, <1>5, <1>6, <1>7, Combine
<1>9. ASSUME ChargesInv PROVE ChargesInv'
  <2>0. /\ Charges(inv[k]) /\ (~At(k, "refuse") => Waits(inv[k]))
        /\ (k \in active => Runs(inv[k], epoch))
        /\ (step.k = k => StepCharges(step, inv[k])) /\ (step.pc # "idle" => step.k \notin active)
    BY <1>1, <1>9 DEF ChargesInv
  <2>1. Charges(r)
    BY <1>1, <2>0 DEF RevokeReceipt, At, Charges, Waits, Runs, Holds, StepCharges, KeyOK,
       StepOK, Preparing, Charged, Invocation, StepRecord, Terminal
  <2>2. t.pc # "refuse" => Waits(r)
    BY <1>1, <2>0 DEF RevokeReceipt, At, Charges, Waits, Runs, Holds, StepCharges, KeyOK,
       StepOK, Preparing, Charged, Invocation, StepRecord, Evidence, Terminal
  <2>3. epoch' = epoch /\ \A j \in active' : IF j = k THEN Runs(r, epoch) ELSE j \in active
    BY <1>1, <2>0 DEF RevokeReceipt, At, Charges, Waits, Runs, Holds, StepCharges, KeyOK,
       StepOK, Preparing, Charged, Invocation, StepRecord, Steady
  <2>4. t.pc = "idle" \/ (t.k = k /\ StepCharges(t, r) /\ k \notin active')
    BY <1>1, <2>0 DEF RevokeReceipt, At, Charges, Waits, Runs, Holds, StepCharges, KeyOK,
       StepOK, Preparing, Charged, Invocation, StepRecord, Evidence, Steady
  <2> HIDE DEF r, t
  <2> QED BY <1>2, <1>3, <1>4, <1>9, <2>1, <2>2, <2>3, <2>4, CombineCharges
<1> QED BY <1>8, <1>9

(* ReconcileNoEffect keeps the invariant. *)
LEMMA ReconcileNoEffectOK ==
  ASSUME OperationsInv, NEW k \in Invocations, ReconcileNoEffect(k)
  PROVE  OperationsInv' /\ (ChargesInv => ChargesInv')
<1> DEFINE r == [inv[k] EXCEPT !.resv = "released", !.cleared = TRUE]
           t == step
<1>0. /\ inv[k] \in Invocation /\ step.ev \in Evidence
      /\ 0 \in 0 .. MaxCrashes + 1 /\ epoch \in 0 .. MaxCrashes + 1 /\ now \in 0 .. Windows
  BY TypeParts, OperationsAssumption DEF OperationsInv, RestType, StepRecord
<1>1. /\ inv \in [Invocations -> Invocation] /\ inv[k] \in Invocation
      /\ step \in StepRecord /\ RestType /\ TypeOK /\ KeyOK(inv[k]) /\ StepOK(step, inv[step.k])
  BY TypeParts DEF OperationsInv
<1>2. /\ Set(k, r) /\ step' = t
      /\ step.pc = "idle" \/ step.k = k
  BY <1>1 DEF ReconcileNoEffect, Set
<1>3. r \in Invocation
  BY <1>0 DEF Invocation
<1>4. t \in StepRecord
  BY <1>1 DEF StepRecord, Steps, Evidence, NoEvidence, Terminal
<1>5. RestType'
  BY <1>1, OperationsAssumption DEF ReconcileNoEffect, RestType, Steady
<1>6. KeyOK(r)
  BY <1>1 DEF ReconcileNoEffect, At, KeyOK, OnApproval, Approved, StepOK, Preparing,
     Invocation, Terminal
<1>7. t.pc = "idle" \/ (t.k = k /\ StepOK(t, r))
  BY <1>1, <1>6 DEF ReconcileNoEffect, At, StepOK, KeyOK, Preparing, OnApproval, Approved,
     StepRecord, Invocation, Terminal
<1>8. OperationsInv'
  <2> HIDE DEF r, t
  <2> QED BY <1>2, <1>3, <1>4, <1>5, <1>6, <1>7, Combine
<1>9. ASSUME ChargesInv PROVE ChargesInv'
  <2>0. /\ Charges(inv[k]) /\ (~At(k, "refuse") => Waits(inv[k]))
        /\ (k \in active => Runs(inv[k], epoch))
        /\ (step.k = k => StepCharges(step, inv[k])) /\ (step.pc # "idle" => step.k \notin active)
    BY <1>1, <1>9 DEF ChargesInv
  <2>1. Charges(r)
    BY <1>1, <2>0 DEF ReconcileNoEffect, At, Charges, Waits, Runs, Holds, StepCharges, KeyOK,
       StepOK, Preparing, Charged, Invocation, StepRecord, Terminal
  <2>2. t.pc # "refuse" => Waits(r)
    BY <1>1, <2>0 DEF ReconcileNoEffect, At, Charges, Waits, Runs, Holds, StepCharges, KeyOK,
       StepOK, Preparing, Charged, Invocation, StepRecord, Evidence, Terminal
  <2>3. epoch' = epoch /\ \A j \in active' : IF j = k THEN Runs(r, epoch) ELSE j \in active
    BY <1>1, <2>0 DEF ReconcileNoEffect, At, Charges, Waits, Runs, Holds, StepCharges, KeyOK,
       StepOK, Preparing, Charged, Invocation, StepRecord, Steady
  <2>4. t.pc = "idle" \/ (t.k = k /\ StepCharges(t, r) /\ k \notin active')
    BY <1>1, <2>0 DEF ReconcileNoEffect, At, Charges, Waits, Runs, Holds, StepCharges, KeyOK,
       StepOK, Preparing, Charged, Invocation, StepRecord, Evidence, Steady
  <2> HIDE DEF r, t
  <2> QED BY <1>2, <1>3, <1>4, <1>9, <2>1, <2>2, <2>3, <2>4, CombineCharges
<1> QED BY <1>8, <1>9

-----------------------------------------------------------------------------
(* The specification.                                                        *)

(* The first state satisfies the invariant. *)
LEMMA InitOK == Init => OperationsInv /\ ChargesInv
<1> SUFFICES ASSUME Init PROVE OperationsInv /\ ChargesInv OBVIOUS
<1>1. /\ NoInvocation \in Invocation /\ KeyOK(NoInvocation)
      /\ Charges(NoInvocation) /\ Waits(NoInvocation)
  BY OperationsAssumption
  DEF NoInvocation, Invocation, Evidence, NoEvidence, KeyOK, Charges, Waits, Holds
<1>2. /\ \A k \in Invocations : inv[k] = NoInvocation /\ inv \in [Invocations -> Invocation]
      /\ step = Idle /\ active = {}
  BY <1>1 DEF Init
<1>3. RestType BY OperationsAssumption DEF Init, RestType
<1>4. TypeOK
  BY <1>1, <1>2, <1>3, IdleStep, TypeParts DEF Init
<1>5. OperationsInv BY <1>1, <1>2, <1>4, IdleStep DEF OperationsInv
<1>6. ChargesInv BY <1>1, <1>2, IdleStep DEF ChargesInv
<1> QED BY <1>5, <1>6

(* Every step keeps OperationsInv; it keeps ChargesInv if the Bus does not    *)
(* die between a refusal and its record.                                      *)
LEMMA NextOK ==
  ASSUME OperationsInv, [Next]_vars
  PROVE  OperationsInv' /\ (Careful /\ ChargesInv => ChargesInv')
<1>0. /\ inv \in [Invocations -> Invocation] /\ step \in StepRecord /\ RestType
      /\ \A k \in Invocations : KeyOK(inv[k])
  BY TypeParts DEF OperationsInv
<1>1. ASSUME NEW k \in Invocations, Continue(k)
      PROVE  OperationsInv' /\ (ChargesInv => ChargesInv')
  BY <1>1, RecoverAuditOK, RecoverLedgerOK, CompleteRefusalOK, GovernanceThrowsOK,
     EvaluationFailsOK, EvaluateOK, RefuseBeforeEffectsOK, ReserveOK, BudgetExceededOK,
     AllowOK, RequestsFailOK, RequestApprovalsOK, StillPendingOK, NotApprovedOK,
     VerifyFailsOK, ConsumeOK, RecordRefusedOK, RecordAwaitingOK, RecordAuthorizedOK,
     EnterHandlerOK, RecordOutcomeOK
  DEF Continue
<1>2. ASSUME NEW k \in Invocations, HandlerStep(k)
      PROVE  OperationsInv' /\ (ChargesInv => ChargesInv')
  BY <1>2, HandlerEndsOK, SettleThrowsOK DEF HandlerStep
<1>3. ASSUME NEW k \in Invocations, People(k)
      PROVE  OperationsInv' /\ (ChargesInv => ChargesInv')
  BY <1>3, DecideRequestOK, RevokeReceiptOK, ReconcileNoEffectOK DEF People
<1>4. CASE NextWindow
  <2>1. /\ inv' = inv /\ step' = step /\ active' = active /\ epoch' = epoch BY <1>4 DEF NextWindow
  <2>2. RestType' BY <1>0, <1>4, OperationsAssumption DEF NextWindow, RestType
  <2>3. OperationsInv'
    BY <1>0, <2>1, <2>2, TypeParts DEF OperationsInv, KeyOK, StepOK, OnApproval, Approved
  <2>4. ChargesInv => ChargesInv'
    BY <2>1 DEF ChargesInv, Charges, Waits, Runs, StepCharges, Holds, At
  <2> QED BY <2>3, <2>4
<1>5. CASE BusDies
  <2>1. inv' = inv /\ step' = Idle /\ active' = {} /\ step.pc \in CrashPoints
    BY <1>5 DEF BusDies, Return
  <2>2. RestType' BY <1>0, <1>5, OperationsAssumption DEF BusDies, RestType
  <2>3. TypeOK' BY <1>0, <2>1, <2>2, IdleStep, TypeParts
  <2>4. StepOK(step, inv[step.k])'
    <3>1. StepOK(step', inv'[step'.k]) BY <2>1, IdleStep
    <3> QED BY <3>1 DEF StepOK, OnApproval, Approved
  <2>5. OperationsInv'
    BY <1>0, <2>1, <2>3, <2>4 DEF OperationsInv, KeyOK, OnApproval, Approved
  <2>6. ASSUME Careful, ChargesInv PROVE ChargesInv'
    <3>1. \A k \in Invocations : ~At(k, "refuse") BY <2>1, <2>6 DEF Careful, At
    <3>2. \A k \in Invocations : Charges(inv'[k]) /\ Waits(inv'[k]) BY <2>1, <2>6, <3>1 DEF ChargesInv
    <3>3. StepCharges(step, inv[step.k])' /\ step'.pc = "idle"
      BY <2>1, IdleStep DEF StepCharges, Preparing
    <3> QED BY <2>1, <3>2, <3>3 DEF ChargesInv
  <2> QED BY <2>5, <2>6
<1>6. CASE UNCHANGED vars
  <2>1. /\ inv' = inv /\ step' = step /\ active' = active /\ epoch' = epoch
        /\ mistaken' = mistaken /\ now' = now /\ faults' = faults
    BY <1>6 DEF vars
  <2>2. RestType' BY <1>0, <2>1 DEF RestType
  <2>3. OperationsInv'
    BY <1>0, <2>1, <2>2, TypeParts DEF OperationsInv, KeyOK, StepOK, OnApproval, Approved
  <2>4. ChargesInv => ChargesInv'
    BY <2>1 DEF ChargesInv, Charges, Waits, Runs, StepCharges, Holds, At
  <2> QED BY <2>3, <2>4
<1> QED
  BY <1>1, <1>2, <1>3, <1>4, <1>5, <1>6, BeginOK, RecoverBudgetOK DEF Next

-----------------------------------------------------------------------------
(* The Budget's limit.                                                       *)

Booked == {"committed", "exceeded"}

(* A reservation is made in a window that has begun, and what it used is      *)
(* booked in that window or a later one.                                      *)
Dated(r, n) ==
  /\ r.window <= n /\ r.booked <= n
  /\ r.resv \in Booked => r.window <= r.booked

BudgetInv == ReservedWithinLimit /\ \A k \in Invocations : Dated(inv[k], now)

(* A write that makes no reservation: what counts in a window counted there   *)
(* before, and what is booked is booked now.                                  *)
Kept(r, s, n) ==
  /\ s.window = r.window
  /\ s.resv \in Charged \cup Booked => r.resv \in Charged \cup Booked
  /\ \/ s.booked = r.booked /\ (s.resv \in Booked => r.resv \in Booked)
     \/ s.booked = n

(* The reservations counted in a window. *)
Held(f, w) == {k \in Invocations : f[k].window = w /\ f[k].resv \in Charged \cup Booked}

LEMMA WithinLimit ==
  /\ ReservedWithinLimit <=> \A w \in 1 .. Windows : Cardinality(Held(inv, w)) <= Limit
  /\ ReservedWithinLimit' <=> \A w \in 1 .. Windows : Cardinality(Held(inv', w)) <= Limit
  BY DEF ReservedWithinLimit, Held, Booked

LEMMA HeldFinite ==
  ASSUME NEW f, NEW w, NEW S, S \subseteq Held(f, w)
  PROVE  /\ IsFiniteSet(S) /\ Cardinality(S) \in Nat
         /\ Cardinality(S) <= Cardinality(Held(f, w)) /\ Cardinality(Held(f, w)) \in Nat
<1>1. IsFiniteSet(Held(f, w)) BY OperationsAssumption, FS_Subset DEF Held
<1> QED BY <1>1, FS_Subset, FS_CardinalityType

(* Steps that make no reservation keep every window within the limit. *)
LEMMA KeptOK ==
  ASSUME TypeOK, BudgetInv, now' \in Nat, now <= now',
         \A k \in Invocations : Kept(inv[k], inv'[k], now')
  PROVE  BudgetInv'
<1>1. ASSUME NEW w \in 1 .. Windows PROVE Cardinality(Held(inv', w)) <= Limit
  <2>1. Held(inv', w) \subseteq Held(inv, w) BY DEF Held, Kept
  <2>2. /\ Cardinality(Held(inv', w)) \in Nat /\ Cardinality(Held(inv, w)) \in Nat
        /\ Cardinality(Held(inv', w)) <= Cardinality(Held(inv, w))
    BY <2>1, HeldFinite
  <2>3. Cardinality(Held(inv, w)) <= Limit BY WithinLimit DEF BudgetInv
  <2> QED BY <2>2, <2>3, OperationsAssumption
<1>2. ASSUME NEW k \in Invocations PROVE Dated(inv'[k], now')
  <2>1. /\ inv[k].window \in Nat /\ inv[k].booked \in Nat /\ now \in Nat
    BY OperationsAssumption DEF TypeOK, Invocation
  <2>2. Dated(inv[k], now) /\ Kept(inv[k], inv'[k], now') BY DEF BudgetInv
  <2> QED BY <2>1, <2>2 DEF Dated, Kept
<1> QED BY <1>1, <1>2, WithinLimit DEF BudgetInv, Dated

(* reserve counts the committed and the reserved amount of the window it      *)
(* reserves in: everything held there is one or the other.                    *)
LEMMA ReserveFits ==
  ASSUME TypeOK, BudgetInv, NEW k \in Invocations, Fits(now),
         NEW r \in Invocation, r.window = now, r.booked = inv[k].booked, r.resv = "reserved",
         Set(k, r), now' = now
  PROVE  BudgetInv'
<1> DEFINE booked == {j \in Invocations : inv[j].booked = now}
           open   == {j \in Invocations : inv[j].resv \in Charged /\ inv[j].window = now}
<1>0. /\ inv' = [inv EXCEPT ![k] = r] /\ inv'[k] = r /\ now \in 1 .. Windows
      /\ \A j \in Invocations : j # k => inv'[j] = inv[j]
  BY DEF Set, TypeOK
<1>1. IsFiniteSet(booked) /\ IsFiniteSet(open) BY OperationsAssumption, FS_Subset
<1>2. /\ Cardinality(booked) \in Nat /\ Cardinality(open) \in Nat
      /\ Cardinality(booked) + Cardinality(open) + 1 <= Limit
  BY <1>1, FS_CardinalityType DEF Fits, Committed, Reserved
<1>3. Held(inv', now) \subseteq (booked \cup open) \cup {k}
  <2> SUFFICES ASSUME NEW j \in Held(inv', now), j # k PROVE j \in booked \cup open OBVIOUS
  <2>1. /\ j \in Invocations /\ inv[j].window = now /\ inv[j].resv \in Charged \cup Booked
    BY <1>0 DEF Held
  <2>2. inv[j].window \in Nat /\ inv[j].booked \in Nat /\ Dated(inv[j], now)
    BY <2>1, OperationsAssumption DEF TypeOK, Invocation, BudgetInv
  <2>3. inv[j].resv \in Booked => inv[j].booked = now
    BY <1>0, <2>1, <2>2, OperationsAssumption DEF Dated
  <2> QED BY <2>1, <2>3
<1>4. Cardinality(Held(inv', now)) <= Limit
  <2>1. IsFiniteSet(booked \cup open) /\ Cardinality(booked \cup open) \in Nat
    BY <1>1, FS_Union, FS_CardinalityType
  <2>2. Cardinality(booked \cup open) <= Cardinality(booked) + Cardinality(open)
    <3>1. /\ Cardinality(booked \cup open) =
              Cardinality(booked) + Cardinality(open) - Cardinality(booked \cap open)
      BY <1>1, FS_Union
    <3>2. Cardinality(booked \cap open) \in Nat
      BY <1>1, FS_Intersection, FS_CardinalityType
    <3> QED BY <1>2, <3>1, <3>2
  <2>3. /\ IsFiniteSet((booked \cup open) \cup {k})
        /\ Cardinality((booked \cup open) \cup {k}) \in Nat
        /\ Cardinality((booked \cup open) \cup {k}) <= Cardinality(booked \cup open) + 1
    <3> DEFINE both == booked \cup open
    <3>1. IsFiniteSet(both) /\ Cardinality(both) \in Nat BY <2>1
    <3> HIDE DEF both
    <3>2. /\ IsFiniteSet(both \cup {k})
          /\ Cardinality(both \cup {k}) = IF k \in both THEN Cardinality(both)
                                          ELSE Cardinality(both) + 1
      BY <3>1, FS_AddElement
    <3>3. /\ IsFiniteSet(both \cup {k}) /\ Cardinality(both \cup {k}) \in Nat
          /\ Cardinality(both \cup {k}) <= Cardinality(both) + 1
      BY <3>1, <3>2
    <3> QED BY <3>3 DEF both
  <2>4. /\ Cardinality(Held(inv', now)) \in Nat
        /\ Cardinality(Held(inv', now)) <= Cardinality((booked \cup open) \cup {k})
    <3>1. Cardinality(Held(inv', now)) \in Nat BY HeldFinite
    <3> HIDE DEF booked, open
    <3> QED BY <1>3, <2>3, <3>1, FS_Subset
  <2> QED BY <1>2, <2>1, <2>2, <2>3, <2>4, OperationsAssumption
<1>5. ASSUME NEW w \in 1 .. Windows PROVE Cardinality(Held(inv', w)) <= Limit
  <2>1. CASE w = now BY <1>4, <2>1
  <2>2. CASE w # now
    <3>1. Held(inv', w) \subseteq Held(inv, w)
      <4> SUFFICES ASSUME NEW j \in Held(inv', w) PROVE j \in Held(inv, w) OBVIOUS
      <4>1. j # k BY <1>0, <2>2 DEF Held
      <4> QED BY <1>0, <4>1 DEF Held
    <3>2. /\ Cardinality(Held(inv', w)) \in Nat /\ Cardinality(Held(inv, w)) \in Nat
          /\ Cardinality(Held(inv', w)) <= Cardinality(Held(inv, w))
      BY <3>1, HeldFinite
    <3>3. Cardinality(Held(inv, w)) <= Limit BY WithinLimit DEF BudgetInv
    <3> QED BY <3>2, <3>3, OperationsAssumption
  <2> QED BY <2>1, <2>2
<1>6. ASSUME NEW j \in Invocations PROVE Dated(inv'[j], now')
  <2>1. CASE j = k
    <3>1. Dated(inv[k], now) BY DEF BudgetInv
    <3>2. now \in Nat /\ r.resv \notin Booked BY <1>0, OperationsAssumption DEF Booked
    <3> QED BY <1>0, <2>1, <3>1, <3>2 DEF Dated
  <2>2. CASE j # k BY <1>0, <2>2 DEF BudgetInv
  <2> QED BY <2>1, <2>2
<1> QED BY <1>5, <1>6, WithinLimit DEF BudgetInv, Dated

SameMoney(r, s) == s.window = r.window /\ s.resv = r.resv /\ s.booked = r.booked

(* One key is written, by a write that makes no reservation. *)
LEMMA KeepOne ==
  ASSUME TypeOK, BudgetInv, NEW k \in Invocations, NEW r, Set(k, r), now' = now,
         Kept(inv[k], r, now)
  PROVE  BudgetInv'
<1>1. /\ inv'[k] = r /\ \A j \in Invocations : j # k => inv'[j] = inv[j]
  BY DEF TypeOK, Set
<1>2. \A j \in Invocations : Kept(inv[j], inv'[j], now') BY <1>1 DEF Kept
<1>3. now \in Nat BY OperationsAssumption DEF TypeOK
<1> QED BY <1>2, <1>3, KeptOK

LEMMA SameMoneyOK ==
  ASSUME TypeOK, BudgetInv, NEW k \in Invocations, NEW r, Set(k, r), now' = now,
         SameMoney(inv[k], r)
  PROVE  BudgetInv'
  BY KeepOne DEF SameMoney, Kept

(* A refusal gives a reservation back and makes none. *)
LEMMA RefusedKept ==
  ASSUME NEW r \in Invocation, NEW ev \in Evidence, NEW n
  PROVE  Kept(r, Refused(r, ev), n)
<1>1. /\ Released(r, ev) \in Invocation
      /\ Released(r, ev).window = r.window /\ Released(r, ev).booked = r.booked
      /\ Released(r, ev).resv \in {r.resv, "released"}
  BY DEF Released, Invocation
<1>2. SameMoney(Released(r, ev), Refused(r, ev))
  BY <1>1, AuditedEffect DEF Refused, SameMoney, SameWork, Terminal
<1> QED BY <1>1, <1>2 DEF Kept, SameMoney, Charged, Booked

(* Settling works on a reservation that still counts. *)
LEMMA SettleKept ==
  ASSUME TypeOK, NEW r \in Invocation, NEW o \in {"completed", "refused", "outcome_unknown"},
         CanSettle(r, o)
  PROVE  Kept(r, Settle(r, o), now)
<1>1. /\ SettleBudget(r, o) \in Invocation /\ SettleBudget(r, o).window = r.window
      /\ Kept(r, SettleBudget(r, o), now)
  <2>0. now \in 0 .. Windows BY OperationsAssumption DEF TypeOK
  <2>1. CASE ~r.ev.resv BY <2>1 DEF SettleBudget, Kept
  <2>2. CASE r.ev.resv /\ o = "completed"
    <3> DEFINE c == [r EXCEPT !.resv = "committed", !.booked = now]
               x == [r EXCEPT !.resv = "exceeded", !.booked = now]
    <3>1. /\ c \in Invocation /\ c.window = r.window /\ c.booked = now
          /\ x \in Invocation /\ x.window = r.window /\ x.booked = now
      BY <2>0 DEF Invocation
    <3>2. r.resv \in Charged BY <2>2 DEF CanSettle, Charged
    <3>3. SettleBudget(r, o) = c \/ SettleBudget(r, o) = x BY <2>2 DEF SettleBudget, Commit
    <3> HIDE DEF c, x
    <3> QED BY <3>1, <3>2, <3>3 DEF Kept
  <2>3. CASE r.ev.resv /\ o = "refused"
    <3> DEFINE c == [r EXCEPT !.resv = "released"]
    <3>1. c \in Invocation /\ c.window = r.window /\ c.booked = r.booked /\ c.resv = "released"
      BY DEF Invocation
    <3>2. SettleBudget(r, o) = c BY <2>3 DEF SettleBudget
    <3> HIDE DEF c
    <3> QED BY <3>1, <3>2 DEF Kept, Charged, Booked
  <2>4. CASE r.ev.resv /\ o = "outcome_unknown"
    <3> DEFINE c == [r EXCEPT !.resv = "outcome_unknown"]
    <3>1. c \in Invocation /\ c.window = r.window /\ c.booked = r.booked /\ c.resv = "outcome_unknown"
      BY DEF Invocation, Charged
    <3>2. SettleBudget(r, o) = c BY <2>4 DEF SettleBudget
    <3>3. r.resv \in Charged BY <2>4 DEF CanSettle, Charged
    <3> HIDE DEF c
    <3> QED BY <3>1, <3>2, <3>3 DEF Kept, Booked
  <2> QED BY <2>1, <2>2, <2>3, <2>4
<1>2. SameMoney(SettleBudget(r, o), Settle(r, o))
  BY <1>1, AuditedEffect DEF Settle, SameMoney, SameWork, Terminal
<1> QED BY <1>1, <1>2 DEF Kept, SameMoney

(* The statements of invoke. *)
LEMMA ContinueBudget ==
  ASSUME TypeOK, BudgetInv, NEW k \in Invocations, Continue(k)
  PROVE  BudgetInv'
<1>00. now' = now
  BY DEF Continue, Steady, RecoverAudit, RecoverLedger, CompleteRefusal,
     GovernanceThrows, EvaluationFails, Evaluate, RefuseBeforeEffects, Reserve, BudgetExceeded,
     Allow, RequestsFail, RequestApprovals, StillPending, NotApproved, VerifyFails, Consume,
     RecordRefused, RecordAwaiting, RecordAuthorized, UpdatePrepared, EnterHandler, RecordOutcome
<1>0. /\ inv[k] \in Invocation /\ step.ev \in Evidence /\ Kept(inv[k], inv[k], now)
      /\ now' = now
  BY <1>00 DEF TypeOK, Kept
<1>1. ASSUME inv' = inv PROVE BudgetInv'
  <2>1. Set(k, inv[k]) BY <1>1 DEF Set, TypeOK
  <2> QED BY <1>0, <2>1, KeepOne
<1>2. ASSUME NEW r \in Invocation, Set(k, Refused(r, step.ev)), SameMoney(inv[k], r) PROVE BudgetInv'
  <2>1. Kept(inv[k], Refused(r, step.ev), now) BY <1>0, <1>2, RefusedKept DEF Kept, SameMoney
  <2> QED BY <1>0, <1>2, <2>1, KeepOne
<1>3. ASSUME NEW r, Set(k, r), SameMoney(inv[k], r) PROVE BudgetInv'
  BY <1>0, <1>3, SameMoneyOK
<1>4. ASSUME NEW o \in Terminal, Set(k, Audited(inv[k], o)) PROVE BudgetInv'
  BY <1>0, <1>3, <1>4, AuditedEffect DEF SameMoney, SameWork
<1>5. CASE RecoverAudit(k) \/ RecoverLedger(k) \/ CompleteRefusal(k) \/ GovernanceThrows(k)
  <2>1. /\ SameMoney(inv[k], [inv[k] EXCEPT !.audit = "outcome_unknown"])
        /\ SameMoney(inv[k], [inv[k] EXCEPT !.ledger = "outcome_unknown", !.owner = 0])
        /\ SameMoney(inv[k], [inv[k] EXCEPT !.ledger = "refused", !.owner = 0])
        /\ SameMoney(inv[k], inv[k])
    BY <1>0 DEF SameMoney, Invocation
  <2>2. CASE RecoverAudit(k) BY <1>3, <2>1, <2>2 DEF RecoverAudit
  <2>3. CASE RecoverLedger(k) BY <1>3, <2>1, <2>3 DEF RecoverLedger
  <2>4. CASE CompleteRefusal(k) BY <1>3, <2>1, <2>4 DEF CompleteRefusal
  <2>5. CASE GovernanceThrows(k) BY <1>3, <2>1, <2>5 DEF GovernanceThrows
  <2> QED BY <1>5, <2>2, <2>3, <2>4, <2>5
<1>6. CASE EvaluationFails(k) BY <1>0, <1>2, <1>6 DEF EvaluationFails, SameMoney
<1>7. ASSUME NEW d, NEW l, Evaluate(k, d, l) PROVE BudgetInv'
  <2>1. SameMoney(inv[k], [inv[k] EXCEPT !.policy = d, !.limited = l])
    BY <1>0 DEF SameMoney, Invocation
  <2> QED BY <1>1, <1>3, <1>7, <2>1 DEF Evaluate
<1>8. CASE RefuseBeforeEffects(k) \/ BudgetExceeded(k)
  BY <1>4, <1>8 DEF RefuseBeforeEffects, BudgetExceeded, Terminal
<1>9. CASE Reserve(k)
  <2> DEFINE r == [inv[k] EXCEPT !.resv = "reserved", !.window = now]
  <2>0. now \in 0 .. Windows BY OperationsAssumption DEF TypeOK
  <2>1. r \in Invocation /\ r.window = now /\ r.booked = inv[k].booked /\ r.resv = "reserved"
    BY <1>0, <2>0 DEF Invocation, Charged
  <2>2. (Fits(now) /\ Set(k, r)) \/ inv' = inv BY <1>9 DEF Reserve
  <2> HIDE DEF r
  <2> QED BY <1>0, <1>1, <2>1, <2>2, ReserveFits
<1>10. CASE Allow(k)
  BY <1>0, <1>3, <1>10, BeginAuditEffect DEF Allow, SameMoney, SameWork
<1>11. CASE RequestsFail(k) BY <1>0, <1>2, <1>11 DEF RequestsFail, SameMoney
<1>12. ASSUME NEW S, RequestApprovals(k, S) PROVE BudgetInv'
  <2>1. PICK f : Set(k, [BeginAudit(inv[k]) EXCEPT !.req = f])
    BY <1>12 DEF RequestApprovals
  <2>2. SameMoney(inv[k], [BeginAudit(inv[k]) EXCEPT !.req = f])
    BY <1>0, BeginAuditEffect DEF SameMoney, SameWork, Invocation
  <2> QED BY <1>3, <2>1, <2>2
<1>13. CASE StillPending(k) BY <1>1, <1>13 DEF StillPending
<1>14. CASE NotApproved(k) BY <1>0, <1>2, <1>14 DEF NotApproved, SameMoney
<1>15. ASSUME NEW S, VerifyFails(k, S) PROVE BudgetInv'
  <2> DEFINE r == [inv[k] EXCEPT !.rcpt = [q \in Requirements |->
                     IF q \in S THEN "revoked" ELSE inv[k].rcpt[q]]]
  <2>1. Set(k, Refused(r, step.ev)) BY <1>15 DEF VerifyFails
  <2>2. r \in Invocation /\ SameMoney(inv[k], r) BY <1>0 DEF Invocation, SameMoney
  <2> QED BY <1>2, <2>1, <2>2
<1>16. CASE Consume(k)
  <2>1. SameMoney(inv[k], [inv[k] EXCEPT !.used = Requirements])
    BY <1>0 DEF SameMoney, Invocation
  <2> QED BY <1>3, <1>16, <2>1 DEF Consume
<1>17. ASSUME NEW pc, NEW x, NEW o, UpdatePrepared(k, pc, x, o) PROVE BudgetInv'
  <2>1. SameMoney(inv[k], [inv[k] EXCEPT !.ledger = x, !.owner = o, !.ev = step.ev])
    BY <1>0 DEF SameMoney, Invocation
  <2> QED BY <1>3, <1>17, <2>1 DEF UpdatePrepared
<1>19. CASE RecordOutcome(k)
  <2>1. SameMoney(inv[k], [inv[k] EXCEPT !.ledger = step.out, !.owner = 0])
    BY <1>0 DEF SameMoney, Invocation
  <2> QED BY <1>3, <1>19, <2>1 DEF RecordOutcome
<1>18. CASE EnterHandler(k)
  <2> DEFINE r == [inv[k] EXCEPT !.entered = @ + 1, !.did = "maybe"]
  <2>1. Set(k, r) BY <1>18 DEF EnterHandler
  <2>2. SameMoney(inv[k], r) BY <1>0 DEF SameMoney, Invocation
  <2> QED BY <1>3, <2>1, <2>2
<1> QED
  BY <1>5, <1>6, <1>7, <1>8, <1>9, <1>10, <1>11, <1>12, <1>13, <1>14, <1>15, <1>16, <1>17, <1>18,
     <1>19
  DEF Continue, RecordRefused, RecordAwaiting, RecordAuthorized

(* Every step keeps the reservations of a window within its limit. *)
LEMMA BudgetStep == TypeOK /\ BudgetInv /\ [Next]_vars => BudgetInv'
<1> SUFFICES ASSUME TypeOK, BudgetInv, [Next]_vars PROVE BudgetInv' OBVIOUS
<1>0. \A k \in Invocations : inv[k] \in Invocation BY DEF TypeOK
<1>1. ASSUME NEW k \in Invocations, NEW r, Set(k, r), SameMoney(inv[k], r), now' = now
      PROVE  BudgetInv'
  BY <1>1, SameMoneyOK
<1>2. ASSUME NEW k \in Invocations, NEW r, Set(k, r), Kept(inv[k], r, now), now' = now
      PROVE  BudgetInv'
  BY <1>2, KeepOne
<1>3. ASSUME NEW k \in Invocations, Begin(k) PROVE BudgetInv'
  <2>1. /\ SameMoney(inv[k], [inv[k] EXCEPT !.ledger = "running", !.owner = epoch])
        /\ SameMoney(inv[k], inv[k])
    BY <1>0 DEF SameMoney, Invocation
  <2> QED BY <1>1, <1>3, <2>1 DEF Begin, Steady
<1>4. ASSUME NEW k \in Invocations, RecoverBudget(k) PROVE BudgetInv'
  <2> DEFINE r == [inv[k] EXCEPT !.resv = "outcome_unknown"]
  <2>1. r.window = inv[k].window /\ r.booked = inv[k].booked /\ r.resv = "outcome_unknown"
    BY <1>0 DEF Invocation
  <2>2. inv[k].resv = "reserved" => Kept(inv[k], r, now) BY <2>1 DEF Kept, Charged, Booked
  <2>3. Kept(inv[k], inv[k], now) BY DEF Kept
  <2>4. Set(k, IF inv[k].ev.resv /\ inv[k].resv = "reserved" THEN r ELSE inv[k]) /\ now' = now
    BY <1>4 DEF RecoverBudget, Steady
  <2> HIDE DEF r
  <2> QED BY <1>2, <2>2, <2>3, <2>4
<1>5. ASSUME NEW k \in Invocations, NEW o \in {"completed", "refused", "outcome_unknown"},
             HandlerEnds(k, o)
      PROVE  BudgetInv'
  <2> DEFINE r == [inv[k] EXCEPT !.did = IF o = "refused" THEN "refused" ELSE @]
  <2>1. r \in Invocation /\ SameMoney(inv[k], r) /\ r.ev = inv[k].ev
    BY <1>0 DEF Invocation, SameMoney
  <2>2. CanSettle(r, o) /\ Set(k, Settle(r, o)) /\ now' = now
    <3>1. CanSettle(inv[k], o) /\ Set(k, Settle(r, o)) /\ now' = now BY <1>5 DEF HandlerEnds
    <3> HIDE DEF r
    <3> QED BY <2>1, <3>1 DEF CanSettle, SameMoney
  <2> HIDE DEF r
  <2>3. Kept(r, Settle(r, o), now) BY <2>1, <2>2, SettleKept
  <2> QED BY <1>2, <2>1, <2>2, <2>3 DEF Kept, SameMoney
<1>6. ASSUME NEW k \in Invocations, NEW o \in {"completed", "refused", "outcome_unknown"},
             NEW again \in BOOLEAN, SettleThrows(k, o, again)
      PROVE  BudgetInv'
  <2>1. /\ now' = now
        /\ \/ Set(k, [inv[k] EXCEPT !.did = "refused"])
           \/ Set(k, inv[k])
           \/ CanSettle(inv[k], "outcome_unknown") /\ Set(k, Settle(inv[k], "outcome_unknown"))
    BY <1>6 DEF SettleThrows
  <2>2. SameMoney(inv[k], [inv[k] EXCEPT !.did = "refused"]) /\ SameMoney(inv[k], inv[k])
    BY <1>0 DEF SameMoney, Invocation
  <2>3. CanSettle(inv[k], "outcome_unknown") => Kept(inv[k], Settle(inv[k], "outcome_unknown"), now)
    BY <1>0, SettleKept
  <2> QED BY <1>1, <1>2, <2>1, <2>2, <2>3
<1>7. ASSUME NEW k \in Invocations, People(k) PROVE BudgetInv'
  <2>1. ASSUME NEW q, NEW st, DecideRequest(k, q, st) PROVE BudgetInv'
    <3> DEFINE r == [inv[k] EXCEPT !.req[q] = st,
                                   !.rcpt[q] = IF st = "approved" THEN "issued" ELSE @]
    <3>1. Set(k, r) /\ now' = now BY <2>1 DEF DecideRequest, Steady
    <3>2. SameMoney(inv[k], r) BY <1>0 DEF SameMoney, Invocation
    <3> QED BY <1>1, <3>1, <3>2
  <2>2. ASSUME NEW q, RevokeReceipt(k, q) PROVE BudgetInv'
    <3>1. SameMoney(inv[k], [inv[k] EXCEPT !.rcpt[q] = "revoked"])
      BY <1>0 DEF SameMoney, Invocation
    <3> QED BY <1>1, <2>2, <3>1 DEF RevokeReceipt, Steady
  <2>3. CASE ReconcileNoEffect(k)
    <3> DEFINE r == [inv[k] EXCEPT !.resv = "released", !.cleared = TRUE]
    <3>1. Set(k, r) /\ now' = now BY <2>3 DEF ReconcileNoEffect, Steady
    <3>2. r.window = inv[k].window /\ r.booked = inv[k].booked /\ r.resv = "released"
      BY <1>0 DEF Invocation
    <3>3. Kept(inv[k], r, now) BY <3>2 DEF Kept, Charged, Booked
    <3> QED BY <1>2, <3>1, <3>3
  <2> QED BY <1>7, <2>1, <2>2, <2>3 DEF People
<1>8. ASSUME inv' = inv, now' \in Nat, now <= now' PROVE BudgetInv'
  <2>1. \A k \in Invocations : Kept(inv[k], inv'[k], now') BY <1>8 DEF Kept
  <2> QED BY <1>8, <2>1, KeptOK
<1>9. now \in Nat BY OperationsAssumption DEF TypeOK
<1>10. CASE NextWindow BY <1>8, <1>9, <1>10 DEF NextWindow
<1>11. CASE BusDies \/ UNCHANGED vars BY <1>8, <1>9, <1>11 DEF BusDies, vars
<1> QED
  BY <1>3, <1>4, <1>5, <1>6, <1>7, <1>10, <1>11, ContinueBudget DEF Next, HandlerStep

-----------------------------------------------------------------------------
(* The theorems.                                                             *)

(* The invariant of invoke holds of every behaviour. *)
THEOREM OperationsInvariant == Spec => []OperationsInv
<1>1. Init => OperationsInv BY InitOK
<1>2. OperationsInv /\ [Next]_vars => OperationsInv' BY NextOK
<1> QED BY <1>1, <1>2, PTL DEF Spec

(* Receipts, reservations, audit records and approvals are always well typed. *)
THEOREM OperationsTyped == Spec => []TypeOK
<1>1. OperationsInv => TypeOK BY DEF OperationsInv
<1> QED BY <1>1, OperationsInvariant, PTL

(* However often a client retries, people decide and the Bus dies between two *)
(* statements, invoke calls the handler of an idempotency key at most once.   *)
THEOREM HandlerEnteredOnce == Spec => []AppliedOnce
<1>1. OperationsInv => AppliedOnce BY DEF OperationsInv, KeyOK, AppliedOnce
<1> QED BY <1>1, OperationsInvariant, PTL

(* A handler whose Policy asks for approval only runs on approvals that       *)
(* prepareApprovals consumed, and they are consumed all together.             *)
THEOREM EffectsOnConsumedApprovals == Spec => []ConsumedBeforeEffect
<1>1. OperationsInv => ConsumedBeforeEffect
  BY DEF OperationsInv, KeyOK, OnApproval, ConsumedBeforeEffect
<1> QED BY <1>1, OperationsInvariant, PTL

(* The second invariant, for a Bus that does not die between a refusal and    *)
(* the update of the receipt.                                                 *)
THEOREM ChargesInvariant == Careful /\ Spec => []ChargesInv
<1> SUFFICES ASSUME Careful PROVE Spec => []ChargesInv OBVIOUS
<1>1. Init => OperationsInv /\ ChargesInv BY InitOK
<1>2. OperationsInv /\ ChargesInv /\ [Next]_vars => OperationsInv' /\ ChargesInv'
  BY NextOK
<1> QED BY <1>1, <1>2, PTL DEF Spec

(* Under the same condition settle, recover and reconcileNoEffect never lose  *)
(* the charge of work that may have had effects.                              *)
THEOREM UncertainWorkCharged == Careful /\ Spec => []UncertainStaysCharged
<1>1. ChargesInv => UncertainStaysCharged BY DEF ChargesInv, Charges, UncertainStaysCharged
<1> QED BY <1>1, ChargesInvariant, PTL

(* Under the same condition the receipt, the audit record and the Budget      *)
(* never contradict one another or the handler, wherever else the Bus dies.   *)
THEOREM ReceiptsAgree == Careful /\ Spec => []RecordsAgree
<1>1. ChargesInv => RecordsAgree BY DEF ChargesInv, Charges, RecordsAgree
<1> QED BY <1>1, ChargesInvariant, PTL

(* Concurrent, uncertain and lost work cannot oversubscribe a limit: whatever *)
(* crashes, retries and changes of window happen, the reservations reserve    *)
(* made in one window never pass the Budget's maximum.                        *)
THEOREM ReservationsWithinLimit == Spec => []ReservedWithinLimit
<1>1. Init => BudgetInv
  <2> SUFFICES ASSUME Init PROVE BudgetInv OBVIOUS
  <2>1. now = 1 /\ \A k \in Invocations : inv[k] = NoInvocation BY DEF Init
  <2>2. \A k \in Invocations : Dated(inv[k], now) BY <2>1 DEF NoInvocation, Dated, Booked
  <2>3. \A w \in 1 .. Windows : Held(inv, w) = {}
    BY <2>1 DEF Held, NoInvocation, Charged, Booked
  <2>4. \A w \in 1 .. Windows : Cardinality(Held(inv, w)) = 0 BY <2>3, FS_EmptySet
  <2>5. ReservedWithinLimit BY <2>4, WithinLimit, OperationsAssumption
  <2> QED BY <2>2, <2>5 DEF BudgetInv
<1>2. BudgetInv => ReservedWithinLimit BY DEF BudgetInv
<1> QED BY <1>1, <1>2, BudgetStep, OperationsTyped, PTL DEF Spec

=============================================================================
