-------------------------------- MODULE Pulses --------------------------------
(* Pulses, the scheduled events of a Workspace: their records (store.ts), the *)
(* routes that change them and firePulse (server.ts), the scheduler with its  *)
(* single timer (pulse-scheduler.ts), and the Bridge, which declares the      *)
(* Pulses of floe.yaml again at every attachment (daemon.ts). The Bus may die *)
(* at any time and starts the scheduler from the records.                     *)
EXTENDS Integers, Sequences, Functions, SequencesExt

CONSTANTS
  PulseIds,
  MaxClock,   \* bound: the clock
  MaxDelay,   \* the longest delay setTimeout honours; a longer one fires at once
  MaxPulseCrashes \* bound: crashes of the Bus

PulseAssumption == {MaxClock, MaxDelay, MaxPulseCrashes} \subseteq Nat

VARIABLES
  pulse,      \* the records: status, kind, next (0: null), at of a one-off, subs
  sched,      \* entries: what waits, in order; armed: the pulse of the timer
  clock,
  held,       \* the restored Workspace is held
  wish,       \* what the operator last asked of each pulse
  starved,    \* pulses whose firing was dropped
  early,      \* pulses that fired before they were due
  pulseCrashes

pulseVars == <<pulse, sched, clock, held, wish, starved, early, pulseCrashes>>

NoPulse == [st |-> "none", kind |-> "once", at |-> 0, next |-> 0, subs |-> FALSE]
NoTimer == [p |-> "none", at |-> 0, set |-> 0]

PulseInit ==
  /\ pulse = [p \in PulseIds |-> NoPulse]
  /\ sched = [entries |-> <<>>, armed |-> NoTimer]
  /\ clock = 0 /\ held \in BOOLEAN /\ wish = [p \in PulseIds |-> "none"]
  /\ starved = {} /\ early = {} /\ pulseCrashes = 0

-----------------------------------------------------------------------------
(* The scheduler.                                                            *)

(* scheduleNext: one timer, for the first entry *)
Rescheduled(es) ==
  [entries |-> es,
   armed |-> IF es = <<>> THEN NoTimer ELSE [p |-> es[1].p, at |-> es[1].at, set |-> clock]]

Without(es, p) == SelectSeq(es, LAMBDA e : e.p # p)

(* addPulse: replaces the entry of the pulse, keeps the order of time *)
Added(es, p, at) ==
  LET rest == Without(es, p)
      k == Len(SelectSeq(rest, LAMBDA e : e.at <= at))
  IN  SubSeq(rest, 1, k) \o <<[p |-> p, at |-> at]>> \o SubSeq(rest, k + 1, Len(rest))

AddPulse(s, p, at) == Rescheduled(Added(s.entries, p, at))

(* Mutant: the timer keeps waiting for the pulse that was removed. *)
RemovePulse_KeepsTimer(s, p) == [s EXCEPT !.entries = Without(s.entries, p)]
RemovePulse(s, p) == Rescheduled(Without(s.entries, p))

-----------------------------------------------------------------------------
(* The store and its routes.                                                 *)

CronNext == clock + 1
(* calculateNextFireAt *)
NextFire(kind, at) == IF kind = "cron" THEN CronNext ELSE at

(* createPulse, an upsert: only a cancelled pulse keeps its status. *)
Created(p, kind, at, subs) ==
  [st |-> IF pulse[p].st = "cancelled" THEN "cancelled" ELSE "active",
   kind |-> kind, at |-> at, next |-> NextFire(kind, at), subs |-> pulse[p].subs \/ subs]

Save(p, rec) ==
  /\ pulse' = [pulse EXCEPT ![p] = rec]
  /\ starved' = IF rec.st = "active" /\ rec.next # 0 THEN starved \ {p} ELSE starved
  /\ UNCHANGED <<clock, held, early, pulseCrashes>>

(* POST /v1/pulses: recorded, then scheduled when active *)
Post(p, kind, at, subs) ==
  /\ ~held
  /\ Save(p, Created(p, kind, at, subs))
  /\ sched' = IF pulse[p].st = "cancelled" THEN sched ELSE AddPulse(sched, p, NextFire(kind, at))

CreatePulse(p, kind, at, subs) ==
  /\ pulse[p].st = "none" /\ Post(p, kind, at, subs)
  /\ wish' = [wish EXCEPT ![p] = "run"]

(* attachWorkspace declares the Pulses of floe.yaml again. *)
Attach(p) ==
  /\ pulse[p].st # "none" /\ Post(p, pulse[p].kind, pulse[p].at, FALSE) /\ UNCHANGED wish

(* pause and cancel: unscheduled, then the status, whatever it was *)
PausePulse(p) ==
  /\ pulse[p].st # "none" /\ Save(p, [pulse[p] EXCEPT !.st = "paused"])
  /\ sched' = RemovePulse(sched, p) /\ wish' = [wish EXCEPT ![p] = "pause"]
CancelPulse(p) ==
  /\ pulse[p].st # "none" /\ Save(p, [pulse[p] EXCEPT !.st = "cancelled"])
  /\ sched' = RemovePulse(sched, p) /\ wish' = [wish EXCEPT ![p] = "cancel"]

(* resume: a cron pulse counts from now, a one-off keeps its time if it has one *)
ResumePulse(p) ==
  /\ pulse[p].st # "none" /\ ~held
  /\ LET next == IF pulse[p].kind = "cron" THEN CronNext ELSE pulse[p].next
     IN  /\ Save(p, [pulse[p] EXCEPT !.st = "active", !.next = next])
         /\ sched' = IF next = 0 THEN sched ELSE AddPulse(sched, p, next)
  /\ wish' = [wish EXCEPT ![p] = "run"]

(* retireScope cancels the records and leaves the scheduler alone. *)
RetirePulses(p) ==
  /\ pulse[p].st \in {"active", "paused"}
  /\ Save(p, [pulse[p] EXCEPT !.st = "cancelled", !.next = 0])
  /\ wish' = [wish EXCEPT ![p] = "cancel"] /\ UNCHANGED sched

Subscribe(p, on) ==
  /\ pulse[p].st # "none" /\ pulse[p].subs # on
  /\ pulse' = [pulse EXCEPT ![p].subs = on]
  /\ UNCHANGED <<sched, clock, held, wish, starved, early, pulseCrashes>>

-----------------------------------------------------------------------------
(* Firing, time and failure.                                                 *)

Due(t) == t.p # "none" /\ (t.at <= clock \/ t.at - t.set > MaxDelay)

(* The timer: the first entry goes, firePulse decides, and the next is armed. *)
(* firePulse: dropped unless active, free and subscribed; else the events,    *)
(* the record, and the next occurrence.                                       *)
TimerFires ==
  /\ Due(sched.armed)
  /\ LET p == sched.armed.p
         rest == SubSeq(sched.entries, 2, Len(sched.entries))
         fires == pulse[p].st = "active" /\ ~held /\ pulse[p].subs
         cron == pulse[p].kind = "cron"
     IN  /\ pulse' = IF ~fires THEN pulse
                     ELSE [pulse EXCEPT ![p].next = IF cron THEN CronNext ELSE 0,
                                        ![p].st = IF cron THEN "active" ELSE "completed"]
         /\ sched' = Rescheduled(IF fires /\ cron THEN Added(rest, p, CronNext) ELSE rest)
         /\ starved' = IF fires THEN starved ELSE starved \cup {p}
         /\ early' = IF fires /\ sched.armed.at > clock THEN early \cup {p} ELSE early
  /\ UNCHANGED <<clock, held, wish, pulseCrashes>>

PassTime == clock < MaxClock /\ clock' = clock + 1
            /\ UNCHANGED <<pulse, sched, held, wish, starved, early, pulseCrashes>>

ReleaseHold == held /\ held' = FALSE
               /\ UNCHANGED <<pulse, sched, clock, wish, starved, early, pulseCrashes>>

(* getActivePulsesForScheduler, in the order of their time *)
Hydrated ==
  FoldFunctionOnSet(LAMBDA e, es : Added(es, e.p, e.at), <<>>,
    [p \in PulseIds |-> [p |-> p, at |-> pulse[p].next]],
    {p \in PulseIds : pulse[p].st = "active" /\ pulse[p].next # 0 /\ ~held})

(* The Bus dies, also after the events of a firing and before its record: the *)
(* pulse then fires again.                                                    *)
BusRestart ==
  /\ pulseCrashes < MaxPulseCrashes /\ pulseCrashes' = pulseCrashes + 1
  /\ sched' = Rescheduled(Hydrated)
  /\ starved' = IF held THEN PulseIds ELSE {}
  /\ UNCHANGED <<pulse, clock, held, wish, early>>

PulseNext ==
  \/ \E p \in PulseIds :
       \/ \E on \in BOOLEAN : Subscribe(p, on)
       \/ \E on \in BOOLEAN : CreatePulse(p, "cron", 0, on) \/ \E at \in 1 .. MaxClock : CreatePulse(p, "once", at, on)
       \/ Attach(p) \/ PausePulse(p) \/ CancelPulse(p) \/ ResumePulse(p) \/ RetirePulses(p)
  \/ TimerFires \/ PassTime \/ ReleaseHold \/ BusRestart

PulseSpec == PulseInit /\ [][PulseNext]_pulseVars

-----------------------------------------------------------------------------
(* No pulse is lost: an active pulse with a time to fire waits in the         *)
(* scheduler for that time, and the one timer waits for the nearest, unless   *)
(* its firing was dropped for want of a subscriber or under a hold.           *)
PulseWaits ==
  /\ \A p \in PulseIds :
       pulse[p].st = "active" /\ pulse[p].next # 0 /\ p \notin starved =>
         \E i \in DOMAIN sched.entries : sched.entries[i] = [p |-> p, at |-> pulse[p].next]
  /\ sched.entries # <<>> =>
       \A i \in DOMAIN sched.entries : sched.armed.at <= sched.entries[i].at

(* A pulse the operator paused or cancelled stays so until it is resumed. *)
StopIsDurable == \A p \in PulseIds : pulse[p].st = "active" => wish[p] = "run"

(* A pulse fires at its scheduled time, never before. *)
NeverEarly == early = {}
=============================================================================
