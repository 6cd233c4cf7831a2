-------------------------------- MODULE Startup --------------------------------
(* Starting and stopping Floe from the command line (floe-cli): the start lock *)
(* of a home (start-lock.ts), the records of the services and their processes  *)
(* (process-manager.ts, service-ownership.ts), the stages the services run     *)
(* from (staging.ts), start, ensure, restart and stop (startup.ts), and the    *)
(* switch to a newer copy (version-switch.ts). Several commands run at once;   *)
(* `floe stop` takes no lock. A step of a command is the code between two      *)
(* awaits.                                                                     *)
EXTENDS Integers, Sequences, FiniteSets

CONSTANTS
  Runs,           \* the commands that may run at once
  Versions,       \* the copies of Floe installed, by version
  Kinds,          \* which commands are run
  Platform,       \* "win32" or "posix"
  StartOnDemand,  \* services.start_on_demand
  MaxProcs,       \* bound: service processes
  MaxBegins,      \* bound: commands
  MaxStartFaults  \* bound: deaths, hangs, reused pids, foreign programs

StartupAssumption ==
  /\ Versions \subseteq Nat \ {0} /\ StartOnDemand \in BOOLEAN
  /\ {MaxProcs, MaxBegins, MaxStartFaults} \subseteq Nat
  /\ Platform \in {"win32", "posix"}
  /\ Kinds \subseteq {"start", "ensure", "restart", "switch", "stop"}

VARIABLES
  run,        \* the commands
  sock,       \* the start address: is it taken, and by which command
  rec,        \* services.json: the pid recorded for each service, 0 for none
  proc,       \* the processes, by pid: service, version, state
  foreign,    \* another program answers at the Bus URL
  stages,     \* the versions staged under runtime/
  harmed,     \* a process that is not Floe's was killed
  begun, faults

startVars == <<run, sock, rec, proc, foreign, stages, harmed, begun, faults>>

Services == {"bus", "bridge", "identity"}

IdleRun == [pc |-> "idle", kind |-> "start", ver |-> 0, svc |-> "bus", recs |-> [v \in Services |-> 0],
            p |-> 0, on |-> "none", plan |-> "start", was |-> 0]

StartInit ==
  /\ run = [s \in Runs |-> IdleRun]
  /\ sock = [taken |-> FALSE, by |-> "none"]
  /\ rec = [v \in Services |-> 0] /\ proc = <<>> /\ foreign = FALSE
  /\ stages = {} /\ harmed = FALSE /\ begun = 0 /\ faults = 0

-----------------------------------------------------------------------------
(* Processes and who they are.                                               *)

Alive(p) == p # 0 /\ proc[p].st # "dead"
PidRunning(p) == p # 0 /\ (proc[p].st # "dead" \/ proc[p].other)
(* The process that holds the address of a service: the Bus URL or its channel. *)
Serving(v) == {p \in DOMAIN proc : proc[p].svc = v /\ proc[p].st \in {"answering", "silent"}}
Answering(v) == {p \in Serving(v) : proc[p].st = "answering"}
BusHealthy == foreign \/ Answering("bus") # {}

(* Mutant: a recorded pid that exists is taken for the service. *)
OperatingSystemConfirms_AnyPid(p) == PidRunning(p)
(* It started no later than the record and runs the recorded command. *)
OperatingSystemConfirms(p) == Alive(p)

RecordedServiceOwnership(v, p) ==
  IF ~PidRunning(p) THEN "not_ours"
  ELSE IF p \in Answering(v) THEN "answering"
  ELSE IF OperatingSystemConfirms(p) THEN "silent" ELSE "not_ours"

ClassifyRunningBus ==
  IF ~BusHealthy THEN "absent"
  ELSE IF ~foreign /\ rec["bus"] \in Answering("bus") THEN "mine" ELSE "foreign"

(* killProcessTree. taskkill /F ends a process at once; on SIGTERM the Bus     *)
(* ends, while the Bridge and the identity agent shut down first.              *)
Killed(p) ==
  IF ~Alive(p) THEN proc
  ELSE IF Platform = "win32" \/ proc[p].svc = "bus" THEN [proc EXCEPT ![p].st = "dead"]
  ELSE [proc EXCEPT ![p].term = TRUE]

Kill(p) ==
  /\ proc' = Killed(p)
  /\ harmed' = (harmed \/ (~Alive(p) /\ PidRunning(p)))

-----------------------------------------------------------------------------
(* The start lock.                                                           *)

Holding(s) == run[s].pc \notin {"idle", "hold", "wait", "stale", "waiting"} /\ run[s].kind # "stop"

Move(s, r) == run' = [run EXCEPT ![s] = r]
Go(s, pc) == Move(s, [run[s] EXCEPT !.pc = pc])

(* The holder lets go: its connections close and the waiting starts go on. *)
Freed(s, r) ==
  [x \in Runs |-> IF x = s THEN r
                  ELSE IF run[x].pc = "waiting" /\ run[x].on = s THEN [run[x] EXCEPT !.pc = "hold"]
                  ELSE run[x]]

(* server.close: a Unix socket is removed by its name, whoever made it *)
Release(s) ==
  /\ run' = Freed(s, IdleRun)
  /\ sock' = [taken |-> FALSE, by |-> "none"]

(* switchToThisVersion looks before it takes the lock *)
MaySwitch(ver) ==
  /\ ~foreign /\ ClassifyRunningBus = "mine"
  /\ ver > proc[rec["bus"]].ver

Begin(s, kind, ver) ==
  /\ run[s].pc = "idle" /\ begun < MaxBegins
  /\ kind = "switch" => MaySwitch(ver)
  /\ Move(s, [IdleRun EXCEPT !.pc = IF kind = "stop" THEN "stop" ELSE "hold",
                             !.kind = kind, !.ver = ver, !.svc = "identity"])
  /\ begun' = begun + 1
  /\ UNCHANGED <<sock, rec, proc, foreign, stages, harmed, faults>>

FirstStep(kind) ==
  CASE kind = "start" -> "classify" [] kind = "ensure" -> "plan"
    [] kind = "restart" -> "stop" [] kind = "switch" -> "ask"

Hold(s) ==
  /\ run[s].pc = "hold"
  /\ IF sock.taken THEN Go(s, "wait") /\ UNCHANGED sock
     ELSE Go(s, FirstStep(run[s].kind)) /\ sock' = [taken |-> TRUE, by |-> s]
  /\ UNCHANGED <<rec, proc, foreign, stages, harmed, begun, faults>>

(* A connection to the holder, or none: the address is free or, on Unix, a file *)
(* of a start that died.                                                        *)
WaitForRelease(s) ==
  /\ run[s].pc = "wait"
  /\ \/ ~sock.taken /\ Go(s, "hold")
     \/ sock.taken /\ Holding(sock.by) /\ Move(s, [run[s] EXCEPT !.pc = "waiting", !.on = sock.by])
     \/ sock.taken /\ ~Holding(sock.by) /\ Go(s, "stale")
  /\ UNCHANGED <<sock, rec, proc, foreign, stages, harmed, begun, faults>>

UnlinkStale(s) ==
  /\ run[s].pc = "stale"
  /\ sock' = [taken |-> FALSE, by |-> "none"]
  /\ Go(s, "hold")
  /\ UNCHANGED <<rec, proc, foreign, stages, harmed, begun, faults>>

(* StartInProgressError *)
WaitTimesOut(s) ==
  /\ run[s].pc = "waiting"
  /\ Move(s, IdleRun)
  /\ UNCHANGED <<sock, rec, proc, foreign, stages, harmed, begun, faults>>

Ends(s) == Release(s) /\ UNCHANGED <<rec, proc, foreign, stages, harmed, begun, faults>>

-----------------------------------------------------------------------------
(* Stopping: the identity agent, the Bridge, the Bus.                        *)

AfterStop(s, r) ==
  CASE r.svc = "identity" -> [r EXCEPT !.svc = "bridge", !.pc = "stop"]
    [] r.svc = "bridge" -> [r EXCEPT !.svc = "bus", !.pc = "stop"]
    [] r.svc = "bus" -> IF r.kind = "stop" THEN IdleRun ELSE [r EXCEPT !.pc = "classify"]

(* stopService up to its await: the record as it is now *)
StopReads(s) ==
  /\ run[s].pc = "stop"
  /\ LET p == rec[run[s].svc]
     IN  Move(s, IF p = 0 THEN AfterStop(s, run[s]) ELSE [run[s] EXCEPT !.pc = "stopping", !.p = p])
  /\ UNCHANGED <<sock, rec, proc, foreign, stages, harmed, begun, faults>>

(* and after it: what is provably Floe's is killed, the current record goes *)
StopService(s) ==
  LET r == run[s]
      mine == RecordedServiceOwnership(r.svc, r.p) # "not_ours"
  IN  /\ r.pc = "stopping"
      /\ IF mine THEN Kill(r.p) ELSE UNCHANGED <<proc, harmed>>
      /\ rec' = [rec EXCEPT ![r.svc] = 0]
      /\ Move(s, AfterStop(s, [r EXCEPT !.was = IF r.svc = "bus" /\ mine THEN proc[r.p].ver ELSE @]))
      /\ UNCHANGED <<sock, foreign, stages, begun, faults>>

(* beforeStop of a switch: running turns decline it *)
AskToSwitch(s) ==
  /\ run[s].pc = "ask"
  /\ \/ Ends(s)
     \/ Go(s, "stop") /\ UNCHANGED <<sock, rec, proc, foreign, stages, harmed, begun, faults>>

-----------------------------------------------------------------------------
(* Starting.                                                                 *)

(* ensureSubstrateHeld and planSubstrateStart *)
PlanStart(s) ==
  /\ run[s].pc = "plan"
  /\ \/ /\ ~BusHealthy /\ StartOnDemand
        /\ Go(s, "classify") /\ UNCHANGED <<sock, rec, proc, foreign, stages, harmed, begun, faults>>
     \/ /\ BusHealthy /\ StartOnDemand
        /\ Move(s, [run[s] EXCEPT !.pc = "probe", !.plan = "connect", !.svc = "identity"])
        /\ UNCHANGED <<sock, rec, proc, foreign, stages, harmed, begun, faults>>
     \/ ~StartOnDemand /\ Ends(s)

(* startAllHeld, and its check after the start *)
Classify(s) ==
  LET c == ClassifyRunningBus
      next == IF c = "mine" THEN [run[s] EXCEPT !.pc = "probe", !.svc = "identity"]
              ELSE [run[s] EXCEPT !.pc = "begin", !.svc = "bus"]
  IN  /\ run[s].pc \in {"classify", "verify"}
      /\ IF c = "mine" \/ (c = "absent" /\ run[s].pc = "classify")
         THEN Move(s, next) /\ UNCHANGED <<sock, rec, proc, foreign, stages, harmed, begun, faults>>
         ELSE Ends(s)

(* startService up to its await on the stage *)
StartReads(s) ==
  LET r == run[s]
      own == IF rec[r.svc] = 0 THEN "none" ELSE RecordedServiceOwnership(r.svc, rec[r.svc])
  IN  /\ r.pc = "begin"
      /\ IF own = "answering" THEN Move(s, [r EXCEPT !.pc = "await", !.p = rec[r.svc]])
         ELSE Move(s, [r EXCEPT !.pc = "spawn", !.recs = rec])
      /\ IF own = "silent" THEN Kill(rec[r.svc]) ELSE UNCHANGED <<proc, harmed>>
      /\ UNCHANGED <<sock, rec, foreign, stages, begun, faults>>

(* A stage stays while a recorded process runs from it; Windows keeps a stage *)
(* that any process holds.                                                    *)
PruneStages(ver, recs) ==
  {x \in stages \cup {ver} :
     \/ x = ver
     \/ \E v \in Services : PidRunning(recs[v]) /\ proc[recs[v]].ver = x
     \/ Platform = "win32" /\ \E p \in DOMAIN proc : Alive(p) /\ proc[p].ver = x}

(* startService after it: the records it read are written back with the new one *)
StartService(s) ==
  LET r == run[s]
      p == Len(proc) + 1
  IN  /\ r.pc = "spawn" /\ p <= MaxProcs
      /\ stages' = PruneStages(r.ver, r.recs)
      /\ proc' = Append(proc, [svc |-> r.svc, ver |-> r.ver, st |-> "starting", term |-> FALSE, other |-> FALSE])
      /\ rec' = [r.recs EXCEPT ![r.svc] = p]
      /\ Move(s, [r EXCEPT !.pc = "await", !.p = p])
      /\ UNCHANGED <<sock, foreign, harmed, begun, faults>>

(* What follows a service that answers: the Bus is verified; a client that only *)
(* connected gives no Bridge to a Bus of another install.                        *)
AfterAnswer(s) ==
  LET r == run[s]
  IN  CASE r.svc = "bus" -> Go(s, "verify") /\ UNCHANGED sock
        [] r.svc = "identity" /\ (r.plan = "start" \/ ClassifyRunningBus = "mine") ->
             Move(s, [r EXCEPT !.pc = "probe", !.svc = "bridge"]) /\ UNCHANGED sock
        [] OTHER -> Release(s)

Answers(v) == IF v = "bus" THEN BusHealthy ELSE Answering(v) # {}

(* ensureIdentityAgent and ensureBridge: connect first *)
Probe(s) ==
  /\ run[s].pc = "probe"
  /\ IF Answers(run[s].svc) THEN AfterAnswer(s) ELSE Go(s, "begin") /\ UNCHANGED sock
  /\ UNCHANGED <<rec, proc, foreign, stages, harmed, begun, faults>>

(* waitForBusHealth and waitUntilAnswering *)
Awaits(s) ==
  /\ run[s].pc = "await" /\ Answers(run[s].svc)
  /\ AfterAnswer(s)
  /\ UNCHANGED <<rec, proc, foreign, stages, harmed, begun, faults>>

(* The process ended first, or the time ran out. *)
AwaitFails(s) == run[s].pc = "await" /\ ~Answers(run[s].svc) /\ Ends(s)

(* The native broker, the stage or the spawn fails. *)
StartThrows(s) == run[s].pc \in {"begin", "spawn"} /\ Ends(s)

-----------------------------------------------------------------------------
(* The machine.                                                              *)

(* A service that starts takes its address, or ends when it is taken. *)
Serve(p) ==
  LET taken == Serving(proc[p].svc) # {} \/ (proc[p].svc = "bus" /\ foreign)
  IN  /\ proc[p].st = "starting"
      /\ proc' = [proc EXCEPT ![p].st = IF taken \/ proc[p].term THEN "dead" ELSE "answering"]
      /\ UNCHANGED <<run, sock, rec, foreign, stages, harmed, begun, faults>>

ShutsDown(p) ==
  /\ Alive(p) /\ proc[p].term
  /\ proc' = [proc EXCEPT ![p].st = "dead"]
  /\ UNCHANGED <<run, sock, rec, foreign, stages, harmed, begun, faults>>

Fault == faults < MaxStartFaults /\ faults' = faults + 1 /\ UNCHANGED <<rec, stages, harmed, begun>>

ServiceHangs(p) ==
  /\ Fault /\ proc[p].st = "answering"
  /\ proc' = [proc EXCEPT ![p].st = "silent"]
  /\ UNCHANGED <<run, sock, foreign>>

ServiceDies(p) ==
  /\ Fault /\ Alive(p)
  /\ proc' = [proc EXCEPT ![p].st = "dead"]
  /\ UNCHANGED <<run, sock, foreign>>

PidReused(p) ==
  /\ Fault /\ ~Alive(p) /\ ~proc[p].other
  /\ proc' = [proc EXCEPT ![p].other = TRUE]
  /\ UNCHANGED <<run, sock, foreign>>

ForeignServes ==
  /\ Fault /\ Serving("bus") = {} /\ ~foreign
  /\ foreign' = TRUE
  /\ UNCHANGED <<run, sock, proc>>

(* A command dies; only a Unix socket file outlives it. *)
RunDies(s) ==
  /\ Fault /\ run[s].pc # "idle"
  /\ run' = Freed(s, IdleRun)
  /\ sock' = IF sock.by = s /\ Platform = "win32" THEN [taken |-> FALSE, by |-> "none"] ELSE sock
  /\ UNCHANGED <<proc, foreign>>

LockNext == \E s \in Runs : Hold(s) \/ WaitForRelease(s) \/ UnlinkStale(s)
HeldNext ==
  \E s \in Runs : \/ StopReads(s) \/ StopService(s) \/ AskToSwitch(s) \/ PlanStart(s) \/ Classify(s)
                  \/ StartReads(s) \/ StartService(s) \/ Probe(s) \/ Awaits(s) \/ AwaitFails(s) \/ StartThrows(s)
StartNext ==
  \/ \E s \in Runs, k \in Kinds, v \in Versions : Begin(s, k, v)
  \/ LockNext \/ HeldNext
  \/ \E s \in Runs : WaitTimesOut(s) \/ RunDies(s)
  \/ \E p \in DOMAIN proc : Serve(p) \/ ShutsDown(p) \/ ServiceHangs(p) \/ ServiceDies(p) \/ PidReused(p)
  \/ ForeignServes

StartSpec == StartInit /\ [][StartNext]_startVars
(* A command that is not waiting for an answer goes on: its own time limits    *)
(* end every wait for a service, so the wait of another start needs none.      *)
StartFairness == WF_startVars(LockNext) /\ WF_startVars(HeldNext)
FairStartSpec == StartSpec /\ StartFairness

-----------------------------------------------------------------------------
(* Properties.                                                               *)

(* Starts of one home take turns (start-lock.ts): no two hold the lock.      *)
TakeTurns == \A s, t \in Runs : Holding(s) /\ Holding(t) => s = t

(* Floe ends only processes it started, however pids are reused between the   *)
(* record and the stop (service-ownership.ts).                                *)
OnlyFloeStopped == ~harmed

(* The stage of a recorded service that answers is never removed, whichever    *)
(* versions started the others (pruneStages).                                  *)
StageKept == \A v \in Services : rec[v] \in Answering(v) => proc[rec[v]].ver \in stages

(* A start that waits for another one goes on without its time limit.          *)
WaitersContinue == \A s \in Runs : run[s].pc = "waiting" ~> run[s].pc # "waiting"

(* A switch never goes back a version: the Bus it stopped was older.           *)
NeverDowngrades == \A s \in Runs : run[s].kind = "switch" => run[s].was <= run[s].ver

(* A start that ends after its Bridge answered leaves a Bridge that was not    *)
(* told to stop.                                                               *)
StartedHasBridge ==
  [][\A s \in Runs :
       Holding(s) /\ run[s].svc = "bridge" /\ run[s].pc \in {"probe", "await"} /\ run'[s] = IdleRun
         /\ Answering("bridge") # {}
       => \E p \in Answering("bridge") : ~proc[p].term]_startVars

(* What answers at the Bus URL and was started here is recorded when no       *)
(* command runs, so that the next start can use it.                           *)
ServingIsRecorded ==
  (\A s \in Runs : run[s].pc = "idle") => \A p \in Answering("bus") : rec["bus"] = p
=============================================================================
