--------------------------- MODULE SidecarManager ---------------------------
(***************************************************************************)
(* The supervisor of the tunnel sidecars: external processes, one per local  *)
(* tunnel inbound, that panel calls and a reconcile job converge to the      *)
(* inbounds' rows (internal/lucx/tunnel/manager.go, process.go,              *)
(* orphans_linux.go; web/service/tunnel.go, web/job/tunnel_job.go,           *)
(* web/runtime/local.go, web/web.go).                                        *)
(*                                                                          *)
(* A sidecar is not tied to the panel: it outlives a panel that is killed,   *)
(* and the next panel sweeps such strays before it first ensures a core.     *)
(* Ensure and Remove of one key exclude each other; the sweep of processes   *)
(* and the sweep of files take no lock.                                      *)
(*                                                                          *)
(* A config is a model value, which stands for the rendered files and        *)
(* arguments and for their fingerprint.  Every key is one multi-instance     *)
(* core's, so that one reconcile covers them all; the disabled legacy core   *)
(* that the reconcile ensures as well has no process and is only the reason  *)
(* why every reconcile sweeps.  Routing set up around the cores, probes and  *)
(* traffic are left out.                                                    *)
(***************************************************************************)
EXTENDS Integers, FiniteSets

CONSTANTS
  Keys,        \* manage keys
  Configs,     \* what an instance can be configured to
  Callers,     \* panel API calls
  Boot, Job,   \* go tunnelJob.Run() at start, and the cron's runs
  Absent,      \* no such inbound; no process; no file
  Off,         \* a disabled inbound
  MaxEdits,    \* bound: API calls
  MaxFaults    \* bound: shutdowns, crashes, failed starts, stops that time out

ASSUME ThreadsAssumption == /\ IsFiniteSet(Callers) /\ Boot # Job
                            /\ Boot \notin Callers /\ Job \notin Callers
ASSUME ConfigsAssumption == /\ Absent # Off /\ Absent \notin Keys
                            /\ Absent \notin Configs /\ Off \notin Configs
ASSUME BoundsAssumption == MaxEdits \in Nat /\ MaxFaults \in Nat

Loops == {Boot, Job}
Threads == Callers \cup Loops
Free == "free"
ASSUME FreeAssumption == Free \notin Threads

Wishes == Configs \cup {Off, Absent}
Things == Configs \cup {Absent}

VARIABLES
  wish,      \* the inbounds' rows
  panel,     \* the panel process
  swept,     \* Manager.swept
  cores,     \* Manager.cores: known, what its process runs, its fingerprint
  file,      \* a key's config and data on disk
  lock,      \* keyLocks
  th,        \* threads: step, list read, keys to visit, key locked, process in hand
  stray,     \* live processes no record knows, per key
  toStop,    \* StopAll, per key: its record is to be stopped, or is not there any more
  edits, faults,
  late,      \* history: a call or the boot run was under way when StopAll began
  escaped    \* history: a stop timed out in this run of the panel

vars == <<wish, panel, swept, cores, file, lock, th, stray, toStop, edits, faults,
          late, escaped>>

Records == [known : BOOLEAN, runs : Things, fp : Things]
Steps == [pc : {"idle", "due", "ensure", "sweep", "begun", "orphans", "remove", "removing"},
          list : [Keys -> Wishes], todo : SUBSET Keys, key : Keys \cup {Absent},
          held : Things]

Unknown == [known |-> FALSE, runs |-> Absent, fp |-> Absent]
Idle == [pc |-> "idle", list |-> [k \in Keys |-> Absent], todo |-> {}, key |-> Absent,
         held |-> Absent]

TypeOK ==
  /\ wish \in [Keys -> Wishes]
  /\ panel \in {"up", "stopping", "down"} /\ swept \in BOOLEAN
  /\ cores \in [Keys -> Records]
  /\ file \in [Keys -> Things]
  /\ lock \in [Keys -> Threads \cup {Free}]
  /\ th \in [Threads -> Steps]
  /\ stray \in [Keys -> Nat]
  /\ toStop \in [Keys -> {"none", "stop", "replaced"}]
  /\ edits \in Nat /\ faults \in Nat
  /\ late \in BOOLEAN /\ escaped \in BOOLEAN

(* A panel just started, over whatever an earlier one left behind.           *)
Init ==
  /\ wish \in [Keys -> Wishes]
  /\ panel = "up" /\ swept = FALSE
  /\ cores = [k \in Keys |-> Unknown]
  /\ file \in [Keys -> Things]
  /\ lock = [k \in Keys |-> Free]
  /\ th = [t \in Threads |-> IF t = Boot THEN [Idle EXCEPT !.pc = "due"] ELSE Idle]
  /\ stray \in [Keys -> {0, 1}]
  /\ toStop = [k \in Keys |-> "none"] /\ edits = 0 /\ faults = 0
  /\ late = FALSE /\ escaped = FALSE

Fault == faults < MaxFaults /\ faults' = faults + 1

ManagerUnchanged == UNCHANGED <<wish, panel, toStop, edits, late>>

-----------------------------------------------------------------------------
(* Ensure.                                                                  *)

\* sweepOrphans: the first to come marks it done, then kills.
MarkSwept(t) ==
  /\ th[t].pc = "ensure" /\ ~swept
  /\ swept' = TRUE
  /\ th' = [th EXCEPT ![t].pc = "sweep"]
  /\ ManagerUnchanged /\ UNCHANGED <<cores, file, lock, stray, faults, escaped>>

\* Every process of our binaries, whoever started it.
KillStrays(t) ==
  /\ th[t].pc = "sweep"
  /\ stray' = [k \in Keys |-> 0]
  /\ cores' = [k \in Keys |-> [cores[k] EXCEPT !.runs = Absent]]
  /\ th' = [u \in Threads |-> [th[u] EXCEPT !.held = Absent,
                                            !.pc = IF u = t THEN "ensure" ELSE @]]
  /\ ManagerUnchanged /\ UNCHANGED <<swept, file, lock, faults, escaped>>

\* Faulty variant: records have locks, keys have none.
UnlockedAlways(k) == TRUE

Unlocked(k) == lock[k] = Free

\* Faulty variant: a disabled instance's files are written too.
WrittenAlways(old, c) == c

\* writeConfigFile; a disabled instance keeps the files it has.
Written(old, c) == IF c = Off THEN old ELSE c

Begin(t, k) ==
  /\ th[t].pc = "ensure" /\ swept /\ k \in th[t].todo /\ Unlocked(k)
  /\ lock' = [lock EXCEPT ![k] = t]
  /\ th' = [th EXCEPT ![t].pc = "begun", ![t].key = k, ![t].todo = @ \ {k}]
  /\ cores' = [cores EXCEPT ![k].known = TRUE]
  /\ file' = [file EXCEPT ![k] = Written(@, th[t].list[k])]
  /\ ManagerUnchanged /\ UNCHANGED <<swept, stray, faults, escaped>>

Unlock(t) ==
  /\ lock' = [lock EXCEPT ![th[t].key] = Free]
  /\ th' = [th EXCEPT ![t].pc = "ensure", ![t].key = Absent]

\* Faulty variant: the fingerprint is not compared.
ConvergedNever(r, c) == FALSE

Converged(r, c) == r.runs # Absent /\ r.fp = c

\* The process in the way: one that is not to run, or not like this.
ToStop(t) ==
  LET r == cores[th[t].key] IN r.runs # Absent /\ ~Converged(r, th[t].list[th[t].key])

Halt(t) ==
  /\ th[t].pc = "begun" /\ ToStop(t)
  /\ cores' = [cores EXCEPT ![th[t].key].runs = Absent]
  /\ ManagerUnchanged /\ UNCHANGED <<swept, file, lock, th, stray, faults, escaped>>

\* The process does not die: Ensure gives up, or its start is refused.
HaltFails(t) ==
  /\ th[t].pc = "begun" /\ ToStop(t) /\ Fault
  /\ escaped' = TRUE
  /\ Unlock(t)
  /\ ManagerUnchanged /\ UNCHANGED <<swept, cores, file, stray>>

Conclude(t) ==
  /\ th[t].pc = "begun" /\ ~ToStop(t)
  /\ LET k == th[t].key
         c == th[t].list[k]
     IN cores' = [cores EXCEPT ![k] =
          IF c = Off THEN [@ EXCEPT !.fp = Absent] ELSE [@ EXCEPT !.runs = c, !.fp = c]]
  /\ Unlock(t)
  /\ ManagerUnchanged /\ UNCHANGED <<swept, file, stray, faults, escaped>>

StartFails(t) ==
  /\ th[t].pc = "begun" /\ cores[th[t].key].runs = Absent
  /\ th[t].list[th[t].key] # Off /\ Fault
  /\ Unlock(t)
  /\ ManagerUnchanged /\ UNCHANGED <<swept, cores, file, stray, escaped>>

-----------------------------------------------------------------------------
(* Remove: the record leaves the map, then its process is stopped.           *)

BeginRemove(t, k) ==
  /\ th[t].pc = "remove" /\ k \in th[t].todo /\ Unlocked(k)
  /\ IF cores[k].known
       THEN /\ lock' = [lock EXCEPT ![k] = t]
            /\ th' = [th EXCEPT ![t].pc = "removing", ![t].key = k,
                                ![t].todo = @ \ {k}, ![t].held = cores[k].runs]
            /\ cores' = [cores EXCEPT ![k] = Unknown]
            /\ toStop' = [toStop EXCEPT ![k] = IF @ = "stop" THEN "replaced" ELSE @]
       ELSE /\ th' = [th EXCEPT ![t].todo = @ \ {k}]
            /\ UNCHANGED <<lock, cores, toStop>>
  /\ UNCHANGED <<wish, panel, edits, late, swept, file, stray, faults, escaped>>

Removed(t) ==
  /\ lock' = [lock EXCEPT ![th[t].key] = Free]
  /\ file' = [file EXCEPT ![th[t].key] = Absent]
  /\ th' = [th EXCEPT ![t].pc = "remove", ![t].key = Absent, ![t].held = Absent]

EndRemove(t) ==
  /\ th[t].pc = "removing"
  /\ Removed(t)
  /\ ManagerUnchanged /\ UNCHANGED <<swept, cores, stray, faults, escaped>>

\* The process does not die; its record is gone all the same.
EndRemoveFails(t) ==
  /\ th[t].pc = "removing" /\ th[t].held # Absent /\ Fault
  /\ stray' = [stray EXCEPT ![th[t].key] = @ + 1]
  /\ escaped' = TRUE
  /\ Removed(t)
  /\ ManagerUnchanged /\ UNCHANGED <<swept, cores>>

-----------------------------------------------------------------------------
(* The reconcile: at boot and every 10 seconds.                             *)

Wanted(ws) == {k \in Keys : ws[k] # Absent}

Start(t) ==
  /\ th' = [th EXCEPT ![t] = [Idle EXCEPT !.pc = "ensure", !.list = wish,
                                          !.todo = Wanted(wish)]]
  /\ ManagerUnchanged /\ UNCHANGED <<swept, cores, file, lock, stray, faults, escaped>>

StartBoot == panel # "down" /\ th[Boot].pc = "due" /\ Start(Boot)

StartJob == panel = "up" /\ th[Job].pc = "idle" /\ Start(Job)

\* Faulty variant: keys that are not wanted are left alone.
OrphansNone(t) == {}

\* Keys of the manager that the list does not have.
Orphans(t) == {k \in Keys : cores[k].known} \ Wanted(th[t].list)

ListOrphans(t) ==
  /\ t \in Loops /\ th[t].pc = "ensure" /\ swept /\ th[t].todo = {}
  /\ th' = [th EXCEPT ![t].pc = "remove", ![t].todo = Orphans(t)]
  /\ ManagerUnchanged /\ UNCHANGED <<swept, cores, file, lock, stray, faults, escaped>>

\* sweepOrphanConfigFiles.
SweepFiles(t) ==
  /\ t \in Loops /\ th[t].pc = "remove" /\ th[t].todo = {}
  /\ file' = [k \in Keys |-> IF k \in Wanted(th[t].list) THEN file[k] ELSE Absent]
  /\ th' = [th EXCEPT ![t] = Idle]
  /\ ManagerUnchanged /\ UNCHANGED <<swept, cores, lock, stray, faults, escaped>>

-----------------------------------------------------------------------------
(* API calls: the row is committed, then the runtime is told.               *)

\* An inbound added or changed is ensured; one enabled is removed before; one
\* disabled or deleted is removed, unless it was disabled already.
Told(k, old, new) ==
  [Idle EXCEPT !.list = [Idle.list EXCEPT ![k] = new],
               !.todo = {k},
               !.pc = IF new \in Configs /\ old # Off THEN "ensure" ELSE "remove"]

Edit(t, k, new) ==
  /\ panel = "up" /\ th[t].pc = "idle" /\ edits < MaxEdits
  /\ new # wish[k] /\ (new = Off => wish[k] # Absent)
  /\ edits' = edits + 1
  /\ wish' = [wish EXCEPT ![k] = new]
  /\ th' = [th EXCEPT ![t] = IF wish[k] = Off /\ new = Absent THEN Idle
                             ELSE Told(k, wish[k], new)]
  /\ UNCHANGED <<panel, swept, cores, file, lock, stray, toStop, faults, late, escaped>>

Answer(t) ==
  /\ t \in Callers /\ th[t].pc \in {"ensure", "remove"} /\ th[t].todo = {}
  /\ LET again == {k \in Keys : th[t].pc = "remove" /\ th[t].list[k] \in Configs}
     IN th' = [th EXCEPT ![t] = IF again = {} THEN Idle
                                ELSE [@ EXCEPT !.pc = "ensure", !.todo = again]]
  /\ ManagerUnchanged /\ UNCHANGED <<swept, cores, file, lock, stray, faults, escaped>>

-----------------------------------------------------------------------------
(* Shutdown, crashes and restarts.                                          *)

\* Faulty variant: the sidecars are stopped while a run of the cron's goes on.
JobDoneAlways == TRUE

\* The cron's runs are waited for; calls only for so long; the boot run not.
JobDone == th[Job].pc = "idle"

Shutdown ==
  /\ panel = "up" /\ JobDone /\ Fault
  /\ panel' = "stopping"
  /\ toStop' = [k \in Keys |-> IF cores[k].known THEN "stop" ELSE "none"]
  /\ late' = (\E t \in Callers \cup {Boot} : th[t].pc # "idle")
  /\ UNCHANGED <<wish, swept, cores, file, lock, th, stray, edits, escaped>>

\* StopAll, one key.  A record replaced meanwhile is somebody else's.
StopOne(k) ==
  /\ toStop[k] # "none" /\ Unlocked(k)
  /\ toStop' = [toStop EXCEPT ![k] = "none"]
  /\ cores' = IF toStop[k] = "stop"
                THEN [cores EXCEPT ![k].runs = Absent, ![k].fp = Absent]
                ELSE cores
  /\ UNCHANGED <<wish, panel, swept, file, lock, th, stray, edits, faults, late, escaped>>

StopOneFails(k) ==
  /\ toStop[k] = "stop" /\ Unlocked(k) /\ cores[k].runs # Absent /\ Fault
  /\ toStop' = [toStop EXCEPT ![k] = "none"]
  /\ escaped' = TRUE
  /\ UNCHANGED <<wish, panel, swept, cores, file, lock, th, stray, edits, late>>

Running(k) ==
  (IF cores[k].runs # Absent THEN 1 ELSE 0)
    + Cardinality({t \in Threads : th[t].key = k /\ th[t].held # Absent})

Live(k) == Running(k) + stray[k]

Gone ==
  /\ panel' = "down" /\ swept' = FALSE
  /\ cores' = [k \in Keys |-> Unknown]
  /\ lock' = [k \in Keys |-> Free]
  /\ th' = [t \in Threads |-> Idle]
  /\ stray' = [k \in Keys |-> Live(k)]
  /\ toStop' = [k \in Keys |-> "none"]
  /\ UNCHANGED <<wish, file, edits, late, escaped>>

Exit == panel = "stopping" /\ (\A k \in Keys : toStop[k] = "none") /\ Gone /\ UNCHANGED faults

PanelCrashes == panel # "down" /\ Fault /\ Gone

PanelStarts ==
  /\ panel = "down"
  /\ panel' = "up" /\ late' = FALSE /\ escaped' = FALSE
  /\ th' = [th EXCEPT ![Boot].pc = "due"]
  /\ UNCHANGED <<wish, swept, cores, file, lock, stray, toStop, edits, faults>>

Crash(k) ==
  /\ cores[k].runs # Absent /\ Fault
  /\ cores' = [cores EXCEPT ![k].runs = Absent]
  /\ UNCHANGED <<wish, panel, swept, file, lock, th, stray, toStop, edits, late, escaped>>

Step(t) ==
  \/ MarkSwept(t) \/ KillStrays(t) \/ Halt(t) \/ Conclude(t) \/ EndRemove(t)
  \/ ListOrphans(t) \/ SweepFiles(t) \/ Answer(t)
  \/ \E k \in Keys : Begin(t, k) \/ BeginRemove(t, k)

Next ==
  \/ \E t \in Threads : Step(t) \/ HaltFails(t) \/ StartFails(t) \/ EndRemoveFails(t)
  \/ \E t \in Callers, k \in Keys, w \in Wishes : Edit(t, k, w)
  \/ \E k \in Keys : StopOne(k) \/ StopOneFails(k) \/ Crash(k)
  \/ StartBoot \/ StartJob \/ Shutdown \/ Exit \/ PanelCrashes \/ PanelStarts

Spec == Init /\ [][Next]_vars

Fairness ==
  /\ \A t \in Threads : WF_vars(Step(t))
  /\ WF_vars(StartBoot) /\ WF_vars(StartJob) /\ WF_vars(PanelStarts)
  /\ WF_vars(Exit) /\ \A k \in Keys : WF_vars(StopOne(k))

FairSpec == Spec /\ Fairness

-----------------------------------------------------------------------------
(* Properties.                                                              *)

Cleared == swept /\ \A t \in Threads : th[t].pc # "sweep"

(* Once strays have been swept, no key has two live processes, in whatever    *)
(* order calls, reconciles and the shutdown ensure, remove and stop it: two   *)
(* would fight over the inbound's port.  (A process that survives SIGKILL    *)
(* for two seconds is given up, and may be the second.)                      *)
OnePerKey == Cleared /\ ~escaped => \A k \in Keys : Live(k) <= 1

(* A panel that shuts down gracefully leaves no sidecar behind (Stop, "wired  *)
(* into the panel shutdown"), except for one that a call or the boot run was  *)
(* still working on.                                                        *)
NothingLeft == [][Exit => late \/ escaped \/ \A k \in Keys : Live(k) = 0]_vars

(* A reconcile stops no sidecar that runs what its inbound's row says ("an    *)
(* unchanged fingerprint does not SIGTERM the process"), unless the row       *)
(* changed after the reconcile had read it.                                 *)
Undisturbed ==
  [][\A t \in Loops, k \in Keys :
       /\ Halt(t) \/ BeginRemove(t, k)
       /\ cores[k].runs = wish[k] /\ cores'[k].runs # wish[k]
       => th[t].list[k] # wish[k]]_vars

Right(k) ==
  IF wish[k] \in Configs THEN cores[k].runs = wish[k] /\ file[k] = wish[k] /\ stray[k] = 0
  ELSE Live(k) = 0

(* Whatever was left behind, crashed, or was started or stopped for a row that *)
(* had changed, in the end exactly the enabled inbounds have a process, with  *)
(* their config, and it has its files.                                      *)
Settles == <>[](escaped \/ \A k \in Keys : Right(k))
=============================================================================
