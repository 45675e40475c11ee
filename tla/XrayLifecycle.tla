--------------------------- MODULE XrayLifecycle ---------------------------
(***************************************************************************)
(* The Xray core of the panel's own host and everything that changes it:    *)
(* live user edits through the core's API (runtime/local.go and the client  *)
(* services), the traffic poll that disables depleted clients, RestartXray  *)
(* with its hot apply and its restart, the pending-restart flag, the        *)
(* watchdog, the manual stop and crashes (service/xray.go,                  *)
(* job/xray_traffic_job.go, job/check_xray_running_job.go, xray/process.go). *)
(*                                                                          *)
(* A generated configuration is the set of clients it serves and a shape:   *)
(* a number standing for the sections the core cannot change at runtime.    *)
(* The panel never asks the core what it serves; it compares the generated  *)
(* configuration with the one recorded in the process object, and live user *)
(* edits do not touch that record.  Clients belong to one inbound.          *)
(***************************************************************************)
EXTENDS Integers, FiniteSets

CONSTANTS
  Clients,           \* client e-mails
  Initial,           \* clients served in the initial state
  Adds, Drops,       \* calls that add or enable, that disable or delete one
  RestartOnDisable,  \* the setting restartXrayOnClientDisable
  None,              \* no client, no lock holder
  MaxDepletions,     \* bound: clients found depleted
  MaxForces,         \* bound: forced restarts
  MaxSaves,          \* bound: saved settings the core cannot take live
  MaxStops,          \* bound: manual stops
  MaxCrashes,        \* bound: crashes of the core
  MaxFaults          \* bound: failing calls, configs and starts

Calls   == Adds \cup Drops
Callers == {"cron", "poll", "watchdog", "admin"}
Bounds  == {"depletions", "forces", "saves", "stops", "crashes", "faults"}

ASSUME InitialAssumption == Initial \subseteq Clients
ASSUME CallsAssumption   == Adds \cap Drops = {}
ASSUME SettingAssumption == RestartOnDisable \in BOOLEAN
ASSUME NoneAssumption    == None \notin Clients /\ None \notin Callers
ASSUME LimitsAssumption  ==
  /\ MaxDepletions \in Nat /\ MaxForces \in Nat /\ MaxSaves \in Nat
  /\ MaxStops \in Nat /\ MaxCrashes \in Nat /\ MaxFaults \in Nat

VARIABLES
  db,         \* what GetXrayConfig would generate from the database now
  proc,       \* xrayState.process: is it running, and its recorded config
  core,       \* the users the running core serves
  live,       \* clients with an open connection through the core
  flag,       \* isNeedXrayRestart
  stopped,    \* isManuallyStopped
  rx,         \* RestartXray under `lock`: program counter, caller and locals
  who,        \* who[a]: where caller a of RestartXray stands
  downs,      \* CheckXrayRunningJob.checkTime
  call,       \* call[o]: program counter and client of a live edit
  depleted,   \* the client whose removal the poll has yet to apply
  pollNeed,   \* the poll's needRestart
  crossed,    \* history: clients whose edits crossed a restart or each other
  spent       \* how much of each bound is used up

vars == <<db, proc, core, live, flag, stopped, rx, who, downs, call, depleted,
          pollNeed, crossed, spent>>

coreVars == <<proc, core, live>>
flagVars == <<flag, stopped>>
pollVars == <<depleted, pollNeed>>

Free == [pc |-> "free", by |-> None, force |-> FALSE, cur |-> None,
         cfg |-> [clients |-> {}, shape |-> 0]]

Init ==
  /\ db = [clients |-> Initial, shape |-> 0]
  /\ proc = [up |-> TRUE, cfg |-> db]
  /\ core = Initial /\ live = {}
  /\ flag = FALSE /\ stopped = FALSE
  /\ rx = Free
  /\ who = [a \in Callers |-> "idle"]
  /\ downs = 0
  /\ call = [o \in Calls |-> [pc |-> "idle", client |-> None]]
  /\ depleted = None /\ pollNeed = FALSE
  /\ crossed = {}
  /\ spent = [b \in Bounds |-> 0]

Spend(what, max) == /\ spent[what] < max
                    /\ spent' = [spent EXCEPT ![what] = @ + 1]

(* The serial writer is free: neither the poll nor GetXrayConfig's own       *)
(* AddTraffic is between its commit and its removal.                        *)
WriterFree == who["poll"] # "apply" /\ rx.pc # "deplete"

-----------------------------------------------------------------------------
(* The panel compares a generated config with its record and never with the  *)
(* core, and generates it before it takes the old core down, holding nothing *)
(* that edits take.  An edit can therefore be missed in four ways, booked in *)
(* `crossed` for the one client it is of; every other client is promised     *)
(* all of ServedIsWanted, SessionsEnd and Recovers.                         *)

(* Clients whose edit has been committed and not yet applied to the core, by *)
(* a call or by the traffic writer.                                         *)
Unapplied == {call[o].client : o \in {p \in Calls : call[p].pc = "push"}}
Removing  == {c \in Clients : \/ who["poll"] = "apply" /\ c = depleted
                              \/ rx.pc = "deplete" /\ c = rx.cur}

(* A config has been generated and not yet been loaded into the core.        *)
MidRestart == rx.pc \in {"decide", "stop", "start"}

(* At its commit, an edit of c is missed when it falls between a config and   *)
(* the core made from it, or when another's edit of c is still to be applied; *)
(* a depletion inside RestartXray also when a failure of it is forgotten.    *)
CommitCrosses(c, forgotten) ==
  crossed' = crossed \cup {d \in {c} : MidRestart \/ d \in Unapplied \/ forgotten}

(* When it has been applied and asks for a restart, it is missed when the     *)
(* record says of c what the database says: the restart finds no change.     *)
ApplyCrosses(c, needRestart) ==
  crossed' = crossed \cup
    {d \in {c} : /\ needRestart
                 /\ d \in proc.cfg.clients <=> d \in db.clients}

(* Of the clients the core is given anew, those with nothing outstanding are  *)
(* made good.                                                               *)
Mends(renewed) ==
  crossed' = {c \in crossed : \/ c \notin renewed
                              \/ c \in Unapplied \cup Removing
                              \/ ~(c \in rx.cfg.clients <=> c \in db.clients)}

-----------------------------------------------------------------------------
(* One call to the core's API.  It fails when no core listens, may fail     *)
(* while a new core's API port is not known yet, and may fail by itself.    *)
ApiFails == \/ ~proc.up /\ UNCHANGED spent
            \/ rx.pc = "finish" /\ UNCHANGED spent
            \/ proc.up /\ Spend("faults", MaxFaults)

(* Removing a user the core does not have is no error; its connection, if    *)
(* any, survives the removal of the credential.                             *)
RemoveUser(c) == proc.up /\ core' = core \ {c} /\ UNCHANGED <<proc, live, spent>>

AddUser(c) == proc.up /\ c \notin core /\ core' = core \cup {c}
              /\ UNCHANGED <<proc, live, spent>>

ApiError == ApiFails /\ UNCHANGED coreVars

AddError(c) == \/ ApiError
               \/ proc.up /\ c \in core /\ UNCHANGED <<coreVars, spent>>

-----------------------------------------------------------------------------
(* Add/Update/DelInboundClient on a local inbound: commit on the writer and, *)
(* still under lockInbound, apply live; the controller raises the flag after *)
(* the call has returned.                                                   *)
CallCommit(o, c) ==
  /\ call[o].pc = "idle"
  /\ \A p \in Calls : call[p].pc # "push"
  /\ WriterFree
  /\ (o \in Adds) = (c \notin db.clients)
  /\ db' = [db EXCEPT !.clients = IF o \in Adds THEN @ \cup {c} ELSE @ \ {c}]
  /\ call' = [call EXCEPT ![o] = [pc |-> "push", client |-> c]]
  /\ CommitCrosses(c, FALSE)
  /\ UNCHANGED <<coreVars, flagVars, rx, who, downs, pollVars, spent>>

Pushed(o, needRestart) ==
  /\ call' = [call EXCEPT ![o].pc = IF needRestart THEN "flag" ELSE "done"]
  /\ ApplyCrosses(call[o].client, needRestart)
  /\ UNCHANGED <<db, flagVars, rx, who, downs, pollVars>>

\* Faulty variant: a failed live edit is only logged.
CallPushUnflagged(o) ==
  LET c == call[o].client IN
  /\ call[o].pc = "push"
  /\ \/ o \in Adds  /\ (AddUser(c) \/ AddError(c)) /\ Pushed(o, FALSE)
     \/ o \in Drops /\ RemoveUser(c) /\ Pushed(o, c \in core /\ RestartOnDisable)
     \/ o \in Drops /\ ApiError      /\ Pushed(o, TRUE)

(* SetToNeedRestart.                                                        *)
CallFlag(o) ==
  /\ call[o].pc = "flag"
  /\ flag' = TRUE
  /\ call' = [call EXCEPT ![o].pc = "done"]
  /\ UNCHANGED <<db, coreVars, stopped, rx, who, downs, pollVars, crossed, spent>>

CallPush(o) ==
  LET c == call[o].client IN
  /\ call[o].pc = "push"
  /\ \/ o \in Adds  /\ AddUser(c)    /\ Pushed(o, FALSE)
     \/ o \in Adds  /\ AddError(c)   /\ Pushed(o, TRUE)
     \/ o \in Drops /\ RemoveUser(c) /\ Pushed(o, c \in core /\ RestartOnDisable)
     \/ o \in Drops /\ ApiError      /\ Pushed(o, TRUE)

-----------------------------------------------------------------------------
(* XrayTrafficJob: AddTraffic disables a depleted client and, still on the   *)
(* writer, removes it live; then the job reconciles the core if the setting  *)
(* asks for it, and raises the flag if anything failed.                     *)
PollCommit(c) ==
  /\ who["poll"] = "idle"
  /\ proc.up
  /\ WriterFree
  /\ c \in db.clients
  /\ Spend("depletions", MaxDepletions)
  /\ db' = [db EXCEPT !.clients = @ \ {c}]
  /\ depleted' = c
  /\ who' = [who EXCEPT !["poll"] = "apply"]
  /\ CommitCrosses(c, FALSE)
  /\ UNCHANGED <<coreVars, flagVars, rx, downs, call, pollNeed>>

PollApply ==
  /\ who["poll"] = "apply"
  /\ \/ RemoveUser(depleted) /\ pollNeed' = FALSE
     \/ ApiError /\ pollNeed' = TRUE
  /\ ApplyCrosses(depleted, pollNeed' \/ RestartOnDisable)
  /\ depleted' = None
  /\ who' = [who EXCEPT !["poll"] = IF RestartOnDisable THEN "wait" ELSE "report"]
  /\ UNCHANGED <<db, flagVars, rx, downs, call>>

PollReport ==
  /\ who["poll"] = "report"
  /\ flag' = (flag \/ pollNeed)
  /\ pollNeed' = FALSE
  /\ who' = [who EXCEPT !["poll"] = "idle"]
  /\ UNCHANGED <<db, coreVars, stopped, rx, downs, call, depleted, crossed,
                 spent>>

-----------------------------------------------------------------------------
(* ApplyPendingRestart: the flag is taken down before RestartXray runs and   *)
(* put up again when it fails.                                              *)
CronSwap ==
  /\ who["cron"] = "idle"
  /\ flag
  /\ flag' = FALSE
  /\ who' = [who EXCEPT !["cron"] = "wait"]
  /\ UNCHANGED <<db, coreVars, stopped, rx, downs, call, pollVars, crossed, spent>>

\* Faulty variant: a failed restart is forgotten.
CronRearmForgets ==
  /\ who["cron"] = "rearm"
  /\ who' = [who EXCEPT !["cron"] = "idle"]
  /\ UNCHANGED <<db, coreVars, flagVars, rx, downs, call, pollVars, crossed, spent>>

CronRearm ==
  /\ who["cron"] = "rearm"
  /\ flag' = TRUE
  /\ who' = [who EXCEPT !["cron"] = "idle"]
  /\ UNCHANGED <<db, coreVars, stopped, rx, downs, call, pollVars, crossed, spent>>

(* CheckXrayRunningJob: only a core found down twice in a row is restarted.  *)
WatchTick ==
  /\ who["watchdog"] = "idle"
  /\ LET crashed == ~proc.up /\ ~stopped IN
       /\ crashed \/ downs # 0
       /\ downs' = IF crashed /\ downs = 0 THEN 1 ELSE 0
       /\ who' = [who EXCEPT !["watchdog"] =
                    IF crashed /\ downs = 1 THEN "wait" ELSE "idle"]
  /\ UNCHANGED <<db, coreVars, flagVars, rx, call, pollVars, crossed, spent>>

-----------------------------------------------------------------------------
(* The operator: a forced restart, saved settings, a manual stop.           *)
ForceRestart ==
  /\ who["admin"] = "idle"
  /\ Spend("forces", MaxForces)
  /\ who' = [who EXCEPT !["admin"] = "force"]
  /\ UNCHANGED <<db, coreVars, flagVars, rx, downs, call, pollVars, crossed>>

SaveSettings ==
  /\ who["admin"] = "idle"
  /\ Spend("saves", MaxSaves)
  /\ db' = [db EXCEPT !.shape = @ + 1]
  /\ who' = [who EXCEPT !["admin"] = IF proc.up THEN "wait" ELSE "idle"]
  /\ UNCHANGED <<coreVars, flagVars, rx, downs, call, pollVars, crossed>>

CoreDown == proc' = [proc EXCEPT !.up = FALSE] /\ core' = {} /\ live' = {}

StopXray ==
  /\ rx.pc = "free"
  /\ Spend("stops", MaxStops)
  /\ stopped' = TRUE
  /\ CoreDown
  /\ UNCHANGED <<db, flag, rx, who, downs, call, pollVars, crossed>>

Crash ==
  /\ proc.up
  /\ Spend("crashes", MaxCrashes)
  /\ CoreDown
  /\ UNCHANGED <<db, flagVars, rx, who, downs, call, pollVars, crossed>>

Connect(c) ==
  /\ proc.up
  /\ c \in core \ live
  /\ live' = live \cup {c}
  /\ UNCHANGED <<db, proc, core, flagVars, rx, who, downs, call, pollVars, crossed,
                 spent>>

-----------------------------------------------------------------------------
(* RestartXray, one caller at a time under `lock`.                          *)

(* What a caller does with the outcome.                                     *)
After(a, failed) == CASE a = "cron" /\ failed -> "rearm"
                      [] a = "poll"           -> "report"
                      [] OTHER                -> "idle"

Return(failed) ==
  /\ rx' = Free
  /\ who' = [who EXCEPT ![rx.by] = After(rx.by, failed)]
  /\ pollNeed' = (pollNeed \/ (rx.by = "poll" /\ failed))
  /\ UNCHANGED <<db, flagVars, downs, call, depleted>>

Proceed(pc) == /\ rx' = [rx EXCEPT !.pc = pc]
               /\ UNCHANGED <<db, flagVars, who, downs, call, pollVars>>

Enter(a, force) == rx' = [Free EXCEPT !.pc = "read", !.by = a, !.force = force]

\* Faulty variant: the watchdog's own look at the manual stop is trusted.
RxEnterUnchecked(a) ==
  /\ rx.pc = "free"
  /\ who[a] \in {"wait", "force"}
  /\ who[a] = "force" \/ ~stopped \/ a = "watchdog"
  /\ stopped' = FALSE
  /\ Enter(a, who[a] = "force")
  /\ who' = [who EXCEPT ![a] = "running"]
  /\ UNCHANGED <<db, coreVars, flag, downs, call, pollVars, crossed, spent>>

(* A manual stop stands unless the restart is forced.                       *)
RxEnter(a) ==
  /\ rx.pc = "free"
  /\ who[a] \in {"wait", "force"}
  /\ who[a] = "force" \/ ~stopped
  /\ stopped' = FALSE
  /\ Enter(a, who[a] = "force")
  /\ who' = [who EXCEPT ![a] = "running"]
  /\ UNCHANGED <<db, coreVars, flag, downs, call, pollVars, crossed, spent>>

RxRefuse(a) ==
  /\ rx.pc = "free"
  /\ who[a] = "wait" /\ stopped
  /\ who' = [who EXCEPT ![a] = After(a, FALSE)]
  /\ UNCHANGED <<db, coreVars, flagVars, rx, downs, call, pollVars, crossed, spent>>

(* GetXrayConfig runs AddTraffic(nil, nil) first: it may disable a depleted  *)
(* client and remove it live; what comes of the removal is ignored.         *)
RxDeplete(c) ==
  /\ rx.pc = "read"
  /\ WriterFree
  /\ c \in db.clients
  /\ Spend("depletions", MaxDepletions)
  /\ db' = [db EXCEPT !.clients = @ \ {c}]
  /\ rx' = [rx EXCEPT !.pc = "deplete", !.cur = c]
  /\ CommitCrosses(c, rx.by \notin {"cron", "poll"})
  /\ UNCHANGED <<coreVars, flagVars, who, downs, call, pollVars>>

RxDepleteApply ==
  /\ rx.pc = "deplete"
  /\ \/ RemoveUser(rx.cur) /\ ApplyCrosses(rx.cur, RestartOnDisable)
     \/ ApiError /\ ApplyCrosses(rx.cur, TRUE)
  /\ rx' = [rx EXCEPT !.pc = "read", !.cur = None]
  /\ UNCHANGED <<db, flagVars, who, downs, call, pollVars>>

RxRead ==
  /\ rx.pc = "read"
  /\ rx' = [rx EXCEPT !.pc = "decide", !.cfg = db]
  /\ UNCHANGED <<db, coreVars, flagVars, who, downs, call, pollVars, crossed, spent>>

(* The config cannot be generated, is refused because it cannot bind, or a   *)
(* relay outside the core does not follow a start.                          *)
RxFail ==
  /\ rx.pc \in {"read", "finish"} \/ (rx.pc = "decide" /\ proc.up)
  /\ Spend("faults", MaxFaults)
  /\ Return(TRUE)
  /\ UNCHANGED <<coreVars, crossed>>

Changed == rx.cfg # proc.cfg

\* Faulty variant: a dropped client is no reason to restart.
HotWhateverDropped == rx.cfg.shape = proc.cfg.shape

(* ComputeHotDiff and restartToDropClients: what the API can apply.         *)
Hot == /\ rx.cfg.shape = proc.cfg.shape
       /\ RestartOnDisable => proc.cfg.clients \subseteq rx.cfg.clients

RxUnchanged ==
  /\ rx.pc = "decide" /\ proc.up
  /\ ~rx.force /\ ~Changed /\ ~flag
  /\ Return(FALSE)
  /\ UNCHANGED <<coreVars, crossed, spent>>

(* tryHotApply: the difference between the recorded and the new config; a    *)
(* user that is already there or already gone is no obstacle.               *)
RxHotApply ==
  /\ rx.pc = "decide" /\ proc.up
  /\ ~rx.force /\ Changed /\ Hot
  /\ core' = (core \ (proc.cfg.clients \ rx.cfg.clients))
               \cup (rx.cfg.clients \ proc.cfg.clients)
  /\ proc' = [proc EXCEPT !.cfg = rx.cfg]
  /\ Mends((proc.cfg.clients \ rx.cfg.clients)
              \cup (rx.cfg.clients \ proc.cfg.clients))
  /\ Return(FALSE)
  /\ UNCHANGED <<live, spent>>

\* Faulty variant: a hot apply that stopped half-way is recorded as applied.
RxHotFailsRecorded ==
  /\ rx.pc = "decide" /\ proc.up
  /\ ~rx.force /\ Changed /\ Hot
  /\ Spend("faults", MaxFaults)
  /\ proc' = [proc EXCEPT !.cfg = rx.cfg]
  /\ Return(TRUE)
  /\ UNCHANGED <<core, live, crossed>>

RxHotFails ==
  /\ rx.pc = "decide" /\ proc.up
  /\ ~rx.force /\ Changed /\ Hot
  /\ Spend("faults", MaxFaults)
  /\ Proceed("stop")
  /\ UNCHANGED <<coreVars, crossed>>

RxMustRestart ==
  /\ rx.pc = "decide" /\ proc.up
  /\ rx.force \/ (~Changed /\ flag) \/ (Changed /\ ~Hot)
  /\ Proceed("stop")
  /\ UNCHANGED <<coreVars, crossed, spent>>

RxDown ==
  /\ rx.pc = "decide" /\ ~proc.up
  /\ Proceed("start")
  /\ UNCHANGED <<coreVars, crossed, spent>>

\* Faulty variant: the new core is started before the old one has exited.
RxStopAsync ==
  /\ rx.pc = "stop"
  /\ Proceed("start")
  /\ UNCHANGED <<coreVars, crossed, spent>>

RxStop ==
  /\ rx.pc = "stop"
  /\ CoreDown
  /\ Proceed("start")
  /\ UNCHANGED <<crossed, spent>>

(* NewProcess, replace, Start: the new core reads the config file.          *)
RxStart ==
  /\ rx.pc = "start"
  /\ proc' = [up |-> TRUE, cfg |-> rx.cfg]
  /\ core' = rx.cfg.clients
  /\ live' = {}
  /\ Mends(Clients)
  /\ Proceed("finish")
  /\ UNCHANGED spent

RxStartFails ==
  /\ rx.pc = "start"
  /\ Spend("faults", MaxFaults)
  /\ proc' = [up |-> FALSE, cfg |-> rx.cfg]
  /\ Return(TRUE)
  /\ UNCHANGED <<core, live, crossed>>

RxFinish ==
  /\ rx.pc = "finish"
  /\ Return(FALSE)
  /\ UNCHANGED <<coreVars, crossed, spent>>

-----------------------------------------------------------------------------
CallStep(o) == CallPush(o) \/ CallFlag(o)
PollStep    == PollApply \/ PollReport
CronStep    == CronSwap \/ CronRearm
RxStep      == \/ RxDepleteApply \/ RxRead \/ RxFail \/ RxUnchanged \/ RxHotApply
               \/ RxHotFails \/ RxMustRestart \/ RxDown \/ RxStop \/ RxStart
               \/ RxStartFails \/ RxFinish
               \/ \E c \in Clients : RxDeplete(c)

Next == \/ \E o \in Calls, c \in Clients : CallCommit(o, c)
        \/ \E o \in Calls : CallStep(o)
        \/ \E c \in Clients : PollCommit(c) \/ Connect(c)
        \/ PollStep \/ CronStep \/ WatchTick
        \/ ForceRestart \/ SaveSettings \/ StopXray \/ Crash
        \/ \E a \in Callers : RxEnter(a) \/ RxRefuse(a)
        \/ RxStep

Spec == Init /\ [][Next]_vars

(* Cron keeps firing, a started call or job runs on, and whoever waits for   *)
(* `lock` gets it (a Go mutex is fair under starvation).                    *)
Fairness == /\ \A o \in Calls : WF_vars(CallStep(o))
            /\ WF_vars(PollStep) /\ WF_vars(CronStep) /\ WF_vars(WatchTick)
            /\ WF_vars(RxStep)
            /\ \A a \in Callers : SF_vars(RxEnter(a) \/ RxRefuse(a))

FairSpec == Spec /\ Fairness

-----------------------------------------------------------------------------
Configs == [clients : SUBSET Clients, shape : Nat]

Typed ==
  /\ db \in Configs
  /\ proc \in [up : BOOLEAN, cfg : Configs]
  /\ core \subseteq Clients /\ live \subseteq Clients
  /\ flag \in BOOLEAN /\ stopped \in BOOLEAN
  /\ rx \in [pc : {"free", "read", "deplete", "decide", "stop", "start", "finish"},
             by : Callers \cup {None}, force : BOOLEAN,
             cur : Clients \cup {None}, cfg : Configs]
  /\ who \in [Callers -> {"idle", "wait", "force", "running", "apply", "report",
                          "rearm"}]
  /\ downs \in {0, 1}
  /\ call \in [Calls -> [pc : {"idle", "push", "flag", "done"},
                         client : Clients \cup {None}]]
  /\ depleted \in Clients \cup {None} /\ pollNeed \in BOOLEAN
  /\ crossed \subseteq Clients
  /\ spent \in [Bounds -> Nat]

(* Who holds the lock: the one caller inside, and nobody when it is free.    *)
Held ==
  /\ rx.pc = "free" <=> rx.by = None
  /\ \A a \in Callers : who[a] = "running" <=> rx.by = a

(* A removal or an edit that is to be applied names its client.             *)
Named ==
  /\ rx.pc = "deplete" => rx.cur \in Clients
  /\ who["poll"] = "apply" => depleted \in Clients
  /\ \A o \in Calls : call[o].pc = "push" => call[o].client \in Clients

(* A core that is down serves nobody.                                       *)
DownServesNobody == ~proc.up => core = {} /\ live = {}

(* A new core is only started once the old one is gone.                     *)
OneCore == rx.pc = "start" => ~proc.up

(* Types, and what the lock protects: its one holder, the clients removals   *)
(* are for, and the replacement of one core by the next.                    *)
TypeOK == Typed /\ Held /\ Named /\ DownServesNobody /\ OneCore

(* A manual stop stands: only a forced restart takes it back, and no core    *)
(* starts while it stands, whatever cron, poll and watchdog had decided      *)
(* before the operator pressed stop.                                        *)
ManualStopStands ==
  [][stopped => /\ ~(~proc.up /\ proc'.up)
                /\ ~stopped' => rx'.force]_vars

(* Nothing is pending: no flag, no call, no job and no restart under way.    *)
Settled == /\ ~flag /\ rx.pc = "free"
           /\ \A a \in Callers : who[a] = "idle"
           /\ \A o \in Calls : call[o].pc \notin {"push", "flag"}

(* The core serves a client exactly when the database says so, except those  *)
(* whose edits crossed.                                                     *)
ServesWanted == core \ crossed = db.clients \ crossed

(* When nothing is pending, the running core serves exactly the clients the  *)
(* database says it should, whatever calls, depletions, restarts, failures   *)
(* and crashes came before and in whatever order; excused is a client with   *)
(* an edit that crossed, until a new core or a hot apply has made it good.   *)
ServedIsWanted == Settled /\ proc.up => ServesWanted

(* With restartXrayOnClientDisable on, a client that stopped being served    *)
(* has no connection left once nothing is pending, unless its edit crossed.  *)
SessionsEnd == Settled /\ RestartOnDisable => live \ db.clients \subseteq crossed

(* Once edits, faults and crashes are over, the core runs (unless stopped by *)
(* hand) and serves exactly the wanted clients for good, but for those.      *)
Recovers == <>[](stopped \/ (proc.up /\ ServesWanted))
=============================================================================
