------------------------- MODULE XrayLifecycleProofs -------------------------
(***************************************************************************)
(* XrayLifecycle proved for every set of clients and calls and every bound: *)
(* its type invariant with what the lock protects, that a manual stop        *)
(* stands, and that the core ends up serving whom the database wants,        *)
(* whichever clients' edits cross.                                          *)
(***************************************************************************)
EXTENDS XrayLifecycle, TLAPS

USE DEF coreVars, flagVars, pollVars

(* Whoever holds the lock has taken a manual stop back.                     *)
LockedIsWanted == rx.pc # "free" => ~stopped

IInv == TypeOK /\ LockedIsWanted

RxRecords == [pc : {"free", "read", "deplete", "decide", "stop", "start", "finish"},
              by : Callers \cup {None}, force : BOOLEAN,
              cur : Clients \cup {None}, cfg : Configs]

LEMMA FreeType == Free \in RxRecords
  BY DEF Free, RxRecords, Configs

LEMMA TypeInit == Init => IInv
<1> SUFFICES ASSUME Init PROVE IInv
  OBVIOUS
<1>1. db \in Configs /\ proc \in [up : BOOLEAN, cfg : Configs]
  BY InitialAssumption DEF Init, Configs
<1>2. rx \in RxRecords
  BY FreeType DEF Init
<1>3. call \in [Calls -> [pc : {"idle", "push", "flag", "done"},
                         client : Clients \cup {None}]]
  BY DEF Init
<1>4. spent \in [Bounds -> Nat]
  BY DEF Init
<1>5. Typed
  BY <1>1, <1>2, <1>3, <1>4, InitialAssumption DEF Init, Typed, RxRecords
<1>6. Held
  BY NoneAssumption DEF Init, Held, Free, Callers
<1>7. Named /\ DownServesNobody /\ OneCore /\ LockedIsWanted
  BY DEF Init, Named, DownServesNobody, OneCore, LockedIsWanted, Free, Callers
<1>8. QED
  BY <1>5, <1>6, <1>7 DEF IInv, TypeOK

(* What an edit books is a client.                                          *)
LEMMA BookTypes ==
  ASSUME Typed, NEW c \in Clients, NEW asks \in BOOLEAN,
         CommitCrosses(c, asks) \/ ApplyCrosses(c, asks)
  PROVE  crossed' \subseteq Clients
  BY DEF Typed, CommitCrosses, ApplyCrosses

(* One call to the core's API leaves the core well typed.                   *)
LEMMA ApiTypes ==
  ASSUME Typed, NEW c \in Clients, RemoveUser(c) \/ AddUser(c) \/ ApiError \/ AddError(c)
  PROVE  /\ UNCHANGED <<proc, live>>
         /\ core' \subseteq Clients
         /\ spent' \in [Bounds -> Nat]
         /\ ~proc.up => core' = core
  BY DEF Typed, RemoveUser, AddUser, ApiError, AddError, ApiFails, Spend, Bounds

(* Live edits and the poll's part outside the lock.                         *)
LEMMA CallTypes ==
  ASSUME IInv, NEW o \in Calls, CallStep(o) \/ \E c \in Clients : CallCommit(o, c)
  PROVE  IInv'
<1>1. ASSUME NEW c \in Clients, CallCommit(o, c) PROVE IInv'
  <2>1. Typed'
    <3>1. crossed' \subseteq Clients
      BY <1>1, BookTypes DEF CallCommit, IInv, TypeOK
    <3>2. QED
      BY <1>1, <3>1 DEF CallCommit, IInv, TypeOK, Typed, Configs
  <2>2. Named'
    BY <1>1 DEF CallCommit, IInv, TypeOK, Typed, Named
  <2>3. QED
    BY <1>1, <2>1, <2>2
       DEF CallCommit, IInv, TypeOK, Held, DownServesNobody, OneCore, LockedIsWanted
<1>2. CASE CallPush(o)
  <2>1. call[o].client \in Clients
    BY <1>2 DEF CallPush, IInv, TypeOK, Named
  <2>2. /\ UNCHANGED <<proc, live>> /\ core' \subseteq Clients
        /\ spent' \in [Bounds -> Nat]
        /\ ~proc.up => core' = core
    BY <1>2, <2>1, ApiTypes DEF CallPush, IInv, TypeOK
  <2>3. \/ Pushed(o, TRUE) \/ Pushed(o, FALSE)
        \/ Pushed(o, call[o].client \in core /\ RestartOnDisable)
    BY <1>2 DEF CallPush
  <2>4. /\ UNCHANGED <<db, flagVars, rx, who, downs, pollVars>>
        /\ \E pc \in {"flag", "done"} : call' = [call EXCEPT ![o].pc = pc]
        /\ crossed' \subseteq Clients
    BY <2>1, <2>3, BookTypes DEF Pushed, IInv, TypeOK
  <2>5. call' \in [Calls -> [pc : {"idle", "push", "flag", "done"},
                           client : Clients \cup {None}]]
    BY <2>4 DEF IInv, TypeOK, Typed
  <2>6. Typed'
    BY <2>2, <2>4, <2>5 DEF IInv, TypeOK, Typed
  <2>7. Named'
    BY <2>2, <2>4 DEF IInv, TypeOK, Typed, Named
  <2>8. Held' /\ OneCore' /\ LockedIsWanted'
    BY <2>2, <2>4 DEF IInv, TypeOK, Held, OneCore, LockedIsWanted
  <2>9. DownServesNobody'
    BY <2>2 DEF IInv, TypeOK, DownServesNobody
  <2>10. QED
    BY <2>6, <2>7, <2>8, <2>9 DEF IInv, TypeOK
<1>3. CASE CallFlag(o)
  <2>1. Typed' /\ Named'
    BY <1>3 DEF CallFlag, IInv, TypeOK, Typed, Named
  <2>2. QED
    BY <1>3, <2>1
       DEF CallFlag, IInv, TypeOK, Held, DownServesNobody, OneCore, LockedIsWanted
<1>4. QED
  BY <1>1, <1>2, <1>3 DEF CallStep

LEMMA PollTypes ==
  ASSUME IInv, PollStep \/ \E c \in Clients : PollCommit(c)
  PROVE  IInv'
<1> USE NoneAssumption DEF Callers
<1>1. ASSUME NEW c \in Clients, PollCommit(c) PROVE IInv'
  <2>1. Typed' /\ Named'
    <3>1. crossed' \subseteq Clients
      BY <1>1, BookTypes DEF PollCommit, IInv, TypeOK
    <3>2. QED
      BY <1>1, <3>1
         DEF PollCommit, Spend, Bounds, IInv, TypeOK, Typed, Named, Configs
  <2>2. Held'
    BY <1>1 DEF PollCommit, IInv, TypeOK, Typed, Held
  <2>3. QED
    BY <1>1, <2>1, <2>2
       DEF PollCommit, IInv, TypeOK, DownServesNobody, OneCore, LockedIsWanted
<1>2. CASE PollApply
  <2>1. depleted \in Clients
    BY <1>2 DEF PollApply, IInv, TypeOK, Named
  <2>2. /\ UNCHANGED <<proc, live>> /\ core' \subseteq Clients
        /\ spent' \in [Bounds -> Nat]
        /\ ~proc.up => core' = core
    BY <1>2, <2>1, ApiTypes DEF PollApply, IInv, TypeOK
  <2>3. /\ who["poll"] = "apply" /\ pollNeed' \in BOOLEAN
        /\ crossed' \subseteq Clients
    <3>1. who["poll"] = "apply" /\ pollNeed' \in BOOLEAN
      BY <1>2 DEF PollApply
    <3>2. ApplyCrosses(depleted, pollNeed' \/ RestartOnDisable)
      BY <1>2 DEF PollApply
    <3>3. QED
      BY <2>1, <3>1, <3>2, BookTypes DEF IInv, TypeOK
  <2>4. \E to \in {"wait", "report"} : who' = [who EXCEPT !["poll"] = to]
    BY <1>2 DEF PollApply
  <2>5. who' \in [Callers -> {"idle", "wait", "force", "running", "apply", "report",
                             "rearm"}]
    BY <2>4 DEF IInv, TypeOK, Typed
  <2>6. depleted' = None /\ UNCHANGED <<db, flagVars, rx, downs, call>>
    BY <1>2 DEF PollApply
  <2>7. Typed'
    BY <2>2, <2>3, <2>5, <2>6 DEF IInv, TypeOK, Typed
  <2>8. Named'
    BY <2>4, <2>6 DEF IInv, TypeOK, Typed, Named
  <2>9. Held'
    BY <2>3, <2>4, <2>6 DEF IInv, TypeOK, Typed, Held
  <2>10. OneCore' /\ LockedIsWanted'
    BY <2>2, <2>6 DEF IInv, TypeOK, OneCore, LockedIsWanted
  <2>11. DownServesNobody'
    BY <2>2 DEF IInv, TypeOK, DownServesNobody
  <2>12. QED
    BY <2>7, <2>8, <2>9, <2>10, <2>11 DEF IInv, TypeOK
<1>3. CASE PollReport
  <2>1. Typed'
    <3>1. who' \in [Callers -> {"idle", "wait", "force", "running", "apply", "report",
                               "rearm"}]
      BY <1>3 DEF PollReport, IInv, TypeOK, Typed
    <3>2. flag' \in BOOLEAN /\ pollNeed' \in BOOLEAN
      BY <1>3 DEF PollReport, IInv, TypeOK, Typed
    <3>3. UNCHANGED <<db, coreVars, stopped, rx, downs, call, depleted, crossed, spent>>
      BY <1>3 DEF PollReport
    <3>4. QED
      BY <3>1, <3>2, <3>3 DEF IInv, TypeOK, Typed
  <2>2. Named'
    BY <1>3 DEF PollReport, IInv, TypeOK, Typed, Named
  <2>3. Held'
    BY <1>3 DEF PollReport, IInv, TypeOK, Typed, Held
  <2>4. QED
    BY <1>3, <2>1, <2>2, <2>3
       DEF PollReport, IInv, TypeOK, DownServesNobody, OneCore, LockedIsWanted
<1>4. QED
  BY <1>1, <1>2, <1>3 DEF PollStep

(* A caller outside the lock only moves between places outside it.          *)
LEMMA Outside ==
  ASSUME IInv, NEW a \in Callers, who[a] # "running", a # "poll",
         NEW to \in {"idle", "wait", "force", "rearm"},
         who' = [who EXCEPT ![a] = to],
         db' \in Configs, flag' \in BOOLEAN, downs' \in {0, 1},
         spent' \in [Bounds -> Nat],
         UNCHANGED <<rx, proc, core, live, call, stopped, depleted, pollNeed,
                     crossed>>
  PROVE  IInv'
<1>1. who' \in [Callers -> {"idle", "wait", "force", "running", "apply", "report",
                           "rearm"}]
  BY DEF IInv, TypeOK, Typed
<1>2. Held'
  BY DEF IInv, TypeOK, Typed, Held
<1>3. who'["poll"] = who["poll"]
  BY DEF IInv, TypeOK, Typed, Callers
<1>4. Named'
  BY <1>3 DEF IInv, TypeOK, Named
<1>5. Typed'
  BY <1>1 DEF IInv, TypeOK, Typed
<1>6. QED
  BY <1>2, <1>4, <1>5 DEF IInv, TypeOK, DownServesNobody, OneCore, LockedIsWanted

LEMMA CronTypes == ASSUME IInv, CronStep PROVE IInv'
<1>1. "cron" \in Callers /\ "cron" # "poll"
  BY DEF Callers
<1>2. PICK to \in {"idle", "wait"} :
        /\ who["cron"] # "running" /\ who' = [who EXCEPT !["cron"] = to]
        /\ flag' \in BOOLEAN
        /\ UNCHANGED <<db, coreVars, stopped, rx, downs, call, pollVars, crossed,
                     spent>>
  BY DEF CronStep, CronSwap, CronRearm
<1>3. db' \in Configs /\ downs' \in {0, 1} /\ spent' \in [Bounds -> Nat]
  BY <1>2 DEF IInv, TypeOK, Typed
<1>4. QED
  BY <1>1, <1>2, <1>3, Outside

LEMMA WatchTypes == ASSUME IInv, WatchTick PROVE IInv'
<1>1. "watchdog" \in Callers /\ "watchdog" # "poll"
  BY DEF Callers
<1>2. /\ who["watchdog"] # "running" /\ downs' \in {0, 1}
      /\ \E to \in {"idle", "wait"} : who' = [who EXCEPT !["watchdog"] = to]
      /\ UNCHANGED <<db, coreVars, flagVars, rx, call, pollVars, crossed,
                     spent>>
  BY DEF WatchTick
<1>3. PICK to \in {"idle", "wait"} : who' = [who EXCEPT !["watchdog"] = to]
  BY <1>2
<1>4. db' \in Configs /\ flag' \in BOOLEAN /\ spent' \in [Bounds -> Nat]
  BY <1>2 DEF IInv, TypeOK, Typed
<1>5. QED
  BY <1>1, <1>2, <1>3, <1>4, Outside

LEMMA OperatorTypes == ASSUME IInv, ForceRestart \/ SaveSettings PROVE IInv'
<1>1. "admin" \in Callers /\ "admin" # "poll"
  BY DEF Callers
<1>2. /\ who["admin"] # "running"
      /\ \E to \in {"idle", "wait", "force"} : who' = [who EXCEPT !["admin"] = to]
      /\ UNCHANGED <<coreVars, flagVars, rx, downs, call, pollVars, crossed>>
  BY DEF ForceRestart, SaveSettings
<1>3. PICK to \in {"idle", "wait", "force"} : who' = [who EXCEPT !["admin"] = to]
  BY <1>2
<1>4. db' \in Configs
  BY DEF ForceRestart, SaveSettings, IInv, TypeOK, Typed, Configs
<1>5. spent' \in [Bounds -> Nat]
  <2>1. \E b \in Bounds : spent' = [spent EXCEPT ![b] = @ + 1]
    BY DEF ForceRestart, SaveSettings, Spend, Bounds
  <2>2. QED
    BY <2>1 DEF IInv, TypeOK, Typed
<1>6. flag' \in BOOLEAN /\ downs' \in {0, 1}
  BY <1>2 DEF IInv, TypeOK, Typed
<1>7. QED
  BY <1>1, <1>2, <1>3, <1>4, <1>5, <1>6, Outside

LEMMA CoreTypes ==
  ASSUME IInv, StopXray \/ Crash \/ \E c \in Clients : Connect(c)
  PROVE  IInv'
<1>1. proc' \in [up : BOOLEAN, cfg : Configs] /\ core' \subseteq Clients
      /\ live' \subseteq Clients /\ DownServesNobody'
  BY DEF StopXray, Crash, Connect, CoreDown, IInv, TypeOK, Typed, DownServesNobody
<1>2. stopped' \in BOOLEAN /\ spent' \in [Bounds -> Nat]
  <2>1. stopped' \in BOOLEAN
    BY DEF StopXray, Crash, Connect, IInv, TypeOK, Typed
  <2>2. \/ UNCHANGED spent
        \/ \E b \in Bounds : spent' = [spent EXCEPT ![b] = @ + 1]
    BY DEF StopXray, Crash, Connect, Spend, Bounds
  <2>3. QED
    BY <2>1, <2>2 DEF IInv, TypeOK, Typed
<1>3. UNCHANGED <<db, flag, rx, who, downs, call, depleted, pollNeed, crossed>>
  BY DEF StopXray, Crash, Connect
<1>4. Typed'
  BY <1>1, <1>2, <1>3 DEF IInv, TypeOK, Typed
<1>5. Held' /\ Named'
  BY <1>3 DEF IInv, TypeOK, Held, Named
<1>6. OneCore' /\ LockedIsWanted'
  BY <1>3 DEF StopXray, Crash, Connect, CoreDown, IInv, TypeOK, Typed, OneCore,
              LockedIsWanted
<1>7. QED
  BY <1>1, <1>4, <1>5, <1>6 DEF IInv, TypeOK

-----------------------------------------------------------------------------
(* RestartXray.                                                             *)

(* Returning from RestartXray, and moving on inside it.                     *)
LEMMA ReturnTypes ==
  ASSUME IInv, rx.pc # "free", NEW failed \in BOOLEAN, Return(failed)
  PROVE  /\ rx' \in RxRecords /\ pollNeed' \in BOOLEAN
         /\ who' \in [Callers -> {"idle", "wait", "force", "running", "apply",
                                  "report", "rearm"}]
         /\ Held' /\ Named' /\ OneCore' /\ LockedIsWanted'
<1>1. rx.by \in Callers /\ rx' = Free
  BY DEF Return, IInv, TypeOK, Typed, Held
<1>2. After(rx.by, failed) \in {"idle", "report", "rearm"}
  BY DEF After
<1>3. who' \in [Callers -> {"idle", "wait", "force", "running", "apply", "report",
                           "rearm"}]
  BY <1>1, <1>2 DEF Return, IInv, TypeOK, Typed
<1>4. Held'
  BY <1>1, <1>2, NoneAssumption DEF Return, Free, IInv, TypeOK, Typed, Held
<1>5. who'["poll"] = "apply" => who["poll"] = "apply"
  BY <1>1, <1>2 DEF Return, Callers, IInv, TypeOK, Typed
<1>6. Named'
  BY <1>1, <1>5 DEF Return, Free, IInv, TypeOK, Named
<1>7. pollNeed' \in BOOLEAN
  BY DEF Return, IInv, TypeOK, Typed
<1>8. QED
  BY <1>1, <1>3, <1>4, <1>6, <1>7, FreeType
     DEF Return, Free, IInv, TypeOK, OneCore, LockedIsWanted

LEMMA ProceedTypes ==
  ASSUME IInv, rx.pc # "free", NEW pc \in {"stop", "start", "finish"}, Proceed(pc)
  PROVE  rx' \in RxRecords /\ rx'.pc = pc /\ Held' /\ Named' /\ LockedIsWanted'
<1>1. rx' \in RxRecords /\ rx'.pc = pc /\ rx'.by = rx.by
  BY DEF Proceed, IInv, TypeOK, Typed, RxRecords
<1>2. QED
  BY <1>1 DEF Proceed, IInv, TypeOK, Held, Named, LockedIsWanted

LEMMA EnterTypes ==
  ASSUME IInv, NEW a \in Callers, RxEnter(a) \/ RxRefuse(a)
  PROVE  IInv'
<1>1. CASE RxEnter(a)
  <2>1. /\ rx' \in RxRecords /\ rx'.pc = "read" /\ rx'.by = a
    BY <1>1, FreeType DEF RxEnter, Enter, RxRecords, Free
  <2>2. Typed'
    BY <1>1, <2>1 DEF RxEnter, IInv, TypeOK, Typed, RxRecords
  <2>3. Held'
    BY <1>1, <2>1, NoneAssumption DEF RxEnter, IInv, TypeOK, Typed, Held
  <2>4. Named'
    BY <1>1, <2>1 DEF RxEnter, IInv, TypeOK, Typed, Named, Callers
  <2>5. QED
    BY <1>1, <2>1, <2>2, <2>3, <2>4
       DEF RxEnter, IInv, TypeOK, DownServesNobody, OneCore, LockedIsWanted
<1>2. CASE RxRefuse(a)
  <2>1. After(a, FALSE) \in {"idle", "report"}
    BY DEF After
  <2>2. Typed'
    BY <1>2, <2>1 DEF RxRefuse, IInv, TypeOK, Typed
  <2>3. Held'
    BY <1>2, <2>1 DEF RxRefuse, IInv, TypeOK, Typed, Held
  <2>4. Named'
    BY <1>2, <2>1 DEF RxRefuse, IInv, TypeOK, Typed, Named, Callers
  <2>5. QED
    BY <1>2, <2>2, <2>3, <2>4
       DEF RxRefuse, IInv, TypeOK, DownServesNobody, OneCore, LockedIsWanted
<1>3. QED
  BY <1>1, <1>2

(* The steps that read the database.                                        *)
LEMMA ReadTypes ==
  ASSUME IInv, RxDepleteApply \/ RxRead \/ \E c \in Clients : RxDeplete(c)
  PROVE  IInv'
<1>1. ASSUME NEW c \in Clients, RxDeplete(c) PROVE IInv'
  <2>1. rx' \in RxRecords /\ rx'.pc = "deplete" /\ rx'.by = rx.by /\ rx'.cur = c
    BY <1>1 DEF RxDeplete, IInv, TypeOK, Typed, RxRecords
  <2>2. db' \in Configs
    BY <1>1 DEF RxDeplete, IInv, TypeOK, Typed, Configs
  <2>3. spent' \in [Bounds -> Nat]
    <3>1. spent' = [spent EXCEPT !["depletions"] = @ + 1]
      BY <1>1 DEF RxDeplete, Spend
    <3>2. QED
      BY <3>1 DEF Bounds, IInv, TypeOK, Typed
  <2>4. Typed'
    BY <1>1, <2>1, <2>2, <2>3, BookTypes DEF RxDeplete, IInv, TypeOK, Typed, RxRecords
  <2>5. QED
    BY <1>1, <2>1, <2>4 DEF RxDeplete, IInv, TypeOK, Held, Named,
       DownServesNobody, OneCore, LockedIsWanted
<1>2. CASE RxDepleteApply
  <2>1. rx.cur \in Clients /\ rx.pc = "deplete"
    BY <1>2 DEF RxDepleteApply, IInv, TypeOK, Named
  <2>2. /\ UNCHANGED <<proc, live>> /\ core' \subseteq Clients
        /\ spent' \in [Bounds -> Nat]
        /\ ~proc.up => core' = core
    BY <1>2, <2>1, ApiTypes DEF RxDepleteApply, IInv, TypeOK
  <2>3. rx' \in RxRecords /\ rx'.pc = "read" /\ rx'.by = rx.by
    BY <1>2 DEF RxDepleteApply, IInv, TypeOK, Typed, RxRecords
  <2>4. /\ UNCHANGED <<db, flagVars, who, downs, call, pollVars>>
        /\ crossed' \subseteq Clients
    BY <1>2, <2>1, BookTypes, SettingAssumption DEF RxDepleteApply, IInv, TypeOK
  <2>5. Typed'
    BY <2>2, <2>3, <2>4 DEF IInv, TypeOK, Typed, RxRecords
  <2>6. Held' /\ Named' /\ OneCore' /\ LockedIsWanted'
    BY <2>1, <2>3, <2>4 DEF IInv, TypeOK, Held, Named, OneCore, LockedIsWanted
  <2>7. DownServesNobody'
    BY <2>2 DEF IInv, TypeOK, DownServesNobody
  <2>8. QED
    BY <2>5, <2>6, <2>7 DEF IInv, TypeOK
<1>3. CASE RxRead
  <2>1. rx' \in RxRecords /\ rx'.pc = "decide" /\ rx'.by = rx.by
    BY <1>3 DEF RxRead, IInv, TypeOK, Typed, RxRecords
  <2>2. Typed'
    BY <1>3, <2>1 DEF RxRead, IInv, TypeOK, Typed, RxRecords
  <2>3. QED
    BY <1>3, <2>1, <2>2 DEF RxRead, IInv, TypeOK, Held, Named,
       DownServesNobody, OneCore, LockedIsWanted
<1>4. QED
  BY <1>1, <1>2, <1>3

(* The steps that end a RestartXray.                                        *)
LEMMA EndTypes ==
  ASSUME IInv, RxFail \/ RxUnchanged \/ RxHotApply \/ RxStartFails \/ RxFinish
  PROVE  IInv'
<1>1. rx.pc # "free"
  BY DEF RxFail, RxUnchanged, RxHotApply, RxStartFails, RxFinish
<1>2. Return(TRUE) \/ Return(FALSE)
  BY DEF RxFail, RxUnchanged, RxHotApply, RxStartFails, RxFinish
<1>3. /\ rx' \in RxRecords /\ pollNeed' \in BOOLEAN
      /\ who' \in [Callers -> {"idle", "wait", "force", "running", "apply",
                               "report", "rearm"}]
      /\ Held' /\ Named' /\ OneCore' /\ LockedIsWanted'
  BY <1>1, <1>2, ReturnTypes
<1>4. UNCHANGED <<db, flag, stopped, downs, call, depleted>>
  BY <1>2 DEF Return
<1>5. /\ proc' \in [up : BOOLEAN, cfg : Configs] /\ core' \subseteq Clients
      /\ live' = live /\ DownServesNobody'
  <2>1. CASE RxHotApply
    BY <2>1 DEF RxHotApply, IInv, TypeOK, Typed, Configs, DownServesNobody
  <2>2. CASE RxStartFails
    BY <2>2 DEF RxStartFails, IInv, TypeOK, Typed, OneCore, DownServesNobody
  <2>3. CASE RxFail \/ RxUnchanged \/ RxFinish
    BY <2>3 DEF RxFail, RxUnchanged, RxFinish, IInv, TypeOK, Typed, DownServesNobody
  <2>4. QED
    BY <2>1, <2>2, <2>3
<1>6. spent' \in [Bounds -> Nat]
  <2>1. UNCHANGED spent \/ spent' = [spent EXCEPT !["faults"] = @ + 1]
    BY DEF RxFail, RxUnchanged, RxHotApply, RxStartFails, RxFinish, Spend
  <2>2. QED
    BY <2>1 DEF Bounds, IInv, TypeOK, Typed
<1>7. Typed'
  <2>1. crossed' \subseteq Clients
    BY DEF RxFail, RxUnchanged, RxHotApply, RxStartFails, RxFinish, Mends,
           IInv, TypeOK, Typed
  <2>2. QED
    BY <1>3, <1>4, <1>5, <1>6, <2>1 DEF IInv, TypeOK, Typed, RxRecords
<1>8. QED
  BY <1>3, <1>5, <1>7 DEF IInv, TypeOK

(* The steps that replace the core.                                         *)
LEMMA ReplaceTypes ==
  ASSUME IInv, RxHotFails \/ RxMustRestart \/ RxDown \/ RxStop \/ RxStart
  PROVE  IInv'
<1>1. PICK pc \in {"stop", "start", "finish"} :
        /\ Proceed(pc)
        /\ pc = "start" => RxDown \/ RxStop
  BY DEF RxHotFails, RxMustRestart, RxDown, RxStop, RxStart
<1>2. rx.pc # "free"
  BY DEF RxHotFails, RxMustRestart, RxDown, RxStop, RxStart
<1>3. rx' \in RxRecords /\ rx'.pc = pc /\ Held' /\ Named' /\ LockedIsWanted'
  BY <1>1, <1>2, ProceedTypes
<1>4. /\ proc' \in [up : BOOLEAN, cfg : Configs]
      /\ core' \subseteq Clients /\ live' \subseteq Clients
      /\ DownServesNobody'
  <2>1. CASE RxStart
    BY <2>1 DEF RxStart, IInv, TypeOK, Typed, Configs, DownServesNobody
  <2>2. CASE RxStop
    BY <2>2 DEF RxStop, CoreDown, IInv, TypeOK, Typed, DownServesNobody
  <2>3. CASE RxHotFails \/ RxMustRestart \/ RxDown
    BY <2>3 DEF RxHotFails, RxMustRestart, RxDown, IInv, TypeOK, Typed,
       DownServesNobody
  <2>4. QED
    BY <2>1, <2>2, <2>3
<1>5. OneCore'
  BY <1>1, <1>3 DEF RxDown, RxStop, CoreDown, IInv, TypeOK, Typed, OneCore
<1>6. spent' \in [Bounds -> Nat]
  BY DEF RxHotFails, RxMustRestart, RxDown, RxStop, RxStart, Spend, Bounds,
         IInv, TypeOK, Typed
<1>7. Typed'
  <2>1. crossed' \subseteq Clients
    BY DEF RxHotFails, RxMustRestart, RxDown, RxStop, RxStart, Mends,
           IInv, TypeOK, Typed
  <2>2. QED
    BY <1>1, <1>3, <1>4, <1>6, <2>1 DEF Proceed, IInv, TypeOK, Typed, RxRecords
<1>8. QED
  BY <1>3, <1>4, <1>5, <1>7 DEF IInv, TypeOK

LEMMA InvStep == IInv /\ [Next]_vars => IInv'
<1> SUFFICES ASSUME IInv, [Next]_vars PROVE IInv'
  OBVIOUS
<1>1. CASE \/ \E o \in Calls, c \in Clients : CallCommit(o, c)
           \/ \E o \in Calls : CallStep(o)
  BY <1>1, CallTypes
<1>2. CASE PollStep \/ \E c \in Clients : PollCommit(c)
  BY <1>2, PollTypes
<1>3. CASE CronStep \/ WatchTick \/ ForceRestart \/ SaveSettings
  BY <1>3, CronTypes, WatchTypes, OperatorTypes
<1>4. CASE StopXray \/ Crash \/ \E c \in Clients : Connect(c)
  BY <1>4, CoreTypes
<1>5. CASE \E a \in Callers : RxEnter(a) \/ RxRefuse(a)
  BY <1>5, EnterTypes
<1>6. CASE RxStep
  BY <1>6, ReadTypes, EndTypes, ReplaceTypes DEF RxStep
<1>7. CASE UNCHANGED vars
  BY <1>7 DEF vars, IInv, TypeOK, Typed, Held, Named, DownServesNobody, OneCore,
              LockedIsWanted
<1>8. QED
  BY <1>1, <1>2, <1>3, <1>4, <1>5, <1>6, <1>7 DEF Next

LEMMA Invariance == Spec => []IInv
  BY TypeInit, InvStep, PTL DEF Spec

(* Every reachable state is well typed, RestartXray has one caller inside    *)
(* `lock` at a time, a core that is down serves nobody, and a new core is    *)
(* only started once the old one has gone.                                  *)
THEOREM TypeCorrect == Spec => []TypeOK
<1>1. IInv => TypeOK
  BY DEF IInv
<1>2. QED
  BY <1>1, Invariance, PTL

(* A core is only started under the lock, by a caller that has taken the     *)
(* manual stop back on its way in.                                          *)
LEMMA OnlyUnderLock ==
  ASSUME IInv, [Next]_vars, ~proc.up, proc'.up
  PROVE  rx.pc = "start"
<1>1. CASE RxStep
  BY <1>1, ApiTypes
     DEF RxStep, RxDepleteApply, RxRead, RxFail, RxUnchanged, RxHotApply,
         RxHotFails, RxMustRestart, RxDown, RxStop, RxStart, RxStartFails,
         RxFinish, RxDeplete, CoreDown, RemoveUser, ApiError, IInv, TypeOK, Typed
<1>2. CASE ~RxStep
  BY <1>2 DEF Next, vars, CallCommit, CallStep, CallPush, CallFlag, PollCommit,
     PollStep, PollApply, PollReport, CronStep, CronSwap, CronRearm, WatchTick,
     ForceRestart, SaveSettings, StopXray, Crash, Connect, CoreDown, RxEnter,
     RxRefuse, RemoveUser, AddUser, ApiError, AddError, IInv, TypeOK, Typed
<1>3. QED
  BY <1>1, <1>2

(* Only a forced restart takes a manual stop back.                          *)
LEMMA OnlyForced ==
  ASSUME IInv, [Next]_vars, stopped, ~stopped'
  PROVE  rx'.force
<1>1. PICK a \in Callers : RxEnter(a)
  BY DEF Next, vars, CallCommit, CallStep, CallPush, CallFlag, Pushed, PollCommit,
     PollStep, PollApply, PollReport, CronStep, CronSwap, CronRearm, WatchTick,
     ForceRestart, SaveSettings, StopXray, Crash, Connect, RxRefuse, RxStep,
     RxDepleteApply, RxRead, RxFail, RxUnchanged, RxHotApply, RxHotFails,
     RxMustRestart, RxDown, RxStop, RxStart, RxStartFails, RxFinish, RxDeplete,
     Return, Proceed
<1>2. who[a] = "force"
  BY <1>1 DEF RxEnter
<1>3. QED
  BY <1>1, <1>2 DEF RxEnter, Enter, Free

(* A manual stop stands: whatever cron, poll and watchdog had decided before *)
(* it, no core starts until the operator forces a restart.                  *)
THEOREM ManualStop == Spec => ManualStopStands
<1>1. IInv /\ [Next]_vars =>
        [stopped => /\ ~(~proc.up /\ proc'.up)
                    /\ ~stopped' => rx'.force]_vars
  BY OnlyUnderLock, OnlyForced DEF IInv, LockedIsWanted
<1>2. QED
  BY <1>1, Invariance, PTL DEF Spec, ManualStopStands

-----------------------------------------------------------------------------
(* A core at rest serves exactly the wanted clients and keeps no connection  *)
(* of the others, but for those whose edits crossed.  For each other client   *)
(* the panel's record is what ties the core to the database: where the       *)
(* record agrees with the database so does the core, and what is wrong with  *)
(* the core is about to be put right by an edit under way or by a restart    *)
(* that will find the record changed.                                       *)

(* A restart whose failure its caller remembers.                            *)
Sure == /\ rx.pc \in {"read", "deplete", "decide", "stop", "start"}
        /\ rx.by \in {"cron", "poll"}

(* A restart is due.                                                        *)
Coming == \/ flag \/ pollNeed \/ Sure
          \/ \E o \in Calls : call[o].pc = "flag"
          \/ who["cron"] \in {"wait", "rearm"} \/ who["poll"] = "wait"

(* An edit of c is still to be applied to the core.                         *)
Pending(c) == c \in Unapplied \cup Removing

(* The record, or the core, says of c what the database says.               *)
RecordAgrees(c) == c \in proc.cfg.clients <=> c \in db.clients
CoreAgrees(c)   == c \in core <=> c \in db.clients

(* What the core must still do for a client.                                *)
Wrong(c) == \/ ~CoreAgrees(c)
            \/ RestartOnDisable /\ c \in live \ db.clients

(* Whatever is wrong is about to be put right by somebody.                  *)
Owed(c) == proc.up /\ ~Coming /\ Wrong(c) => Pending(c)

(* Where the record agrees with the database, so does the core.             *)
Tracked(c) == proc.up /\ ~Pending(c) /\ RecordAgrees(c) => CoreAgrees(c)

(* A connection the core no longer knows the user of is one the next config  *)
(* will drop.                                                               *)
Recorded(c) == RestartOnDisable /\ c \in live \ core => c \in proc.cfg.clients

(* A config on its way into the core is the database's.                     *)
Fresh(c) == MidRestart => (c \in rx.cfg.clients <=> c \in db.clients)

(* The edit a call is about to apply is still wanted.                       *)
Aims(c) == \A o \in Calls : call[o].pc = "push" /\ call[o].client = c =>
             /\ o \in Adds  => c \in db.clients
             /\ o \in Drops => /\ c \notin db.clients
                               /\ RestartOnDisable /\ c \in live => c \in core

(* So is a depletion's; RestartXray's own has a caller who remembers.        *)
Depletes(c) == /\ c \in Removing => c \notin db.clients /\ c \notin Unapplied
               /\ rx.pc = "deplete" /\ rx.cur = c => rx.by \in {"cron", "poll"}

Kept(c) == /\ Owed(c) /\ Tracked(c) /\ Recorded(c) /\ Fresh(c) /\ Aims(c)
           /\ Depletes(c)

(* Live edits are applied one at a time, no core runs after a manual stop,    *)
(* and the poll reports what it needs.                                      *)
Reports == /\ \A o, p \in Calls : call[o].pc = "push" /\ call[p].pc = "push" => o = p
           /\ stopped => ~proc.up
           /\ pollNeed => who["poll"] \in {"wait", "running", "report"}

KInv == Reports /\ \A c \in Clients \ crossed : Kept(c)

LEMMA KeptInit == Init => KInv
<1> SUFFICES ASSUME Init PROVE KInv
  OBVIOUS
<1>1. Unapplied = {} /\ Removing = {} /\ ~MidRestart
  BY DEF Init, Free, Unapplied, Removing, MidRestart, Callers
<1>2. ASSUME NEW c \in Clients PROVE Kept(c)
  BY <1>1 DEF Init, Free, Kept, Owed, Wrong, Pending, RecordAgrees, CoreAgrees,
              Tracked, Recorded, Fresh, Aims, Depletes
<1>3. QED
  BY <1>2 DEF Init, KInv, Reports

(* Nothing the invariant looks at has changed.                              *)
LEMMA KeptStutter ==
  ASSUME KInv, UNCHANGED vars PROVE KInv'
<1>1. Unapplied' = Unapplied /\ Removing' = Removing /\ Coming' = Coming
  BY DEF vars, Unapplied, Removing, Coming, Sure
<1>2. ASSUME NEW c \in Clients \ crossed PROVE Kept(c)'
  BY <1>1 DEF vars, KInv, Kept, Owed, Wrong, Pending, RecordAgrees, CoreAgrees,
              Tracked, Recorded, Fresh, MidRestart, Aims, Depletes
<1>3. QED
  BY <1>2 DEF vars, KInv, Reports

(* A step that leaves a client and its edit alone, and no restart due        *)
(* undone, keeps it.                                                        *)
LEMMA KeptUntouched ==
  ASSUME NEW c \in Clients, Kept(c),
         c \in db'.clients <=> c \in db.clients,
         c \in core' <=> c \in core,
         c \in live' => c \in live,
         UNCHANGED proc,
         (c \in Unapplied)' <=> c \in Unapplied,
         (c \in Removing)' <=> c \in Removing,
         Coming => Coming',
         MidRestart' => MidRestart /\ rx'.cfg = rx.cfg,
         rx'.pc = "deplete" /\ rx'.cur = c =>
           rx.pc = "deplete" /\ rx.cur = c /\ rx'.by = rx.by,
         \A o \in Calls : call'[o].pc = "push" /\ call'[o].client = c =>
                            call[o].pc = "push" /\ call[o].client = c
  PROVE  Kept(c)'
<1>1. Owed(c)'
  BY DEF Kept, Owed, Wrong, CoreAgrees, Pending
<1>2. Tracked(c)' /\ Recorded(c)'
  BY DEF Kept, Tracked, Recorded, RecordAgrees, CoreAgrees, Pending
<1>3. Fresh(c)' /\ Depletes(c)'
  BY DEF Kept, Fresh, Depletes
<1>4. Aims(c)'
  BY DEF Kept, Aims
<1>5. QED
  BY <1>1, <1>2, <1>3, <1>4 DEF Kept

(* A client with a connection that is served or recorded as the database     *)
(* says is still in the core.                                               *)
LEMMA StillIn ==
  ASSUME IInv, NEW c \in Clients, Kept(c), RestartOnDisable, ~Pending(c),
         c \in db.clients, c \in live
  PROVE  c \in core
<1>1. proc.up
  BY DEF IInv, TypeOK, DownServesNobody
<1>2. QED
  BY <1>1 DEF Kept, Tracked, Recorded, RecordAgrees, CoreAgrees

(* A live edit is committed outside a restart, or its client is booked.      *)
LEMMA KeptCommit ==
  ASSUME IInv, KInv, NEW o \in Calls, NEW c \in Clients, CallCommit(o, c)
  PROVE  KInv'
<1> USE DEF CallCommit, IInv, TypeOK, Typed
<1>1. /\ call'[o] = [pc |-> "push", client |-> c]
      /\ \A p \in Calls \ {o} : call'[p] = call[p]
      /\ \A p \in Calls : call[p].pc # "push"
  OBVIOUS
<1>2. Unapplied = {} /\ Unapplied' = {c}
  BY <1>1 DEF Unapplied
<1>3. Removing = {} /\ Removing' = {}
  BY DEF Removing, WriterFree
<1>4. /\ \A d \in Clients \ {c} : d \in db'.clients <=> d \in db.clients
      /\ o \in Adds => c \notin db.clients /\ c \in db'.clients
      /\ o \notin Adds => c \in db.clients /\ c \notin db'.clients
  BY DEF Configs
<1>5. Coming => Coming'
  BY <1>1 DEF Coming, Sure
<1>6. Reports'
  BY <1>1 DEF KInv, Reports
<1>7. ASSUME NEW d \in Clients \ crossed', d # c PROVE Kept(d)'
  <2>1. Kept(d)
    BY <1>7 DEF KInv, CommitCrosses
  <2>2. QED
    BY <1>1, <1>2, <1>3, <1>4, <1>5, <1>7, <2>1, KeptUntouched DEF MidRestart
<1>8. ASSUME c \notin crossed' PROVE Kept(c)'
  <2>1. Kept(c) /\ ~MidRestart
    BY <1>8 DEF KInv, CommitCrosses
  <2>2. ~Pending(c)
    BY <1>2, <1>3 DEF Pending
  <2>3. Pending(c)'
    BY <1>2 DEF Pending
  <2>4. Owed(c)' /\ Tracked(c)'
    BY <2>3 DEF Owed, Tracked
  <2>5. Recorded(c)' /\ Fresh(c)'
    BY <2>1 DEF Kept, Recorded, Fresh, MidRestart
  <2>6. Aims(c)'
    BY <1>1, <1>4, <2>1, <2>2, StillIn, CallsAssumption DEF Aims, Calls
  <2>7. Depletes(c)'
    BY <1>3, <2>1 DEF Kept, Depletes, WriterFree
  <2>8. QED
    BY <2>4, <2>5, <2>6, <2>7 DEF Kept
<1>9. QED
  BY <1>6, <1>7, <1>8 DEF KInv

(* A live edit reaches the core, or the restart it asks for will see it, or   *)
(* its client is booked.                                                    *)
LEMMA KeptPush ==
  ASSUME IInv, KInv, NEW o \in Calls, CallPush(o)
  PROVE  KInv'
<1> USE DEF CallPush, IInv, TypeOK, Typed
<1>0. PICK c \in Clients : c = call[o].client
  BY DEF Named
<1>1. c \in Clients /\ call[o].pc = "push" /\ call[o].client = c
  BY <1>0
<1>2. /\ Unapplied = {c}
      /\ \A p \in Calls \ {o} : call[p].pc # "push"
  BY <1>1 DEF Unapplied, KInv, Reports
<1>3. PICK needRestart \in BOOLEAN : Pushed(o, needRestart)
  OBVIOUS
<1>4. PICK pc \in {"flag", "done"} : call' = [call EXCEPT ![o].pc = pc]
  BY <1>3 DEF Pushed
<1>5. UNCHANGED <<db, proc, live, flag, stopped, rx, who, depleted, pollNeed>>
  BY DEF Pushed, RemoveUser, AddUser, AddError, ApiError
<1>6. Unapplied' = {} /\ Removing' = Removing
  BY <1>2, <1>4, <1>5 DEF Unapplied, Removing
<1>7. Reports'
  BY <1>2, <1>4, <1>5 DEF KInv, Reports
<1>8. Coming => Coming'
  BY <1>1, <1>4, <1>5 DEF Coming, Sure
<1>9. \A d \in Clients \ {c} : d \in core' <=> d \in core
  BY <1>1 DEF RemoveUser, AddUser, AddError, ApiError
<1>10. crossed \subseteq crossed'
  BY <1>3 DEF Pushed, ApplyCrosses
<1>11. \A p \in Calls : call'[p].pc # "push"
  BY <1>2, <1>4
<1>12. ASSUME NEW d \in Clients \ crossed', d # c PROVE Kept(d)'
  <2>1. Kept(d)
    BY <1>10, <1>12 DEF KInv
  <2>2. QED
    BY <1>2, <1>5, <1>6, <1>8, <1>9, <1>11, <1>12, <2>1, KeptUntouched DEF MidRestart
<1>13. ASSUME c \notin crossed' PROVE Kept(c)'
  <2>1. Kept(c)
    BY <1>1, <1>10, <1>13 DEF KInv
  <2>2. /\ o \in Adds  => c \in db.clients
        /\ o \in Drops => c \notin db.clients
        /\ o \in Drops /\ RestartOnDisable /\ c \in live => c \in core
    BY <1>1, <2>1 DEF Kept, Aims
  <2>3. Pushed(o, TRUE) => ~RecordAgrees(c)
    BY <1>1, <1>13 DEF Pushed, ApplyCrosses, RecordAgrees
  <2>4. Pushed(o, TRUE) => Coming'
    BY <1>1 DEF Pushed, Coming
  <2>5. CASE Pushed(o, TRUE)
    <3>1. Owed(c)' /\ Tracked(c)'
      BY <1>5, <2>3, <2>4, <2>5 DEF Owed, Tracked, RecordAgrees
    <3>2. Recorded(c)'
      BY <1>1, <1>5, <2>1, <2>2, <2>3, <2>5, CallsAssumption
         DEF Kept, Recorded, RecordAgrees, RemoveUser, AddUser, AddError, ApiError
    <3>3. QED
      BY <1>5, <1>6, <1>11, <2>1, <3>1, <3>2
         DEF Kept, Fresh, MidRestart, Aims, Depletes
  <2>6. CASE ~Pushed(o, TRUE)
    <3>1. CoreAgrees(c)' /\ Recorded(c)' /\ ~Wrong(c)'
      <4>1. CASE o \in Adds /\ AddUser(c)
        BY <1>1, <1>5, <2>2, <4>1 DEF AddUser, CoreAgrees, Recorded, Wrong
      <4>2. CASE o \in Drops /\ RemoveUser(c) /\ Pushed(o, c \in core /\ RestartOnDisable)
        <5>1. c \notin core \/ ~RestartOnDisable
          BY <2>6, <4>2
        <5>2. QED
          BY <1>1, <1>5, <2>1, <2>2, <4>2, <5>1
             DEF RemoveUser, CoreAgrees, Recorded, Wrong, Kept
      <4>3. QED
        BY <1>1, <2>6, <4>1, <4>2
    <3>2. QED
      BY <1>5, <1>6, <1>11, <2>1, <3>1
         DEF Kept, Owed, Tracked, Fresh, MidRestart, Aims, Depletes
  <2>7. QED
    BY <2>5, <2>6
<1>14. QED
  BY <1>7, <1>12, <1>13 DEF KInv

(* The poll's depletion: committed outside a restart and after every edit of  *)
(* its client, or the client is booked.                                     *)
LEMMA KeptPollCommit ==
  ASSUME IInv, KInv, NEW c \in Clients, PollCommit(c)
  PROVE  KInv'
<1> USE DEF PollCommit, IInv, TypeOK, Typed
<1> USE NoneAssumption DEF Callers
<1>1. Removing = {} /\ Removing' = {c}
  BY DEF Removing, WriterFree
<1>2. Unapplied' = Unapplied
  BY DEF Unapplied
<1>3. db'.clients = db.clients \ {c}
  BY DEF Configs
<1>4. Coming => Coming'
  BY DEF Coming, Sure
<1>5. Reports'
  BY DEF KInv, Reports
<1>6. ASSUME NEW d \in Clients \ crossed', d # c PROVE Kept(d)'
  <2>1. Kept(d)
    BY DEF KInv, CommitCrosses
  <2>2. QED
    BY <1>1, <1>2, <1>3, <1>4, <1>6, <2>1, KeptUntouched DEF MidRestart
<1>7. ASSUME c \notin crossed' PROVE Kept(c)'
  <2>1. Kept(c) /\ ~MidRestart /\ c \notin Unapplied
    BY <1>7 DEF KInv, CommitCrosses
  <2>2. Pending(c)'
    BY <1>1 DEF Pending
  <2>3. Owed(c)' /\ Tracked(c)'
    BY <2>2 DEF Owed, Tracked
  <2>4. Recorded(c)' /\ Fresh(c)'
    BY <2>1 DEF Kept, Recorded, Fresh, MidRestart
  <2>5. Aims(c)'
    BY <2>1 DEF Aims, Unapplied
  <2>6. Depletes(c)'
    BY <1>1, <1>2, <1>3, <2>1 DEF Depletes, WriterFree
  <2>7. QED
    BY <2>3, <2>4, <2>5, <2>6 DEF Kept
<1>8. QED
  BY <1>5, <1>6, <1>7 DEF KInv

(* The poll's removal reaches the core, or the restart it asks for will see   *)
(* the client gone, or the client is booked.                                *)
LEMMA KeptPollApply ==
  ASSUME IInv, KInv, PollApply
  PROVE  KInv'
<1> USE DEF PollApply, IInv, TypeOK, Typed
<1> USE NoneAssumption DEF Callers
<1>1. PICK c \in Clients : c = depleted
  BY DEF Named
<1>2. Unapplied' = Unapplied
  BY DEF Unapplied
<1>3. UNCHANGED <<db, proc, live, flag, stopped, rx, call>>
  BY DEF RemoveUser, ApiError
<1>4. \A d \in Clients \ {c} : d \in core' <=> d \in core
  BY <1>1 DEF RemoveUser, ApiError
<1>5. /\ c \in Removing
      /\ \A d \in Clients \ {c} : (d \in Removing)' <=> d \in Removing
  BY <1>1, <1>3 DEF Removing
<1>6. pollNeed => who["poll"] # "apply"
  BY DEF KInv, Reports
<1>7. Coming => Coming'
  BY <1>3, <1>6 DEF Coming, Sure
<1>8. Reports'
  BY <1>3, <1>6 DEF KInv, Reports, RemoveUser, ApiError
<1>9. crossed \subseteq crossed'
  BY DEF ApplyCrosses
<1>10. ASSUME NEW d \in Clients \ crossed', d # c PROVE Kept(d)'
  <2>1. Kept(d)
    BY <1>9, <1>10 DEF KInv
  <2>2. QED
    BY <1>2, <1>3, <1>4, <1>5, <1>7, <1>10, <2>1, KeptUntouched DEF MidRestart
<1>11. ASSUME c \notin crossed' PROVE Kept(c)'
  <2>1. Kept(c)
    BY <1>1, <1>9, <1>11 DEF KInv
  <2>2. c \notin db.clients /\ c \notin Unapplied
    BY <1>5, <2>1 DEF Kept, Depletes
  <2>3. Fresh(c)' /\ Aims(c)' /\ Depletes(c)'
    <3>1. Aims(c)'
      BY <1>3, <2>2 DEF Aims, Unapplied
    <3>2. QED
      BY <1>2, <1>3, <2>1, <2>2, <3>1 DEF Kept, Fresh, MidRestart, Depletes
  <2>4. pollNeed' \/ RestartOnDisable => ~RecordAgrees(c) /\ Coming'
    BY <1>1, <1>11 DEF ApplyCrosses, RecordAgrees, Coming
  <2>5. CASE pollNeed' \/ RestartOnDisable
    <3>1. Owed(c)' /\ Tracked(c)' /\ Recorded(c)'
      BY <1>3, <2>2, <2>4, <2>5 DEF Owed, Tracked, Recorded, RecordAgrees
    <3>2. QED
      BY <2>3, <3>1 DEF Kept
  <2>6. CASE ~pollNeed' /\ ~RestartOnDisable
    <3>1. c \notin core'
      BY <1>1, <2>6 DEF RemoveUser
    <3>2. Owed(c)' /\ Tracked(c)' /\ Recorded(c)'
      BY <1>3, <2>2, <2>6, <3>1 DEF Owed, Wrong, Tracked, Recorded, CoreAgrees
    <3>3. QED
      BY <2>3, <3>2 DEF Kept
  <2>7. QED
    BY <2>5, <2>6
<1>12. QED
  BY <1>8, <1>10, <1>11 DEF KInv

(* What only hands the need for a restart on.                               *)
LEMMA KeptHandOn ==
  ASSUME IInv, KInv, \/ PollReport \/ CronStep \/ WatchTick
                     \/ ForceRestart \/ SaveSettings
                     \/ \E o \in Calls : CallFlag(o)
  PROVE  KInv'
<1> USE DEF IInv, TypeOK, Typed
<1> USE NoneAssumption DEF Callers
<1>1. /\ UNCHANGED <<proc, core, live, stopped, rx, depleted, crossed>>
      /\ db'.clients = db.clients
  <2>1. CASE PollReport \/ CronStep \/ WatchTick \/ \E o \in Calls : CallFlag(o)
    BY <2>1 DEF PollReport, CronStep, CronSwap, CronRearm, WatchTick, CallFlag
  <2>2. CASE ForceRestart \/ SaveSettings
    BY <2>2 DEF ForceRestart, SaveSettings, Configs
  <2>3. QED
    BY <2>1, <2>2
<1>2. \A o \in Calls : /\ (call'[o].pc = "push") <=> (call[o].pc = "push")
                       /\ call'[o].client = call[o].client
  BY DEF PollReport, CronStep, CronSwap, CronRearm, WatchTick, ForceRestart,
         SaveSettings, CallFlag
<1>3. Unapplied' = Unapplied
  BY <1>2 DEF Unapplied
<1>4. Removing' = Removing
  BY <1>1 DEF Removing, PollReport, CronStep, CronSwap, CronRearm, WatchTick,
         ForceRestart, SaveSettings, CallFlag
<1>5. Coming => Coming'
  BY <1>1 DEF Coming, Sure, PollReport, CronStep, CronSwap, CronRearm, WatchTick,
         ForceRestart, SaveSettings, CallFlag
<1>6. Reports'
  <2>1. \A o, p \in Calls : call'[o].pc = "push" /\ call'[p].pc = "push" => o = p
    BY <1>2 DEF KInv, Reports
  <2>2. (pollNeed => who["poll"] \in {"wait", "running", "report"})'
    BY DEF KInv, Reports, PollReport, CronStep, CronSwap, CronRearm, WatchTick,
           ForceRestart, SaveSettings, CallFlag
  <2>3. QED
    BY <1>1, <2>1, <2>2 DEF KInv, Reports
<1>7. ASSUME NEW c \in Clients \ crossed' PROVE Kept(c)'
  <2>1. Kept(c)
    BY <1>1 DEF KInv
  <2>2. QED
    BY <1>1, <1>2, <1>3, <1>4, <1>5, <2>1, KeptUntouched DEF MidRestart
<1>8. QED
  BY <1>6, <1>7 DEF KInv

(* The core goes down, or a client connects through it.                     *)
LEMMA KeptCore ==
  ASSUME IInv, KInv, StopXray \/ Crash \/ \E c \in Clients : Connect(c)
  PROVE  KInv'
<1> USE DEF IInv, TypeOK, Typed
<1>1. UNCHANGED <<db, flag, rx, who, call, depleted, pollNeed, crossed>>
  BY DEF StopXray, Crash, Connect
<1>2. Unapplied' = Unapplied /\ Removing' = Removing /\ Coming' = Coming
  BY <1>1 DEF Unapplied, Removing, Coming, Sure
<1>3. Reports'
  BY <1>1 DEF KInv, Reports, StopXray, Crash, Connect, CoreDown
<1>4. ASSUME NEW c \in Clients \ crossed', StopXray \/ Crash PROVE Kept(c)'
  <2>1. Kept(c)
    BY <1>1 DEF KInv
  <2>2. Owed(c)' /\ Tracked(c)' /\ Recorded(c)'
    BY <1>4 DEF Owed, Tracked, Recorded, StopXray, Crash, CoreDown
  <2>3. Fresh(c)' /\ Depletes(c)'
    BY <1>1, <1>2, <2>1 DEF Kept, Fresh, MidRestart, Depletes
  <2>4. Aims(c)'
    BY <1>1, <1>4, <2>1 DEF Kept, Aims, StopXray, Crash, CoreDown
  <2>5. QED
    BY <2>2, <2>3, <2>4 DEF Kept
<1>5. ASSUME NEW c \in Clients \ crossed', NEW d \in Clients, Connect(d) PROVE Kept(c)'
  <2>1. /\ Kept(c) /\ d \in core /\ live' = live \cup {d}
        /\ UNCHANGED <<proc, core>>
    BY <1>1, <1>5 DEF KInv, Connect
  <2>2. Tracked(c)' /\ Recorded(c)' /\ Fresh(c)' /\ Depletes(c)'
    BY <1>1, <1>2, <2>1 DEF Kept, Tracked, Pending, RecordAgrees, CoreAgrees,
       Recorded, Fresh, MidRestart, Depletes
  <2>3. Aims(c)'
    BY <1>1, <2>1 DEF Kept, Aims
  <2>4. Owed(c)'
    BY <1>1, <1>2, <2>1 DEF Kept, Owed, Wrong, CoreAgrees, Pending
  <2>5. QED
    BY <2>2, <2>3, <2>4 DEF Kept
<1>6. QED
  BY <1>3, <1>4, <1>5 DEF KInv

-----------------------------------------------------------------------------
(* RestartXray.                                                             *)
LEMMA KeptEnter ==
  ASSUME IInv, KInv, NEW a \in Callers, RxEnter(a) \/ RxRefuse(a)
  PROVE  KInv'
<1> USE DEF IInv, TypeOK, Typed
<1> USE NoneAssumption DEF Callers
<1>1. /\ rx.pc = "free"
      /\ UNCHANGED <<db, proc, core, live, flag, call, depleted, pollNeed, crossed>>
  BY DEF RxEnter, RxRefuse
<1>2. rx'.pc \in {"free", "read"}
  BY <1>1 DEF RxEnter, RxRefuse, Enter, Free
<1>3. (who'["poll"] = "apply") <=> (who["poll"] = "apply")
  BY DEF RxEnter, RxRefuse, After
<1>4. Unapplied' = Unapplied /\ Removing' = Removing
  BY <1>1, <1>2, <1>3 DEF Unapplied, Removing
<1>5. Reports'
  BY <1>1 DEF KInv, Reports, RxEnter, RxRefuse, After
<1>6. proc.up => (Coming => Coming')
  <2>1. CASE RxRefuse(a)
    BY <2>1 DEF RxRefuse, KInv, Reports
  <2>2. CASE RxEnter(a)
    <3>1. rx'.pc = "read" /\ rx'.by = a
      BY <2>2 DEF RxEnter, Enter, Free
    <3>2. a \in {"cron", "poll"} => Sure'
      BY <3>1 DEF Sure
    <3>3. QED
      BY <1>1, <2>2, <3>2 DEF Coming, Sure, RxEnter
  <2>3. QED
    BY <2>1, <2>2
<1>7. ASSUME NEW c \in Clients \ crossed' PROVE Kept(c)'
  <2>1. Kept(c)
    BY <1>1 DEF KInv
  <2>2. Owed(c)' /\ Tracked(c)' /\ Recorded(c)'
    BY <1>1, <1>4, <1>6, <2>1
       DEF Kept, Owed, Wrong, Tracked, Recorded, RecordAgrees, CoreAgrees, Pending
  <2>3. Fresh(c)' /\ Aims(c)' /\ Depletes(c)'
    BY <1>1, <1>2, <1>4, <2>1 DEF Kept, Fresh, MidRestart, Aims, Depletes
  <2>4. QED
    BY <2>2, <2>3 DEF Kept
<1>8. QED
  BY <1>5, <1>7 DEF KInv

(* RestartXray's own depletion.                                             *)
LEMMA KeptRxDeplete ==
  ASSUME IInv, KInv, NEW c \in Clients, RxDeplete(c)
  PROVE  KInv'
<1> USE DEF RxDeplete, IInv, TypeOK, Typed
<1>1. Removing = {} /\ Removing' = {c}
  BY DEF Removing, WriterFree
<1>2. Unapplied' = Unapplied
  BY DEF Unapplied
<1>3. db'.clients = db.clients \ {c}
  BY DEF Configs
<1>4. rx'.pc = "deplete" /\ rx'.cur = c /\ rx'.by = rx.by /\ rx.pc = "read"
  OBVIOUS
<1>5. Coming => Coming'
  BY <1>4 DEF Coming, Sure
<1>6. Reports'
  BY DEF KInv, Reports
<1>7. ASSUME NEW d \in Clients \ crossed', d # c PROVE Kept(d)'
  <2>1. Kept(d)
    BY <1>7 DEF KInv, CommitCrosses
  <2>2. QED
    BY <1>1, <1>2, <1>3, <1>4, <1>5, <1>7, <2>1, KeptUntouched DEF MidRestart
<1>8. ASSUME c \notin crossed' PROVE Kept(c)'
  <2>1. Kept(c) /\ c \notin Unapplied /\ rx.by \in {"cron", "poll"}
    BY <1>8 DEF KInv, CommitCrosses
  <2>2. Pending(c)'
    BY <1>1 DEF Pending
  <2>3. Owed(c)' /\ Tracked(c)'
    BY <2>2 DEF Owed, Tracked
  <2>4. Recorded(c)' /\ Fresh(c)'
    BY <1>4, <2>1 DEF Kept, Recorded, Fresh, MidRestart
  <2>5. Aims(c)'
    BY <2>1 DEF Aims, Unapplied
  <2>6. Depletes(c)'
    BY <1>1, <1>2, <1>3, <1>4, <2>1 DEF Depletes
  <2>7. QED
    BY <2>3, <2>4, <2>5, <2>6 DEF Kept
<1>9. QED
  BY <1>6, <1>7, <1>8 DEF KInv

LEMMA KeptRxDepleteApply ==
  ASSUME IInv, KInv, RxDepleteApply
  PROVE  KInv'
<1> USE DEF RxDepleteApply, IInv, TypeOK, Typed
<1>1. PICK c \in Clients : c = rx.cur
  BY DEF Named
<1>2. /\ UNCHANGED <<db, proc, live, who, call, depleted, flag, pollNeed, stopped>>
      /\ rx.pc = "deplete" /\ rx'.pc = "read" /\ rx'.by = rx.by
  BY DEF RemoveUser, ApiError
<1>3. Unapplied' = Unapplied
  BY <1>2 DEF Unapplied
<1>4. \A d \in Clients \ {c} : d \in core' <=> d \in core
  BY <1>1 DEF RemoveUser, ApiError
<1>5. /\ c \in Removing
      /\ \A d \in Clients \ {c} : (d \in Removing)' <=> d \in Removing
  BY <1>1, <1>2 DEF Removing
<1>6. Coming => Coming'
  BY <1>2 DEF Coming, Sure
<1>7. Reports'
  BY <1>2 DEF KInv, Reports
<1>8. crossed \subseteq crossed'
  BY DEF ApplyCrosses
<1>9. ASSUME NEW d \in Clients \ crossed', d # c PROVE Kept(d)'
  <2>1. Kept(d)
    BY <1>8, <1>9 DEF KInv
  <2>2. QED
    BY <1>2, <1>3, <1>4, <1>5, <1>6, <1>9, <2>1, KeptUntouched DEF MidRestart
<1>10. ASSUME c \notin crossed' PROVE Kept(c)'
  <2>1. Kept(c)
    BY <1>1, <1>8, <1>10 DEF KInv
  <2>2. c \notin db.clients /\ c \notin Unapplied /\ rx.by \in {"cron", "poll"}
    BY <1>1, <1>2, <1>5, <2>1 DEF Kept, Depletes
  <2>3. Owed(c)'
    BY <1>2, <2>2 DEF Owed, Coming, Sure
  <2>4. Aims(c)'
    BY <1>2, <2>2 DEF Aims, Unapplied
  <2>5. Fresh(c)' /\ Depletes(c)'
    BY <1>2, <1>3, <2>2 DEF Fresh, MidRestart, Depletes
  <2>6. Tracked(c)' /\ Recorded(c)'
    <3>1. CASE RemoveUser(c) /\ ApplyCrosses(c, RestartOnDisable)
      <4>1. c \notin core' /\ (RestartOnDisable => ~RecordAgrees(c))
        BY <1>10, <3>1 DEF RemoveUser, ApplyCrosses, RecordAgrees
      <4>2. QED
        BY <1>2, <2>2, <4>1 DEF Tracked, Recorded, RecordAgrees, CoreAgrees
    <3>2. CASE ApiError /\ ApplyCrosses(c, TRUE)
      <4>1. ~RecordAgrees(c)
        BY <1>10, <3>2 DEF ApplyCrosses, RecordAgrees
      <4>2. QED
        BY <1>2, <2>2, <4>1 DEF Tracked, Recorded, RecordAgrees
    <3>3. QED
      BY <1>1, <3>1, <3>2
  <2>7. QED
    BY <2>1, <2>3, <2>4, <2>5, <2>6 DEF Kept
<1>11. QED
  BY <1>7, <1>9, <1>10 DEF KInv

(* The config is read.                                                      *)
LEMMA KeptRead ==
  ASSUME IInv, KInv, RxRead
  PROVE  KInv'
<1> USE DEF RxRead, IInv, TypeOK, Typed
<1>1. rx.pc = "read" /\ rx'.pc = "decide" /\ rx'.by = rx.by /\ rx'.cfg = db
  OBVIOUS
<1>2. Unapplied' = Unapplied /\ Removing' = Removing
  BY <1>1 DEF Unapplied, Removing
<1>3. Coming => Coming'
  BY <1>1 DEF Coming, Sure
<1>4. Reports'
  BY DEF KInv, Reports
<1>5. ASSUME NEW c \in Clients \ crossed' PROVE Kept(c)'
  <2>1. Kept(c)
    BY DEF KInv
  <2>2. Owed(c)' /\ Tracked(c)' /\ Recorded(c)'
    BY <1>2, <1>3, <2>1
       DEF Kept, Owed, Wrong, Tracked, Recorded, RecordAgrees, CoreAgrees, Pending
  <2>3. Fresh(c)' /\ Aims(c)' /\ Depletes(c)'
    BY <1>1, <1>2, <2>1 DEF Kept, Fresh, Aims, Depletes
  <2>4. QED
    BY <2>2, <2>3 DEF Kept
<1>6. QED
  BY <1>4, <1>5 DEF KInv

(* The caller leaves the lock: a failure it remembers is a restart due.      *)
LEMMA Leaves ==
  ASSUME IInv, KInv, NEW failed \in BOOLEAN, Return(failed),
         rx.pc \notin {"free", "deplete"}
  PROVE  /\ UNCHANGED <<db, flag, stopped, call, depleted>>
         /\ rx'.pc = "free"
         /\ Unapplied' = Unapplied /\ Removing' = Removing
         /\ (pollNeed => who["poll"] \in {"wait", "running", "report"})'
         /\ (Coming /\ ~Sure) \/ (failed /\ rx.by \in {"cron", "poll"}) => Coming'
<1> USE DEF IInv, TypeOK, Typed, Return
<1> USE NoneAssumption DEF Callers
<1>1. rx'.pc = "free" /\ Unapplied' = Unapplied
  BY DEF Free, Unapplied
<1>2. rx.by \in Callers /\ who[rx.by] = "running"
  BY DEF Held
<1>3. /\ who'[rx.by] = After(rx.by, failed)
      /\ \A a \in Callers \ {rx.by} : who'[a] = who[a]
  BY <1>2
<1>4. (who'["poll"] = "apply") <=> (who["poll"] = "apply")
  BY <1>2, <1>3 DEF After
<1>5. Removing' = Removing
  BY <1>1, <1>4 DEF Removing
<1>6. (pollNeed => who["poll"] \in {"wait", "running", "report"})'
  BY <1>2, <1>3 DEF After, KInv, Reports
<1>7. failed /\ rx.by \in {"cron", "poll"} => Coming'
  BY <1>3 DEF Coming, After
<1>8. Coming /\ ~Sure => Coming'
  BY <1>2, <1>3 DEF Coming, After
<1>9. QED
  BY <1>1, <1>5, <1>6, <1>7, <1>8

(* A RestartXray that ends without having changed the core.                  *)
LEMMA KeptEnd ==
  ASSUME IInv, KInv, RxFail \/ RxStartFails \/ RxFinish
  PROVE  KInv'
<1> USE DEF IInv, TypeOK, Typed
<1>1. PICK failed \in BOOLEAN :
        /\ Return(failed) /\ rx.pc \notin {"free", "deplete"}
        /\ failed \/ rx.pc = "finish"
  BY DEF RxFail, RxStartFails, RxFinish
<1>2. /\ UNCHANGED <<db, flag, stopped, call, depleted>>
      /\ rx'.pc = "free"
      /\ Unapplied' = Unapplied /\ Removing' = Removing
      /\ (pollNeed => who["poll"] \in {"wait", "running", "report"})'
      /\ (Coming /\ ~Sure) \/ (failed /\ rx.by \in {"cron", "poll"}) => Coming'
  BY <1>1, Leaves
<1>3. Coming => Coming'
  BY <1>1, <1>2 DEF Sure
<1>4. UNCHANGED <<core, live, crossed>> /\ (~proc'.up \/ UNCHANGED proc)
  <2>1. CASE RxStartFails
    BY <2>1 DEF RxStartFails
  <2>2. CASE RxFail \/ RxFinish
    BY <2>2 DEF RxFail, RxFinish
  <2>3. QED
    BY <2>1, <2>2
<1>5. ~proc'.up => core = {} /\ live = {}
  BY <1>4 DEF RxFail, RxStartFails, RxFinish, OneCore, DownServesNobody
<1>6. Reports'
  BY <1>2, <1>4 DEF KInv, Reports
<1>7. ASSUME NEW c \in Clients \ crossed' PROVE Kept(c)'
  <2>1. Kept(c)
    BY <1>4 DEF KInv
  <2>2. Owed(c)' /\ Tracked(c)' /\ Recorded(c)'
    BY <1>2, <1>3, <1>4, <1>5, <2>1
       DEF Kept, Owed, Wrong, Tracked, Recorded, RecordAgrees, CoreAgrees, Pending
  <2>3. Fresh(c)' /\ Aims(c)' /\ Depletes(c)'
    BY <1>2, <1>4, <2>1 DEF Kept, Fresh, MidRestart, Aims, Depletes
  <2>4. QED
    BY <2>2, <2>3 DEF Kept
<1>8. QED
  BY <1>6, <1>7 DEF KInv

(* The running core is found right, or made right through its API; a hot      *)
(* apply reaches only the clients the record and the config differ about.    *)
LEMMA KeptApplied ==
  ASSUME IInv, KInv, RxUnchanged \/ RxHotApply
  PROVE  KInv'
<1> USE DEF IInv, TypeOK, Typed, Configs
<1>1. /\ Return(FALSE) /\ rx.pc = "decide" /\ proc.up /\ proc'.up
      /\ UNCHANGED live
  BY DEF RxUnchanged, RxHotApply
<1>2. /\ UNCHANGED <<db, flag, stopped, call, depleted>>
      /\ rx'.pc = "free"
      /\ Unapplied' = Unapplied /\ Removing' = Removing
      /\ (pollNeed => who["poll"] \in {"wait", "running", "report"})'
  BY <1>1, Leaves
<1>3. proc'.cfg.clients = rx.cfg.clients
  BY DEF RxUnchanged, RxHotApply, Changed
<1>4. RestartOnDisable => proc.cfg.clients \subseteq rx.cfg.clients
  BY DEF RxUnchanged, RxHotApply, Changed, Hot
<1>5. \A c \in Clients :
        c \in core' <=> IF c \in proc.cfg.clients <=> c \in rx.cfg.clients
                          THEN c \in core ELSE c \in rx.cfg.clients
  <2>1. CASE RxUnchanged
    BY <2>1 DEF RxUnchanged, Changed
  <2>2. CASE RxHotApply
    BY <2>2 DEF RxHotApply
  <2>3. QED
    BY <2>1, <2>2
<1>6. \A c \in Clients \ crossed' :
        \/ c \notin crossed
        \/ /\ c \in rx.cfg.clients <=> c \in db.clients
           /\ ~(c \in proc.cfg.clients <=> c \in rx.cfg.clients)
           /\ ~Pending(c)
  BY DEF RxUnchanged, RxHotApply, Mends, Pending
<1>7. Reports'
  BY <1>1, <1>2 DEF KInv, Reports
<1>8. ASSUME NEW c \in Clients \ crossed' PROVE Kept(c)'
  <2>1. c \in rx.cfg.clients <=> c \in db.clients
    BY <1>1, <1>6 DEF KInv, Kept, Fresh, MidRestart
  <2>2. RecordAgrees(c)' /\ (Pending(c)' <=> Pending(c))
    BY <1>2, <1>3, <2>1 DEF RecordAgrees, Pending
  <2>3. ~Pending(c) => CoreAgrees(c)'
    BY <1>1, <1>2, <1>5, <1>6, <2>1
       DEF KInv, Kept, Tracked, RecordAgrees, CoreAgrees
  <2>4. Recorded(c)'
    BY <1>1, <1>3, <1>4, <1>5, <1>6, <2>1 DEF KInv, Kept, Recorded
  <2>5. ~Pending(c) => ~Wrong(c)'
    BY <1>1, <1>2, <2>1, <2>2, <2>3, <2>4, <1>3
       DEF Wrong, CoreAgrees, RecordAgrees, Recorded
  <2>6. Owed(c)' /\ Tracked(c)' /\ Fresh(c)'
    BY <1>2, <2>2, <2>3, <2>5 DEF Owed, Tracked, Fresh, MidRestart
  <2>7. Aims(c)' /\ Depletes(c)'
    <3>1. CASE c \in crossed
      BY <1>2, <1>6, <3>1 DEF Pending, Aims, Depletes, Unapplied
    <3>2. CASE c \notin crossed
      <4>1. Kept(c)
        BY <3>2 DEF KInv
      <4>2. RestartOnDisable /\ c \in core => c \in core'
        BY <1>4, <1>5
      <4>3. QED
        BY <1>1, <1>2, <4>1, <4>2 DEF Kept, Aims, Depletes
    <3>3. QED
      BY <3>1, <3>2
  <2>8. QED
    BY <2>4, <2>6, <2>7 DEF Kept
<1>9. QED
  BY <1>7, <1>8 DEF KInv

(* The core is to be replaced, and the old one is taken down.               *)
LEMMA KeptStop ==
  ASSUME IInv, KInv, RxHotFails \/ RxMustRestart \/ RxDown \/ RxStop
  PROVE  KInv'
<1> USE DEF IInv, TypeOK, Typed
<1>1. /\ rx.pc \in {"decide", "stop"} /\ rx'.pc \in {"stop", "start"}
      /\ rx'.by = rx.by /\ rx'.cfg = rx.cfg
      /\ UNCHANGED <<db, flag, stopped, who, call, depleted, pollNeed>>
  <2>1. PICK pc \in {"stop", "start"} : Proceed(pc)
    BY DEF RxHotFails, RxMustRestart, RxDown, RxStop
  <2>2. rx.pc \in {"decide", "stop"}
    BY DEF RxHotFails, RxMustRestart, RxDown, RxStop
  <2>3. QED
    BY <2>1, <2>2 DEF Proceed
<1>2. Unapplied' = Unapplied /\ Removing' = Removing
  BY <1>1 DEF Unapplied, Removing
<1>3. UNCHANGED crossed /\ (UNCHANGED <<proc, core, live>> \/ CoreDown)
  BY DEF RxHotFails, RxMustRestart, RxDown, RxStop
<1>4. Coming => Coming'
  BY <1>1 DEF Coming, Sure
<1>5. Reports'
  BY <1>1, <1>3 DEF KInv, Reports, CoreDown
<1>6. ASSUME NEW c \in Clients \ crossed' PROVE Kept(c)'
  <2>1. Kept(c)
    BY <1>3 DEF KInv
  <2>2. Fresh(c)' /\ Depletes(c)'
    BY <1>1, <1>2, <2>1 DEF Kept, Fresh, MidRestart, Depletes
  <2>3. CASE CoreDown
    BY <1>1, <2>1, <2>2, <2>3 DEF CoreDown, Kept, Owed, Tracked, Recorded, Aims
  <2>4. CASE UNCHANGED <<proc, core, live>>
    BY <1>1, <1>2, <1>4, <2>1, <2>2, <2>4
       DEF Kept, Owed, Wrong, Tracked, Recorded, RecordAgrees, CoreAgrees, Pending,
           Aims
  <2>5. QED
    BY <1>3, <2>3, <2>4
<1>7. QED
  BY <1>5, <1>6 DEF KInv

(* The new core serves what the database says, of every client whose edits    *)
(* have not crossed or have now been made good.                             *)
LEMMA KeptStart ==
  ASSUME IInv, KInv, RxStart
  PROVE  KInv'
<1> USE DEF RxStart, IInv, TypeOK, Typed, Configs
<1>1. /\ rx.pc = "start" /\ rx'.pc = "finish"
      /\ UNCHANGED <<db, flag, stopped, who, call, depleted, pollNeed>>
  BY DEF Proceed
<1>2. Unapplied' = Unapplied /\ Removing' = Removing
  BY <1>1 DEF Unapplied, Removing
<1>3. core' = rx.cfg.clients /\ proc'.cfg.clients = rx.cfg.clients /\ live' = {}
  OBVIOUS
<1>4. \A c \in Clients \ crossed' :
        \/ c \notin crossed
        \/ (c \in rx.cfg.clients <=> c \in db.clients) /\ ~Pending(c)
  BY DEF Mends, Pending
<1>5. Reports'
  BY <1>1 DEF KInv, Reports, LockedIsWanted
<1>6. ASSUME NEW c \in Clients \ crossed' PROVE Kept(c)'
  <2>1. c \in rx.cfg.clients <=> c \in db.clients
    BY <1>1, <1>4 DEF KInv, Kept, Fresh, MidRestart
  <2>2. Owed(c)' /\ Tracked(c)' /\ Recorded(c)' /\ Fresh(c)'
    BY <1>1, <1>3, <2>1 DEF Owed, Wrong, Tracked, CoreAgrees, Recorded, Fresh, MidRestart
  <2>3. Aims(c)' /\ Depletes(c)'
    <3>1. CASE c \in crossed
      BY <1>1, <1>2, <1>4, <3>1 DEF Pending, Aims, Depletes, Unapplied
    <3>2. CASE c \notin crossed
      BY <1>1, <1>2, <1>3, <3>2 DEF KInv, Kept, Aims, Depletes
    <3>3. QED
      BY <3>1, <3>2
  <2>4. QED
    BY <2>2, <2>3 DEF Kept
<1>7. QED
  BY <1>5, <1>6 DEF KInv

LEMMA KeptStep == IInv /\ KInv /\ [Next]_vars => KInv'
<1> SUFFICES ASSUME IInv, KInv, [Next]_vars PROVE KInv'
  OBVIOUS
<1>1. CASE \E o \in Calls, c \in Clients : CallCommit(o, c)
  BY <1>1, KeptCommit
<1>2. CASE \E o \in Calls : CallStep(o)
  BY <1>2, KeptPush, KeptHandOn DEF CallStep
<1>3. CASE \E c \in Clients : PollCommit(c) \/ Connect(c)
  BY <1>3, KeptPollCommit, KeptCore
<1>4. CASE PollStep
  BY <1>4, KeptPollApply, KeptHandOn DEF PollStep
<1>5. CASE CronStep \/ WatchTick \/ ForceRestart \/ SaveSettings \/ StopXray \/ Crash
  BY <1>5, KeptHandOn, KeptCore
<1>6. CASE \E a \in Callers : RxEnter(a) \/ RxRefuse(a)
  BY <1>6, KeptEnter
<1>7. CASE RxStep
  BY <1>7, KeptRxDeplete, KeptRxDepleteApply, KeptRead, KeptApplied, KeptStop,
     KeptStart, KeptEnd DEF RxStep
<1>8. CASE UNCHANGED vars
  BY <1>8, KeptStutter
<1>9. QED
  BY <1>1, <1>2, <1>3, <1>4, <1>5, <1>6, <1>7, <1>8 DEF Next

LEMMA KeptInvariance == Spec => [](IInv /\ KInv)
<1>1. Init => IInv /\ KInv
  BY TypeInit, KeptInit
<1>2. (IInv /\ KInv) /\ [Next]_vars => (IInv /\ KInv)'
  BY InvStep, KeptStep
<1>3. QED
  BY <1>1, <1>2, PTL DEF Spec

(* With nothing pending nothing is coming and nothing is being removed.      *)
LEMMA AtRest ==
  ASSUME IInv, KInv, Settled
  PROVE  proc.up => \A c \in Clients \ crossed : ~Wrong(c)
<1>1. who["poll"] = "idle" /\ who["cron"] = "idle"
  BY DEF Settled, Callers
<1>2. ~Coming
  BY <1>1 DEF Settled, Coming, Sure, KInv, Reports
<1>3. Unapplied = {} /\ Removing = {}
  BY <1>1 DEF Settled, Unapplied, Removing
<1>4. QED
  BY <1>2, <1>3 DEF KInv, Kept, Owed, Pending

(* When nothing is pending, the running core serves exactly the clients the  *)
(* database says it should, whatever edits, depletions, failing calls,       *)
(* crashes, stops and restarts came before and however they interleaved; the  *)
(* one excuse is a client's own edit that crossed a restart or another edit   *)
(* and has not been made good since.                                        *)
THEOREM ServesWhatIsWanted == Spec => []ServedIsWanted
<1>1. IInv /\ KInv => ServedIsWanted
  BY AtRest DEF ServedIsWanted, ServesWanted, Wrong, CoreAgrees, IInv, TypeOK,
                Typed, Configs
<1>2. QED
  BY <1>1, KeptInvariance, PTL

(* With restartXrayOnClientDisable on, nothing pending means that no client  *)
(* whose service ended has kept a connection, with the same excuse.         *)
THEOREM ServiceEndsSessions == Spec => []SessionsEnd
<1>1. IInv /\ KInv => SessionsEnd
  BY AtRest DEF SessionsEnd, Wrong, IInv, TypeOK, Typed, DownServesNobody
<1>2. QED
  BY <1>1, KeptInvariance, PTL
=============================================================================
