------------------------ MODULE SidecarManagerProofs ------------------------
(***************************************************************************)
(* SidecarManager proved for every set of keys, configs and calls, and every *)
(* bound.                                                                   *)
(***************************************************************************)
EXTENDS SidecarManager, FiniteSetTheorems, TLAPS

-----------------------------------------------------------------------------
(* The types.                                                               *)

LEMMA IdleTypes ==
  /\ Unknown \in Records /\ Idle \in Steps
  /\ [Idle EXCEPT !.pc = "due"] \in Steps
<1>1. Unknown \in Records
  BY DEF Unknown, Records, Things
<1>2. Absent \in Wishes /\ Absent \in Things
  BY DEF Wishes, Things
<1>3. [k \in Keys |-> Absent] \in [Keys -> Wishes]
  BY <1>2
<1>4. Idle \in Steps
  BY <1>2, <1>3 DEF Idle, Steps
<1>5. [Idle EXCEPT !.pc = "due"] \in Steps
  BY <1>4 DEF Steps
<1> QED
  BY <1>1, <1>4, <1>5

LEMMA ThreadsFinite == IsFiniteSet(Threads)
<1> USE ThreadsAssumption
<1>1. IsFiniteSet(Loops)
  <2>1. IsFiniteSet({} \cup {Boot})
    BY FS_EmptySet, FS_AddElement
  <2>2. IsFiniteSet(({} \cup {Boot}) \cup {Job})
    BY <2>1, FS_AddElement
  <2>3. Loops = ({} \cup {Boot}) \cup {Job}
    BY DEF Loops
  <2> QED
    BY <2>2, <2>3
<1> QED
  BY <1>1, FS_Union DEF Threads

LEMMA LiveType ==
  ASSUME TypeOK, NEW k \in Keys
  PROVE  Running(k) \in Nat /\ Live(k) \in Nat
<1> DEFINE T == {t \in Threads : th[t].key = k /\ th[t].held # Absent}
<1>1. IsFiniteSet(T)
  BY ThreadsFinite, FS_Subset
<1>2. Cardinality(T) \in Nat
  BY <1>1, FS_CardinalityType
<1>3. Running(k) = (IF cores[k].runs # Absent THEN 1 ELSE 0) + Cardinality(T)
  BY DEF Running
<1>4. Running(k) \in Nat
  BY <1>2, <1>3
<1>5. stray[k] \in Nat
  BY DEF TypeOK
<1> QED
  BY <1>4, <1>5 DEF Live

LEMMA StepType ==
  ASSUME TypeOK, NEW t \in Threads
  PROVE  /\ th[t] \in Steps
         /\ th[t].todo \subseteq Keys /\ th[t].list \in [Keys -> Wishes]
         /\ th[t].key \in Keys \cup {Absent} /\ th[t].held \in Things
  BY DEF TypeOK, Steps

Pcs == {"idle", "due", "ensure", "sweep", "begun", "orphans", "remove", "removing"}

LEMMA Moved ==
  ASSUME NEW s \in Steps, NEW p \in Pcs, NEW ks \in SUBSET Keys,
         NEW k \in Keys \cup {Absent}, NEW h \in Things
  PROVE  /\ [s EXCEPT !.pc = p] \in Steps
         /\ [s EXCEPT !.todo = ks] \in Steps
         /\ [s EXCEPT !.pc = p, !.todo = ks] \in Steps
         /\ [s EXCEPT !.pc = p, !.key = k] \in Steps
         /\ [s EXCEPT !.pc = p, !.key = k, !.todo = ks] \in Steps
         /\ [s EXCEPT !.pc = p, !.key = k, !.held = h] \in Steps
         /\ [s EXCEPT !.pc = p, !.key = k, !.todo = ks, !.held = h] \in Steps
         /\ [s EXCEPT !.held = h, !.pc = p] \in Steps
  BY DEF Steps, Pcs

LEMMA RecordChanged ==
  ASSUME NEW r \in Records, NEW x \in Things, NEW y \in Things
  PROVE  /\ [r EXCEPT !.known = TRUE] \in Records
         /\ [r EXCEPT !.runs = x] \in Records
         /\ [r EXCEPT !.fp = y] \in Records
         /\ [r EXCEPT !.runs = x, !.fp = y] \in Records
  BY DEF Records

LEMMA ThreadStepType ==
  ASSUME th \in [Threads -> Steps], NEW t \in Threads, NEW s \in Steps,
         th' = [th EXCEPT ![t] = s]
  PROVE  th' \in [Threads -> Steps]
  OBVIOUS

LEMMA RecordStepType ==
  ASSUME cores \in [Keys -> Records], NEW k \in Keys, NEW r \in Records,
         cores' = [cores EXCEPT ![k] = r]
  PROVE  cores' \in [Keys -> Records]
  OBVIOUS

LEMMA TypeInit == Init => TypeOK
<1> SUFFICES ASSUME Init PROVE TypeOK
  OBVIOUS
<1> USE DEF Init
<1>1. cores \in [Keys -> Records] /\ th \in [Threads -> Steps]
  BY IdleTypes
<1>2. lock \in [Keys -> Threads \cup {Free}] /\ stray \in [Keys -> Nat]
      /\ toStop \in [Keys -> {"none", "stop", "replaced"}]
  OBVIOUS
<1> QED
  BY <1>1, <1>2 DEF TypeOK

LEMMA TypeSweep ==
  ASSUME TypeOK, NEW t \in Threads, MarkSwept(t) \/ KillStrays(t)
  PROVE  TypeOK'
<1>1. CASE MarkSwept(t)
  <2>1. [th[t] EXCEPT !.pc = "sweep"] \in Steps
    BY StepType DEF Steps
  <2>2. th' \in [Threads -> Steps]
    BY <1>1, <2>1 DEF MarkSwept, TypeOK
  <2> QED
    BY <1>1, <2>2 DEF MarkSwept, ManagerUnchanged, TypeOK
<1>2. CASE KillStrays(t)
  <2>1. \A k \in Keys : [cores[k] EXCEPT !.runs = Absent] \in Records
    BY DEF TypeOK, Records, Things
  <2>2. \A u \in Threads : [th[u] EXCEPT !.held = Absent,
                                        !.pc = IF u = t THEN "ensure" ELSE @] \in Steps
    BY StepType DEF Steps, Things
  <2>3. cores' \in [Keys -> Records] /\ th' \in [Threads -> Steps]
        /\ stray' \in [Keys -> Nat]
    BY <1>2, <2>1, <2>2 DEF KillStrays
  <2> QED
    BY <1>2, <2>3 DEF KillStrays, ManagerUnchanged, TypeOK
<1> QED
  BY <1>1, <1>2

LEMMA TypeBegin ==
  ASSUME TypeOK, NEW t \in Threads, NEW k \in Keys, Begin(t, k)
  PROVE  TypeOK'
<1>1. th' \in [Threads -> Steps]
  <2> DEFINE s == [th[t] EXCEPT !.pc = "begun", !.key = k, !.todo = th[t].todo \ {k}]
  <2>1. s \in Steps
    <3>1. th[t].todo \ {k} \in SUBSET Keys
      BY StepType
    <3> HIDE DEF s
    <3> QED
      BY <3>1, StepType, Moved DEF Pcs, s
  <2>2. th' = [th EXCEPT ![t] = s]
    BY DEF Begin
  <2> HIDE DEF s
  <2> QED
    BY <2>1, <2>2, ThreadStepType DEF TypeOK
<1>2. cores' \in [Keys -> Records]
  <2>1. [cores[k] EXCEPT !.known = TRUE] \in Records
    BY RecordChanged DEF TypeOK
  <2>2. cores' = [cores EXCEPT ![k] = [cores[k] EXCEPT !.known = TRUE]]
    BY DEF Begin
  <2> QED
    BY <2>1, <2>2, RecordStepType DEF TypeOK
<1>3. file' \in [Keys -> Things]
  <2>1. Written(file[k], th[t].list[k]) \in Things
    BY StepType DEF Written, TypeOK, Things, Wishes
  <2> QED
    BY <2>1 DEF TypeOK, Begin
<1>4. lock' \in [Keys -> Threads \cup {Free}]
  BY DEF TypeOK, Begin
<1> QED
  BY <1>1, <1>2, <1>3, <1>4 DEF Begin, ManagerUnchanged, TypeOK

LEMMA TypeUnlock ==
  ASSUME TypeOK, NEW t \in Threads, Unlock(t), th[t].key \in Keys
  PROVE  th' \in [Threads -> Steps] /\ lock' \in [Keys -> Threads \cup {Free}]
<1> DEFINE s == [th[t] EXCEPT !.pc = "ensure", !.key = Absent]
<1>1. s \in Steps
  <2> HIDE DEF s
  <2> QED
    BY StepType, Moved DEF Pcs, s
<1>2. th' = [th EXCEPT ![t] = s]
  BY DEF Unlock
<1>3. th' \in [Threads -> Steps]
  <2> HIDE DEF s
  <2> QED
    BY <1>1, <1>2, ThreadStepType DEF TypeOK
<1> QED
  BY <1>3 DEF Unlock, TypeOK

LEMMA TypeWork ==
  ASSUME TypeOK, NEW t \in Threads, th[t].key \in Keys,
         Halt(t) \/ HaltFails(t) \/ Conclude(t) \/ StartFails(t)
  PROVE  TypeOK'
<1> DEFINE k == th[t].key
<1>1. CASE Halt(t)
  <2>1. cores' = [cores EXCEPT ![k] = [cores[k] EXCEPT !.runs = Absent]]
    BY <1>1 DEF Halt
  <2>2. [cores[k] EXCEPT !.runs = Absent] \in Records
    BY RecordChanged DEF TypeOK, Things
  <2>3. cores' \in [Keys -> Records]
    BY <2>1, <2>2, RecordStepType DEF TypeOK
  <2> QED
    BY <1>1, <2>3 DEF Halt, ManagerUnchanged, TypeOK
<1>2. CASE HaltFails(t)
  BY <1>2, TypeUnlock, BoundsAssumption
  DEF HaltFails, Fault, ManagerUnchanged, TypeOK
<1>3. CASE Conclude(t)
  <2> DEFINE c == th[t].list[k]
             r == IF c = Off THEN [cores[k] EXCEPT !.fp = Absent]
                  ELSE [cores[k] EXCEPT !.runs = c, !.fp = c]
  <2>0. c \in Wishes
    BY StepType
  <2>1. r \in Records
    <3>1. CASE c = Off
      BY <3>1, RecordChanged DEF TypeOK, Things
    <3>2. CASE c # Off
      <4>1. c \in Things
        BY <2>0, <3>2 DEF Wishes, Things
      <4>2. cores[k] \in Records
        BY DEF TypeOK
      <4>3. [cores[k] EXCEPT !.runs = c, !.fp = c] \in Records
        BY <4>1, <4>2, RecordChanged
      <4> QED
        BY <3>2, <4>3
    <3> QED
      BY <3>1, <3>2
  <2>2. cores' = [cores EXCEPT ![k] = r]
    BY <1>3 DEF Conclude
  <2>3. cores' \in [Keys -> Records]
    <3> HIDE DEF r
    <3> QED
      BY <2>1, <2>2, RecordStepType DEF TypeOK
  <2> QED
    BY <1>3, <2>3, TypeUnlock DEF Conclude, ManagerUnchanged, TypeOK
<1>4. CASE StartFails(t)
  BY <1>4, TypeUnlock, BoundsAssumption
  DEF StartFails, Fault, ManagerUnchanged, TypeOK
<1> QED
  BY <1>1, <1>2, <1>3, <1>4

LEMMA TypeBeginRemove ==
  ASSUME TypeOK, NEW t \in Threads, NEW k \in Keys, BeginRemove(t, k)
  PROVE  TypeOK'
<1>0. th[t].todo \ {k} \in SUBSET Keys
  BY StepType
<1>1. CASE cores[k].known
  <2> DEFINE s == [th[t] EXCEPT !.pc = "removing", !.key = k, !.todo = th[t].todo \ {k},
                                !.held = cores[k].runs]
  <2>1. s \in Steps
    <3>1. cores[k].runs \in Things
      BY DEF TypeOK, Records
    <3> HIDE DEF s
    <3> QED
      BY <1>0, <3>1, StepType, Moved DEF Pcs, s
  <2>2. th' = [th EXCEPT ![t] = s]
    BY <1>1 DEF BeginRemove
  <2>3. th' \in [Threads -> Steps]
    <3> HIDE DEF s
    <3> QED
      BY <2>1, <2>2, ThreadStepType DEF TypeOK
  <2>4. cores' \in [Keys -> Records] /\ lock' \in [Keys -> Threads \cup {Free}]
    BY <1>1, IdleTypes DEF BeginRemove, TypeOK
  <2>5. toStop' \in [Keys -> {"none", "stop", "replaced"}]
    BY <1>1 DEF BeginRemove, TypeOK
  <2> QED
    BY <2>3, <2>4, <2>5 DEF BeginRemove, TypeOK
<1>2. CASE ~cores[k].known
  <2> DEFINE s == [th[t] EXCEPT !.todo = th[t].todo \ {k}]
  <2>1. s \in Steps
    <3>1. Absent \in Things /\ "remove" \in Pcs
      BY DEF Things, Pcs
    <3> HIDE DEF s
    <3> QED
      BY <1>0, <3>1, StepType, Moved DEF s
  <2>2. th' = [th EXCEPT ![t] = s]
    BY <1>2 DEF BeginRemove
  <2>3. th' \in [Threads -> Steps]
    <3> HIDE DEF s
    <3> QED
      BY <2>1, <2>2, ThreadStepType DEF TypeOK
  <2> QED
    BY <1>2, <2>3 DEF BeginRemove, TypeOK
<1> QED
  BY <1>1, <1>2

LEMMA TypeEndRemove ==
  ASSUME TypeOK, NEW t \in Threads, th[t].key \in Keys, EndRemove(t) \/ EndRemoveFails(t)
  PROVE  TypeOK'
<1> DEFINE s == [th[t] EXCEPT !.pc = "remove", !.key = Absent, !.held = Absent]
<1>0. Removed(t)
  BY DEF EndRemove, EndRemoveFails
<1>1. s \in Steps
  <2>1. Absent \in Things /\ "remove" \in Pcs
    BY DEF Things, Pcs
  <2> HIDE DEF s
  <2> QED
    BY <2>1, StepType, Moved DEF s
<1>2. th' = [th EXCEPT ![t] = s]
  BY <1>0 DEF Removed
<1>3. th' \in [Threads -> Steps]
  <2> HIDE DEF s
  <2> QED
    BY <1>1, <1>2, ThreadStepType DEF TypeOK
<1>4. lock' \in [Keys -> Threads \cup {Free}] /\ file' \in [Keys -> Things]
  BY <1>0 DEF Removed, TypeOK, Things
<1>5. CASE EndRemove(t)
  BY <1>3, <1>4, <1>5 DEF EndRemove, ManagerUnchanged, TypeOK
<1>6. CASE EndRemoveFails(t)
  <2>1. stray' \in [Keys -> Nat]
    BY <1>6 DEF EndRemoveFails, TypeOK
  <2> QED
    BY <1>3, <1>4, <1>6, <2>1, BoundsAssumption
    DEF EndRemoveFails, Fault, ManagerUnchanged, TypeOK
<1> QED
  BY <1>5, <1>6

LEMMA TypeReconcile ==
  ASSUME TypeOK, NEW t \in Threads, Start(t) \/ ListOrphans(t) \/ SweepFiles(t)
  PROVE  TypeOK'
<1>1. CASE Start(t)
  <2>1. [Idle EXCEPT !.pc = "ensure", !.list = wish, !.todo = Wanted(wish)] \in Steps
    BY IdleTypes DEF Steps, TypeOK, Wanted
  <2>2. th' \in [Threads -> Steps]
    BY <1>1, <2>1 DEF Start, TypeOK
  <2> QED
    BY <1>1, <2>2 DEF Start, ManagerUnchanged, TypeOK
<1>2. CASE ListOrphans(t)
  <2> DEFINE s == [th[t] EXCEPT !.pc = "remove", !.todo = Orphans(t)]
  <2>1. s \in Steps
    <3>1. Orphans(t) \in SUBSET Keys
      BY DEF Orphans
    <3> HIDE DEF s
    <3> QED
      BY <3>1, StepType, Moved DEF Pcs, s
  <2>2. th' = [th EXCEPT ![t] = s]
    BY <1>2 DEF ListOrphans
  <2>3. th' \in [Threads -> Steps]
    <3> HIDE DEF s
    <3> QED
      BY <2>1, <2>2, ThreadStepType DEF TypeOK
  <2> QED
    BY <1>2, <2>3 DEF ListOrphans, ManagerUnchanged, TypeOK
<1>3. CASE SweepFiles(t)
  <2>1. th' \in [Threads -> Steps]
    BY <1>3, IdleTypes DEF SweepFiles, TypeOK
  <2>2. file' \in [Keys -> Things]
    BY <1>3 DEF SweepFiles, TypeOK, Things
  <2> QED
    BY <1>3, <2>1, <2>2 DEF SweepFiles, ManagerUnchanged, TypeOK
<1> QED
  BY <1>1, <1>2, <1>3

LEMMA ToldType ==
  ASSUME NEW k \in Keys, NEW old \in Wishes, NEW new \in Wishes
  PROVE  Told(k, old, new) \in Steps
<1>1. [Idle.list EXCEPT ![k] = new] \in [Keys -> Wishes]
  BY IdleTypes DEF Steps
<1>2. {k} \in SUBSET Keys
  OBVIOUS
<1> DEFINE p == IF new \in Configs /\ old # Off THEN "ensure" ELSE "remove"
           l == [Idle.list EXCEPT ![k] = new]
<1>3. p \in Pcs
  BY DEF Pcs
<1>4. Told(k, old, new) = [Idle EXCEPT !.list = l, !.todo = {k}, !.pc = p]
  BY DEF Told
<1> HIDE DEF p, l
<1>5. l \in [Keys -> Wishes]
  BY <1>1 DEF l
<1> QED
  BY <1>2, <1>3, <1>4, <1>5, IdleTypes DEF Steps, Pcs

LEMMA TypeEdit ==
  ASSUME TypeOK, NEW t \in Callers, NEW k \in Keys, NEW w \in Wishes, Edit(t, k, w)
  PROVE  TypeOK'
<1>1. wish[k] \in Wishes /\ t \in Threads
  BY DEF TypeOK, Threads
<1>2. th' \in [Threads -> Steps]
  BY <1>1, ToldType, IdleTypes DEF Edit, TypeOK
<1>3. wish' \in [Keys -> Wishes] /\ edits' \in Nat
  BY DEF Edit, TypeOK
<1> QED
  BY <1>2, <1>3 DEF Edit, TypeOK

LEMMA TypeAnswer ==
  ASSUME TypeOK, NEW t \in Threads, Answer(t)
  PROVE  TypeOK'
<1> DEFINE again == {k \in Keys : th[t].pc = "remove" /\ th[t].list[k] \in Configs}
           s == IF again = {} THEN Idle
                ELSE [th[t] EXCEPT !.pc = "ensure", !.todo = again]
<1>1. s \in Steps
  <2>1. again \in SUBSET Keys
    OBVIOUS
  <2> HIDE DEF again
  <2>2. [th[t] EXCEPT !.pc = "ensure", !.todo = again] \in Steps
    BY <2>1, StepType, Moved DEF Pcs
  <2> QED
    BY <2>2, IdleTypes
<1>2. th' = [th EXCEPT ![t] = s]
  BY DEF Answer
<1>3. th' \in [Threads -> Steps]
  <2> HIDE DEF s
  <2> QED
    BY <1>1, <1>2, ThreadStepType DEF TypeOK
<1> QED
  BY <1>3 DEF Answer, ManagerUnchanged, TypeOK

LEMMA TypeShutdown ==
  ASSUME TypeOK, Shutdown
  PROVE  TypeOK'
  BY BoundsAssumption DEF Shutdown, Fault, TypeOK

LEMMA TypeStop ==
  ASSUME TypeOK, NEW k \in Keys, StopOne(k) \/ StopOneFails(k) \/ Crash(k)
  PROVE  TypeOK'
<1>1. [cores[k] EXCEPT !.runs = Absent] \in Records
      /\ [cores[k] EXCEPT !.runs = Absent, !.fp = Absent] \in Records
  BY RecordChanged DEF TypeOK, Things
<1>2. CASE StopOne(k)
  <2>1. cores' = [cores EXCEPT ![k] = [cores[k] EXCEPT !.runs = Absent, !.fp = Absent]]
        \/ cores' = cores
    BY <1>2 DEF StopOne
  <2>2. cores' \in [Keys -> Records]
    BY <1>1, <2>1, RecordStepType DEF TypeOK
  <2> QED
    BY <1>2, <2>2 DEF StopOne, TypeOK
<1>3. CASE StopOneFails(k)
  BY <1>3, BoundsAssumption DEF StopOneFails, Fault, TypeOK
<1>4. CASE Crash(k)
  <2>1. cores' = [cores EXCEPT ![k] = [cores[k] EXCEPT !.runs = Absent]]
    BY <1>4 DEF Crash
  <2>2. cores' \in [Keys -> Records]
    BY <1>1, <2>1, RecordStepType DEF TypeOK
  <2> QED
    BY <1>4, <2>2, BoundsAssumption DEF Crash, Fault, TypeOK
<1> QED
  BY <1>2, <1>3, <1>4

LEMMA TypePanel ==
  ASSUME TypeOK, Exit \/ PanelCrashes \/ PanelStarts
  PROVE  TypeOK'
<1>1. CASE Exit \/ PanelCrashes
  <2>1. Gone /\ faults' \in Nat
    BY <1>1, BoundsAssumption DEF Exit, PanelCrashes, Fault, TypeOK
  <2>2. stray' \in [Keys -> Nat]
    BY <2>1, LiveType DEF Gone
  <2>3. cores' \in [Keys -> Records] /\ th' \in [Threads -> Steps]
    BY <2>1, IdleTypes DEF Gone
  <2> QED
    BY <2>1, <2>2, <2>3 DEF Gone, TypeOK
<1>2. CASE PanelStarts
  <2>1. Boot \in Threads
    BY DEF Threads, Loops
  <2>2. [th[Boot] EXCEPT !.pc = "due"] \in Steps
    BY <2>1, StepType DEF Steps
  <2>3. th' \in [Threads -> Steps]
    BY <1>2, <2>1, <2>2 DEF PanelStarts, TypeOK
  <2> QED
    BY <1>2, <2>3 DEF PanelStarts, TypeOK
<1> QED
  BY <1>1, <1>2

-----------------------------------------------------------------------------
(* Who holds a key's lock.                                                  *)

Own(t) == th[t].pc \in {"begun", "removing"}

(* A thread inside Ensure or Remove has the key's lock, and whoever has it is  *)
(* inside; the process a Remove took out of the map is in no record.          *)
Locks ==
  /\ \A t \in Threads : Own(t) => th[t].key \in Keys /\ lock[th[t].key] = t
  /\ \A k \in Keys : lock[k] # Free => Own(lock[k]) /\ th[lock[k]].key = k
  /\ \A t \in Threads : th[t].held # Absent => th[t].pc = "removing"
  /\ \A t \in Threads : th[t].pc = "removing" => cores[th[t].key].runs = Absent

Down == panel = "down" => ~swept /\ \A t \in Threads : th[t].pc = "idle"

Clean == Cleared /\ ~escaped => \A k \in Keys : stray[k] = 0

IInv == TypeOK /\ Locks /\ Down /\ Clean

LEMMA InitInv == Init => IInv
<1> SUFFICES ASSUME Init PROVE IInv
  OBVIOUS
<1>1. TypeOK
  BY TypeInit
<1>2. \A t \in Threads : th[t] = Idle \/ th[t] = [Idle EXCEPT !.pc = "due"]
  BY DEF Init
<1>3. \A t \in Threads : ~Own(t) /\ th[t].held = Absent
  BY <1>2, IdleTypes DEF Idle, Own
<1>4. \A t \in Threads : th[t].pc # "removing"
  BY <1>3 DEF Own
<1>5. Locks
  BY <1>3, <1>4 DEF Locks, Init
<1>6. Down /\ Clean
  BY DEF Init, Down, Clean, Cleared
<1> QED
  BY <1>1, <1>5, <1>6 DEF IInv

(* A step of a thread that is in no critical section, and stays out of one.  *)
LEMMA LocksQuiet ==
  ASSUME TypeOK, TypeOK', Locks, NEW t \in Threads, ~Own(t), ~Own(t)', th'[t].held = Absent,
         \A u \in Threads \ {t} : th'[u] = th[u],
         lock' = lock, \A k \in Keys : cores'[k].runs \in {cores[k].runs, Absent}
  PROVE  Locks'
<1>1. \A u \in Threads : Own(u)' => u # t /\ Own(u) /\ th'[u] = th[u]
  BY DEF Own
<1>2. ASSUME NEW u \in Threads, Own(u)'
      PROVE  th'[u].key \in Keys /\ lock'[th'[u].key] = u
  BY <1>1, <1>2 DEF Locks
<1>3. ASSUME NEW k \in Keys, lock'[k] # Free
      PROVE  Own(lock[k])' /\ th'[lock'[k]].key = k
  <2>1. lock[k] \in Threads /\ Own(lock[k]) /\ th[lock[k]].key = k
    BY <1>3 DEF Locks, TypeOK
  <2>2. lock[k] # t /\ th'[lock[k]] = th[lock[k]]
    BY <2>1
  <2> QED
    BY <2>1, <2>2 DEF Own
<1>4. ASSUME NEW u \in Threads, th'[u].held # Absent
      PROVE  th'[u].pc = "removing"
  BY <1>4 DEF Locks
<1>5. ASSUME NEW u \in Threads, th'[u].pc = "removing"
      PROVE  cores'[th'[u].key].runs = Absent
  <2>1. Own(u)'
    BY <1>5 DEF Own
  <2>2. th'[u] = th[u] /\ th[u].key \in Keys /\ cores[th[u].key].runs = Absent
    BY <1>1, <1>5, <2>1 DEF Locks
  <2> QED
    BY <2>2
<1>6. \A k \in Keys : lock'[k] # Free => Own(lock[k])' /\ th'[lock'[k]].key = k
  BY <1>3
<1> QED
  BY <1>2, <1>4, <1>5, <1>6 DEF Locks, Own

(* A thread takes the lock of a free key.                                    *)
LEMMA LocksTaken ==
  ASSUME TypeOK, TypeOK', Locks, NEW t \in Threads, NEW k \in Keys, ~Own(t), lock[k] = Free,
         lock' = [lock EXCEPT ![k] = t], Own(t)', th'[t].key = k,
         \A u \in Threads \ {t} : th'[u] = th[u],
         th'[t].held # Absent => th'[t].pc = "removing",
         th'[t].pc = "removing" => cores'[k].runs = Absent,
         \A j \in Keys : cores'[j].runs \in {cores[j].runs, Absent}
  PROVE  Locks'
<1>0. \A u \in Threads : Own(u)' /\ u # t => Own(u) /\ th'[u] = th[u]
  BY DEF Own
<1>1. \A u \in Threads : Own(u) => th[u].key # k
  BY FreeAssumption DEF Locks
<1>2. ASSUME NEW u \in Threads, Own(u)'
      PROVE  th'[u].key \in Keys /\ lock'[th'[u].key] = u
  BY <1>0, <1>1, <1>2 DEF Locks, TypeOK
<1>3. ASSUME NEW j \in Keys, lock'[j] # Free
      PROVE  Own(lock[j])' /\ th'[lock'[j]].key = j
  <2>1. CASE j = k
    BY <2>1 DEF TypeOK, Own
  <2>2. CASE j # k
    <3>1. lock'[j] = lock[j] /\ lock[j] \in Threads /\ Own(lock[j]) /\ th[lock[j]].key = j
      BY <1>3, <2>2 DEF Locks, TypeOK
    <3>2. lock[j] # t /\ th'[lock[j]] = th[lock[j]]
      BY <3>1
    <3> QED
      BY <3>1, <3>2 DEF Own
  <2> QED
    BY <2>1, <2>2
<1>4. ASSUME NEW u \in Threads, th'[u].held # Absent
      PROVE  th'[u].pc = "removing"
  BY <1>4 DEF Locks
<1>5. ASSUME NEW u \in Threads, th'[u].pc = "removing"
      PROVE  cores'[th'[u].key].runs = Absent
  <2>1. CASE u = t
    BY <1>5, <2>1
  <2>2. CASE u # t
    <3>1. th'[u] = th[u] /\ th[u].pc = "removing"
      BY <1>5, <2>2
    <3>2. th[u].key \in Keys /\ cores[th[u].key].runs = Absent
      BY <3>1 DEF Locks, Own
    <3> QED
      BY <3>1, <3>2
  <2> QED
    BY <2>1, <2>2
<1>6. \A j \in Keys : lock'[j] # Free => Own(lock[j])' /\ th'[lock'[j]].key = j
  BY <1>3
<1> QED
  BY <1>2, <1>4, <1>5, <1>6 DEF Locks, Own

(* A thread gives the lock of its key back; of its key only it may have        *)
(* changed the process.                                                     *)
LEMMA LocksGiven ==
  ASSUME TypeOK, TypeOK', Locks, NEW t \in Threads, Own(t),
         lock' = [lock EXCEPT ![th[t].key] = Free], ~Own(t)', th'[t].held = Absent,
         \A u \in Threads \ {t} : th'[u] = th[u],
         \A j \in Keys \ {th[t].key} : cores'[j] = cores[j]
  PROVE  Locks'
<1> DEFINE k == th[t].key
<1>0. k \in Keys /\ lock[k] = t
  BY DEF Locks
<1>1. \A u \in Threads : Own(u)' => u # t /\ Own(u) /\ th'[u] = th[u]
  BY DEF Own
<1>2. \A u \in Threads : Own(u) /\ u # t => th[u].key # k
  BY <1>0 DEF Locks
<1>3. ASSUME NEW u \in Threads, Own(u)'
      PROVE  th'[u].key \in Keys /\ lock'[th'[u].key] = u
  BY <1>1, <1>2, <1>3 DEF Locks, TypeOK
<1>4. ASSUME NEW j \in Keys, lock'[j] # Free
      PROVE  Own(lock[j])' /\ th'[lock'[j]].key = j
  <2>1. j # k /\ lock'[j] = lock[j]
    BY <1>4, <1>0 DEF TypeOK
  <2>2. lock[j] \in Threads /\ Own(lock[j]) /\ th[lock[j]].key = j
    BY <1>4, <2>1 DEF Locks, TypeOK
  <2>3. lock[j] # t /\ th'[lock[j]] = th[lock[j]]
    BY <2>1, <2>2
  <2> QED
    BY <2>1, <2>2, <2>3 DEF Own
<1>5. ASSUME NEW u \in Threads, th'[u].held # Absent
      PROVE  th'[u].pc = "removing"
  BY <1>5 DEF Locks
<1>6. ASSUME NEW u \in Threads, th'[u].pc = "removing"
      PROVE  cores'[th'[u].key].runs = Absent
  <2>1. Own(u)'
    BY <1>6 DEF Own
  <2>2. u # t /\ Own(u) /\ th'[u] = th[u] /\ th[u].key # k
    BY <1>1, <1>2, <2>1
  <2>3. th[u].key \in Keys /\ cores[th[u].key].runs = Absent
    BY <1>6, <2>2 DEF Locks
  <2> QED
    BY <2>2, <2>3
<1>7. \A j \in Keys : lock'[j] # Free => Own(lock[j])' /\ th'[lock'[j]].key = j
  BY <1>4
<1> QED
  BY <1>3, <1>5, <1>6, <1>7 DEF Locks, Own

-----------------------------------------------------------------------------
(* The steps.                                                               *)

LEMMA KeyType ==
  ASSUME TypeOK, Locks, NEW t \in Threads, Own(t)
  PROVE  th[t].key \in Keys /\ lock[th[t].key] = t
  BY DEF Locks

LEMMA LoopsThreads == Boot \in Threads /\ Job \in Threads /\ Callers \subseteq Threads
  BY DEF Threads, Loops

LEMMA TypeStep ==
  ASSUME TypeOK, Locks, Next
  PROVE  TypeOK'
<1>1. ASSUME NEW t \in Threads, Step(t) \/ HaltFails(t) \/ StartFails(t) \/ EndRemoveFails(t)
      PROVE  TypeOK'
  <2>1. CASE Halt(t) \/ HaltFails(t) \/ Conclude(t) \/ StartFails(t)
    <3>1. Own(t)
      BY <2>1 DEF Halt, HaltFails, Conclude, StartFails, Own
    <3> QED
      BY <2>1, <3>1, KeyType, TypeWork
  <2>2. CASE EndRemove(t) \/ EndRemoveFails(t)
    <3>1. Own(t)
      BY <2>2 DEF EndRemove, EndRemoveFails, Own
    <3> QED
      BY <2>2, <3>1, KeyType, TypeEndRemove
  <2>3. CASE MarkSwept(t) \/ KillStrays(t)
    BY <2>3, TypeSweep
  <2>4. CASE ListOrphans(t) \/ SweepFiles(t)
    BY <2>4, TypeReconcile
  <2>5. CASE Answer(t)
    BY <2>5, TypeAnswer
  <2>6. CASE \E k \in Keys : Begin(t, k) \/ BeginRemove(t, k)
    BY <2>6, TypeBegin, TypeBeginRemove
  <2> QED
    BY <1>1, <2>1, <2>2, <2>3, <2>4, <2>5, <2>6 DEF Step
<1>2. ASSUME NEW t \in Callers, NEW k \in Keys, NEW w \in Wishes, Edit(t, k, w)
      PROVE  TypeOK'
  BY <1>2, TypeEdit
<1>3. ASSUME NEW k \in Keys, StopOne(k) \/ StopOneFails(k) \/ Crash(k)
      PROVE  TypeOK'
  BY <1>3, TypeStop
<1>4. CASE StartBoot \/ StartJob
  BY <1>4, LoopsThreads, TypeReconcile DEF StartBoot, StartJob
<1>5. CASE Shutdown
  BY <1>5, TypeShutdown
<1>6. CASE Exit \/ PanelCrashes \/ PanelStarts
  BY <1>6, TypePanel
<1> QED
  BY <1>1, <1>2, <1>3, <1>4, <1>5, <1>6 DEF Next

LEMMA LocksEnsure ==
  ASSUME TypeOK, TypeOK', Locks, NEW t \in Threads,
         Halt(t) \/ HaltFails(t) \/ Conclude(t) \/ StartFails(t)
  PROVE  Locks'
<1>0. th[t].pc = "begun" /\ Own(t)
  BY DEF Halt, HaltFails, Conclude, StartFails, Own
<1>1. th[t].key \in Keys /\ th[t].held = Absent
  BY <1>0 DEF Locks
<1>2. CASE Halt(t)
  <2>1. UNCHANGED <<th, lock>>
    BY <1>2 DEF Halt
  <2>2. \A k \in Keys : cores'[k].runs \in {cores[k].runs, Absent}
    BY <1>2 DEF Halt, TypeOK, Records
  <2>3. ASSUME NEW u \in Threads, th[u].pc = "removing"
        PROVE  cores'[th[u].key].runs = Absent
    <3>1. th[u].key \in Keys /\ cores[th[u].key].runs = Absent
      BY <2>3 DEF Locks, Own
    <3> QED
      BY <2>2, <3>1
  <2> QED
    BY <2>1, <2>3 DEF Locks, Own
<1>3. CASE HaltFails(t) \/ Conclude(t) \/ StartFails(t)
  <2>1. Unlock(t)
    BY <1>3 DEF HaltFails, Conclude, StartFails
  <2>2. th'[t].pc = "ensure" /\ th'[t].held = Absent
        /\ \A u \in Threads \ {t} : th'[u] = th[u]
    BY <1>1, <2>1, StepType DEF Unlock, TypeOK, Steps
  <2>3. \A j \in Keys \ {th[t].key} : cores'[j] = cores[j]
    BY <1>3 DEF HaltFails, Conclude, StartFails, TypeOK
  <2>4. ~Own(t)'
    BY <2>2 DEF Own
  <2>5. lock' = [lock EXCEPT ![th[t].key] = Free]
    BY <2>1 DEF Unlock
  <2> QED
    BY <1>0, <2>2, <2>3, <2>4, <2>5, LocksGiven
<1> QED
  BY <1>2, <1>3

LEMMA LocksEndRemove ==
  ASSUME TypeOK, TypeOK', Locks, NEW t \in Threads, EndRemove(t) \/ EndRemoveFails(t)
  PROVE  Locks'
<1>0. Own(t) /\ Removed(t) /\ cores' = cores
  BY DEF EndRemove, EndRemoveFails, Own
<1>1. th'[t].pc = "remove" /\ th'[t].held = Absent
      /\ \A u \in Threads \ {t} : th'[u] = th[u]
  BY <1>0, StepType DEF Removed, TypeOK, Steps
<1>2. ~Own(t)' /\ lock' = [lock EXCEPT ![th[t].key] = Free]
  BY <1>0, <1>1 DEF Own, Removed
<1> QED
  BY <1>0, <1>1, <1>2, LocksGiven

LEMMA LocksBegin ==
  ASSUME TypeOK, TypeOK', Locks, NEW t \in Threads, NEW k \in Keys, Begin(t, k)
  PROVE  Locks'
<1>0. th[t].pc = "ensure" /\ ~Own(t) /\ lock[k] = Free
  BY DEF Begin, Own, Unlocked
<1>1. th[t].held = Absent
  BY <1>0 DEF Locks
<1>2. th'[t].pc = "begun" /\ th'[t].key = k /\ th'[t].held = Absent
      /\ \A u \in Threads \ {t} : th'[u] = th[u]
  BY <1>1, StepType DEF Begin, TypeOK, Steps
<1>3. \A j \in Keys : cores'[j].runs = cores[j].runs
  BY DEF Begin, TypeOK, Records
<1>4. Own(t)' /\ lock' = [lock EXCEPT ![k] = t]
  BY <1>2 DEF Own, Begin
<1> QED
  BY <1>0, <1>2, <1>3, <1>4, LocksTaken

LEMMA LocksBeginRemove ==
  ASSUME TypeOK, TypeOK', Locks, NEW t \in Threads, NEW k \in Keys, BeginRemove(t, k)
  PROVE  Locks'
<1>0. th[t].pc = "remove" /\ ~Own(t) /\ lock[k] = Free
  BY DEF BeginRemove, Own, Unlocked
<1>1. th[t].held = Absent
  BY <1>0 DEF Locks
<1>2. CASE cores[k].known
  <2>1. th'[t].pc = "removing" /\ th'[t].key = k
        /\ \A u \in Threads \ {t} : th'[u] = th[u]
    BY <1>2, StepType DEF BeginRemove, TypeOK, Steps
  <2>2. cores' = [cores EXCEPT ![k] = Unknown]
    BY <1>2 DEF BeginRemove
  <2>3. cores'[k].runs = Absent /\ \A j \in Keys : cores'[j].runs \in {cores[j].runs, Absent}
    BY <2>2 DEF TypeOK, Unknown
  <2>4. Own(t)' /\ lock' = [lock EXCEPT ![k] = t]
    BY <1>2, <2>1 DEF Own, BeginRemove
  <2> QED
    BY <1>0, <2>1, <2>3, <2>4, LocksTaken
<1>3. CASE ~cores[k].known
  <2>1. th'[t].pc = "remove" /\ th'[t].held = Absent
        /\ \A u \in Threads \ {t} : th'[u] = th[u]
    BY <1>0, <1>1, <1>3, StepType DEF BeginRemove, TypeOK, Steps
  <2>2. ~Own(t)' /\ lock' = lock /\ cores' = cores
    BY <1>3, <2>1 DEF Own, BeginRemove
  <2> QED
    BY <1>0, <2>1, <2>2, LocksQuiet
<1> QED
  BY <1>2, <1>3

(* The records only lose processes, and no thread moves.                     *)
LEMMA LocksStill ==
  ASSUME Locks, UNCHANGED <<th, lock>>, \A k \in Keys : cores'[k].runs \in {cores[k].runs, Absent}
  PROVE  Locks'
<1>1. ASSUME NEW u \in Threads, th[u].pc = "removing"
      PROVE  cores'[th[u].key].runs = Absent
  <2>1. th[u].key \in Keys /\ cores[th[u].key].runs = Absent
    BY <1>1 DEF Locks, Own
  <2> QED
    BY <2>1
<1> QED
  BY <1>1 DEF Locks, Own

LEMMA LocksOutside ==
  ASSUME TypeOK, TypeOK', Locks, NEW t \in Threads,
         MarkSwept(t) \/ ListOrphans(t) \/ SweepFiles(t) \/ Answer(t)
  PROVE  Locks'
<1>0. th[t].pc \in {"ensure", "remove"} /\ ~Own(t)
  BY DEF MarkSwept, ListOrphans, SweepFiles, Answer, Own
<1>1. th[t].held = Absent
  BY <1>0 DEF Locks
<1>2. UNCHANGED <<lock, cores>>
  BY DEF MarkSwept, ListOrphans, SweepFiles, Answer
<1>3. Idle.pc = "idle" /\ Idle.held = Absent
  BY DEF Idle
<1>4. th'[t].pc \notin {"begun", "removing"} /\ th'[t].held = Absent
      /\ \A u \in Threads \ {t} : th'[u] = th[u]
  <2>1. CASE MarkSwept(t)
    BY <1>1, <2>1, StepType DEF MarkSwept, TypeOK, Steps
  <2>2. CASE ListOrphans(t)
    BY <1>1, <2>2, StepType DEF ListOrphans, TypeOK, Steps
  <2>3. CASE SweepFiles(t)
    BY <1>3, <2>3 DEF SweepFiles, TypeOK
  <2>4. CASE Answer(t)
    <3> DEFINE again == {k \in Keys : th[t].pc = "remove" /\ th[t].list[k] \in Configs}
               s == IF again = {} THEN Idle
                    ELSE [th[t] EXCEPT !.pc = "ensure", !.todo = again]
    <3>1. th' = [th EXCEPT ![t] = s]
      BY <2>4 DEF Answer
    <3>2. s.pc \in {"idle", "ensure"} /\ s.held = Absent
      <4> HIDE DEF again
      <4> QED
        BY <1>1, <1>3, StepType DEF Steps
    <3> HIDE DEF s
    <3> QED
      BY <3>1, <3>2 DEF TypeOK
  <2> QED
    BY <2>1, <2>2, <2>3, <2>4
<1>5. ~Own(t)'
  BY <1>4 DEF Own
<1> QED
  BY <1>0, <1>2, <1>4, <1>5, LocksQuiet

LEMMA LocksKill ==
  ASSUME TypeOK, TypeOK', Locks, NEW t \in Threads, KillStrays(t)
  PROVE  Locks'
<1>1. \A u \in Threads : /\ th'[u].held = Absent /\ th'[u].key = th[u].key
                         /\ th'[u].pc = IF u = t THEN "ensure" ELSE th[u].pc
  BY StepType DEF KillStrays, Steps
<1>2. th[t].pc = "sweep" /\ th'[t].pc = "ensure"
  BY <1>1 DEF KillStrays
<1>3. \A u \in Threads : Own(u)' <=> Own(u)
  BY <1>1, <1>2 DEF Own
<1>4. \A k \in Keys : cores'[k].runs = Absent
  <2>1. \A k \in Keys : [cores[k] EXCEPT !.runs = Absent].runs = Absent
    BY DEF TypeOK, Records
  <2>2. \A k \in Keys : cores'[k] = [cores[k] EXCEPT !.runs = Absent]
    BY DEF KillStrays
  <2> QED
    BY <2>1, <2>2
<1>5. lock' = lock
  BY DEF KillStrays
<1>6. \A u \in Threads : Own(u)' => th'[u].key \in Keys /\ lock'[th'[u].key] = u
  BY <1>1, <1>3, <1>5 DEF Locks
<1>7. \A k \in Keys : lock[k] # Free => Own(lock[k])' /\ th'[lock[k]].key = k
  <2> SUFFICES ASSUME NEW k \in Keys, lock[k] # Free
               PROVE  Own(lock[k])' /\ th'[lock[k]].key = k
    BY <1>5
  <2>1. lock[k] \in Threads /\ Own(lock[k]) /\ th[lock[k]].key = k
    BY DEF Locks, TypeOK
  <2>2. lock[k] # t
    BY <1>2, <2>1 DEF Own
  <2>3. th'[lock[k]].pc = th[lock[k]].pc /\ th'[lock[k]].key = k
    BY <1>1, <2>1, <2>2
  <2> QED
    BY <1>5, <2>1, <2>3 DEF Own
<1>8. \A u \in Threads : th'[u].pc = "removing" => cores'[th'[u].key].runs = Absent
  BY <1>4, <1>6 DEF Own
<1> QED
  BY <1>1, <1>5, <1>6, <1>7, <1>8 DEF Locks, Own

LEMMA LocksStart ==
  ASSUME TypeOK, TypeOK', Locks, NEW t \in Threads, ~Own(t), Start(t)
  PROVE  Locks'
<1>1. th'[t].pc = "ensure" /\ th'[t].held = Absent
      /\ \A u \in Threads \ {t} : th'[u] = th[u]
  BY DEF Start, TypeOK, Idle
<1>2. ~Own(t)' /\ UNCHANGED <<lock, cores>>
  BY <1>1 DEF Own, Start
<1> QED
  BY <1>1, <1>2, LocksQuiet

LEMMA LocksEdit ==
  ASSUME TypeOK, TypeOK', Locks, NEW t \in Callers, NEW k \in Keys, NEW w \in Wishes,
         Edit(t, k, w)
  PROVE  Locks'
<1>1. t \in Threads /\ ~Own(t)
  BY DEF Threads, Edit, Own
<1>2. \A old, new : Told(k, old, new).pc \in {"ensure", "remove"}
                    /\ Told(k, old, new).held = Absent
  BY DEF Told, Idle
<1>3. th'[t].pc \notin {"begun", "removing"} /\ th'[t].held = Absent
      /\ \A u \in Threads \ {t} : th'[u] = th[u]
  BY <1>1, <1>2 DEF Edit, TypeOK, Idle
<1>4. ~Own(t)' /\ UNCHANGED <<lock, cores>>
  BY <1>3 DEF Own, Edit
<1> QED
  BY <1>1, <1>3, <1>4, LocksQuiet

LEMMA LocksPanel ==
  ASSUME TypeOK, TypeOK', Locks, Down, Exit \/ PanelCrashes \/ PanelStarts
  PROVE  Locks'
<1>1. CASE Exit \/ PanelCrashes
  <2>1. Gone
    BY <1>1 DEF Exit, PanelCrashes
  <2>2. \A t \in Threads : th'[t].pc = "idle" /\ th'[t].held = Absent
    BY <2>1 DEF Gone, Idle
  <2>3. \A k \in Keys : lock'[k] = Free
    BY <2>1 DEF Gone
  <2> QED
    BY <2>2, <2>3 DEF Locks, Own
<1>2. CASE PanelStarts
  <2>1. \A t \in Threads : th[t].pc = "idle" /\ ~Own(t)
    BY <1>2 DEF PanelStarts, Down, Own
  <2>2. th'[Boot].pc = "due" /\ th'[Boot].held = Absent
        /\ \A u \in Threads \ {Boot} : th'[u] = th[u]
    BY <1>2, <2>1, LoopsThreads, StepType DEF PanelStarts, TypeOK, Steps, Locks
  <2>3. ~Own(Boot)' /\ UNCHANGED <<lock, cores>>
    BY <1>2, <2>2 DEF Own, PanelStarts
  <2> QED
    BY <2>1, <2>2, <2>3, LoopsThreads, LocksQuiet
<1> QED
  BY <1>1, <1>2

LEMMA LocksStep ==
  ASSUME TypeOK, TypeOK', Locks, Down, Next
  PROVE  Locks'
<1>1. ASSUME NEW t \in Threads, Step(t) \/ HaltFails(t) \/ StartFails(t) \/ EndRemoveFails(t)
      PROVE  Locks'
  <2>1. CASE Halt(t) \/ HaltFails(t) \/ Conclude(t) \/ StartFails(t)
    BY <2>1, LocksEnsure
  <2>2. CASE EndRemove(t) \/ EndRemoveFails(t)
    BY <2>2, LocksEndRemove
  <2>3. CASE KillStrays(t)
    BY <2>3, LocksKill
  <2>4. CASE MarkSwept(t) \/ ListOrphans(t) \/ SweepFiles(t) \/ Answer(t)
    BY <2>4, LocksOutside
  <2>5. CASE \E k \in Keys : Begin(t, k) \/ BeginRemove(t, k)
    BY <2>5, LocksBegin, LocksBeginRemove
  <2> QED
    BY <1>1, <2>1, <2>2, <2>3, <2>4, <2>5 DEF Step
<1>2. ASSUME NEW t \in Callers, NEW k \in Keys, NEW w \in Wishes, Edit(t, k, w)
      PROVE  Locks'
  BY <1>2, LocksEdit
<1>3. ASSUME NEW k \in Keys, StopOne(k) \/ StopOneFails(k) \/ Crash(k)
      PROVE  Locks'
  <2>1. UNCHANGED <<th, lock>>
    BY <1>3 DEF StopOne, StopOneFails, Crash
  <2>2. \A j \in Keys : cores'[j].runs \in {cores[j].runs, Absent}
    BY <1>3 DEF StopOne, StopOneFails, Crash, TypeOK, Records
  <2> QED
    BY <2>1, <2>2, LocksStill
<1>4. CASE StartBoot
  <2>1. ~Own(Boot)
    BY <1>4 DEF StartBoot, Own
  <2> QED
    BY <1>4, <2>1, LoopsThreads, LocksStart DEF StartBoot
<1>5. CASE StartJob
  <2>1. ~Own(Job)
    BY <1>5 DEF StartJob, Own
  <2> QED
    BY <1>5, <2>1, LoopsThreads, LocksStart DEF StartJob
<1>6. CASE Shutdown
  BY <1>6, LocksStill DEF Shutdown
<1>7. CASE Exit \/ PanelCrashes \/ PanelStarts
  BY <1>7, LocksPanel
<1> QED
  BY <1>1, <1>2, <1>3, <1>4, <1>5, <1>6, <1>7 DEF Next

LEMMA DownStep ==
  ASSUME Down, Next
  PROVE  Down'
<1>1. ASSUME NEW t \in Threads, Step(t) \/ HaltFails(t) \/ StartFails(t) \/ EndRemoveFails(t)
      PROVE  panel # "down" /\ panel' = panel
  <2>1. th[t].pc # "idle"
    BY <1>1
    DEF Step, MarkSwept, KillStrays, Halt, Conclude, EndRemove, ListOrphans, SweepFiles,
        Answer, Begin, BeginRemove, HaltFails, StartFails, EndRemoveFails
  <2>2. panel' = panel
    BY <1>1
    DEF Step, MarkSwept, KillStrays, Halt, Conclude, EndRemove, ListOrphans, SweepFiles,
        Answer, Begin, BeginRemove, HaltFails, StartFails, EndRemoveFails, ManagerUnchanged
  <2> QED
    BY <2>1, <2>2 DEF Down
<1>2. ASSUME NEW t \in Callers, NEW k \in Keys, NEW w \in Wishes, Edit(t, k, w)
      PROVE  Down'
  BY <1>2 DEF Edit, Down
<1>3. ASSUME NEW k \in Keys, StopOne(k) \/ StopOneFails(k) \/ Crash(k)
      PROVE  Down'
  BY <1>3 DEF StopOne, StopOneFails, Crash, Down
<1>4. CASE StartBoot \/ StartJob \/ Shutdown
  BY <1>4 DEF StartBoot, StartJob, Start, ManagerUnchanged, Shutdown, Down
<1>5. CASE Exit \/ PanelCrashes
  BY <1>5 DEF Exit, PanelCrashes, Gone, Idle, Down
<1>6. CASE PanelStarts
  BY <1>6 DEF PanelStarts, Down
<1> QED
  BY <1>1, <1>2, <1>3, <1>4, <1>5, <1>6 DEF Next, Down

(* Only the sweep makes strays harmless, and only a process that would not     *)
(* die, or a panel that ended, makes new ones.                              *)
LEMMA CleanStep ==
  ASSUME TypeOK, TypeOK', Down, Clean, Next
  PROVE  Clean'
<1> SUFFICES ASSUME Cleared', ~escaped'
             PROVE  \A k \in Keys : stray'[k] = 0
  BY DEF Clean
<1>a. swept' /\ \A t \in Threads : th'[t].pc # "sweep"
  BY DEF Cleared
<1>k. (swept /\ ~escaped /\ UNCHANGED stray /\ \A t \in Threads : th[t].pc # "sweep")
      => \A k \in Keys : stray'[k] = 0
  BY DEF Clean, Cleared
<1>1. ASSUME NEW t \in Threads, MarkSwept(t) PROVE FALSE
  <2>1. th'[t].pc = "sweep"
    BY <1>1, StepType DEF MarkSwept, TypeOK, Steps
  <2> QED
    BY <1>a, <2>1
<1>2. ASSUME NEW t \in Threads, KillStrays(t) PROVE \A k \in Keys : stray'[k] = 0
  BY <1>2 DEF KillStrays
<1>3. ASSUME NEW t \in Threads, HaltFails(t) \/ EndRemoveFails(t) PROVE FALSE
  BY <1>3 DEF HaltFails, EndRemoveFails
<1>4. ASSUME NEW t \in Threads,
             \/ Halt(t) \/ Conclude(t) \/ EndRemove(t) \/ ListOrphans(t) \/ SweepFiles(t)
             \/ Answer(t) \/ StartFails(t)
             \/ \E k \in Keys : Begin(t, k) \/ BeginRemove(t, k)
      PROVE  \A k \in Keys : stray'[k] = 0
  <2>1. UNCHANGED <<swept, stray, escaped>>
    <3>1. CASE \E k \in Keys : Begin(t, k) \/ BeginRemove(t, k)
      BY <3>1 DEF Begin, BeginRemove
    <3>2. CASE Halt(t)
      BY <3>2 DEF Halt
    <3>3. CASE ListOrphans(t) \/ SweepFiles(t) \/ Answer(t)
      BY <3>3 DEF ListOrphans, SweepFiles, Answer
    <3>4. CASE Conclude(t)
      BY <3>4 DEF Conclude
    <3>5. CASE EndRemove(t) \/ StartFails(t)
      BY <3>5 DEF EndRemove, StartFails
    <3> QED
      BY <1>4, <3>1, <3>2, <3>3, <3>4, <3>5
  <2>2. th[t].pc # "sweep"
    BY <1>4
    DEF Halt, Conclude, EndRemove, ListOrphans, SweepFiles, Answer, StartFails, Begin,
        BeginRemove
  <2>3. \A u \in Threads \ {t} : th'[u] = th[u]
    <3>1. CASE \E k \in Keys : Begin(t, k) \/ BeginRemove(t, k)
      BY <3>1 DEF Begin, BeginRemove, TypeOK
    <3>2. CASE Halt(t) \/ ListOrphans(t) \/ SweepFiles(t) \/ Answer(t)
      BY <3>2 DEF Halt, ListOrphans, SweepFiles, Answer, TypeOK
    <3>3. CASE Conclude(t) \/ EndRemove(t) \/ StartFails(t)
      BY <3>3 DEF Conclude, EndRemove, StartFails, Unlock, Removed, TypeOK
    <3> QED
      BY <1>4, <3>1, <3>2, <3>3
  <2> QED
    BY <1>a, <1>k, <2>1, <2>2, <2>3
<1>5. ASSUME NEW t \in Callers, NEW k \in Keys, NEW w \in Wishes, Edit(t, k, w)
      PROVE  \A j \in Keys : stray'[j] = 0
  <2>1. swept /\ ~escaped /\ UNCHANGED stray /\ th[t].pc # "sweep"
        /\ \A u \in Threads \ {t} : th'[u] = th[u]
    BY <1>5, <1>a DEF Edit, TypeOK
  <2> QED
    BY <1>a, <1>k, <2>1
<1>6. ASSUME NEW k \in Keys, StopOne(k) \/ StopOneFails(k) \/ Crash(k)
      PROVE  \A j \in Keys : stray'[j] = 0
  <2>1. UNCHANGED <<th, stray, swept>> /\ ~escaped
    <3>1. CASE StopOne(k)
      BY <1>a, <3>1 DEF StopOne
    <3>2. CASE StopOneFails(k)
      BY <1>a, <3>2 DEF StopOneFails
    <3>3. CASE Crash(k)
      BY <1>a, <3>3 DEF Crash
    <3> QED
      BY <1>6, <3>1, <3>2, <3>3
  <2> QED
    BY <1>a, <1>k, <2>1
<1>7. CASE StartBoot \/ StartJob
  <2>1. PICK t \in Threads : Start(t) /\ th[t].pc # "sweep"
    BY <1>7, LoopsThreads DEF StartBoot, StartJob
  <2>2. swept /\ ~escaped /\ UNCHANGED stray /\ \A u \in Threads \ {t} : th'[u] = th[u]
    BY <1>a, <2>1 DEF Start, TypeOK
  <2> QED
    BY <1>a, <1>k, <2>1, <2>2
<1>8. CASE Shutdown
  BY <1>8, <1>a, <1>k DEF Shutdown
<1>9. CASE Exit \/ PanelCrashes \/ PanelStarts
  BY <1>9, <1>a DEF Exit, PanelCrashes, Gone, PanelStarts, Down
<1> QED
  BY <1>1, <1>2, <1>3, <1>4, <1>5, <1>6, <1>7, <1>8, <1>9 DEF Next, Step

LEMMA InvStep == IInv /\ [Next]_vars => IInv'
<1> SUFFICES ASSUME IInv, [Next]_vars PROVE IInv'
  OBVIOUS
<1>1. CASE Next
  <2>1. TypeOK'
    BY <1>1, TypeStep DEF IInv
  <2> QED
    BY <1>1, <2>1, LocksStep, DownStep, CleanStep DEF IInv
<1>2. CASE UNCHANGED vars
  BY <1>2 DEF vars, IInv, TypeOK, Locks, Own, Down, Clean, Cleared
<1> QED
  BY <1>1, <1>2

LEMMA InvHolds == Spec => []IInv
  BY InitInv, InvStep, PTL DEF Spec

-----------------------------------------------------------------------------
(* Theorems.                                                                *)

(* Types: for any keys, configs and calls, every step of the manager, of the   *)
(* reconciles and of the panel's life keeps records, locks and steps what     *)
(* they are.                                                                *)
THEOREM TypeCorrect == Spec => []TypeOK
  BY InvHolds, PTL DEF IInv

LEMMA OneLive ==
  ASSUME IInv, Cleared, ~escaped, NEW k \in Keys
  PROVE  Live(k) <= 1
<1> DEFINE T == {t \in Threads : th[t].key = k /\ th[t].held # Absent}
<1>1. stray[k] = 0
  BY DEF IInv, Clean
<1>2. \A t \in T : t = lock[k] /\ cores[k].runs = Absent
  BY DEF IInv, Locks, Own
<1>3. Live(k) = (IF cores[k].runs # Absent THEN 1 ELSE 0) + Cardinality(T) + stray[k]
  BY DEF Live, Running
<1>4. CASE T = {}
  <2>1. Cardinality(T) = 0
    BY <1>4, FS_EmptySet
  <2> QED
    BY <1>1, <1>3, <2>1
<1>5. CASE T # {}
  <2>1. T = {lock[k]} /\ cores[k].runs = Absent
    BY <1>2, <1>5
  <2>2. Cardinality({lock[k]}) = 1
    BY FS_Singleton
  <2>3. Cardinality(T) = 1
    BY <2>1, <2>2
  <2> QED
    BY <1>1, <1>3, <2>1, <2>3
<1> QED
  BY <1>4, <1>5

(* After the sweep no key has two live processes, whatever calls, reconciles,  *)
(* the shutdown and crashes do, unless a process outlived SIGKILL: Ensure and  *)
(* Remove of a key exclude each other, and a Remove takes a process out of    *)
(* the map only under the key's lock.                                       *)
THEOREM NoTwins == Spec => []OnePerKey
<1>1. IInv => OnePerKey
  BY OneLive DEF OnePerKey
<1> QED
  BY <1>1, InvHolds, PTL

-----------------------------------------------------------------------------
(* What the records, the reconciles and the shutdown know.                    *)

(* A record with a process knows its key and the process's fingerprint.       *)
Recorded(k) == cores[k].runs # Absent => cores[k].fp = cores[k].runs /\ cores[k].known

(* Who is inside Ensure finds the record it made.                            *)
Entered(t) == th[t].pc = "begun" => cores[th[t].key].known

(* A reconcile removes only what its list does not have.                      *)
Orphaned(t) == th[t].pc \in {"remove", "removing"} =>
                 \A k \in th[t].todo : th[t].list[k] = Absent

(* The boot run does not end before strays were swept.                        *)
BootSweeps == panel # "down" /\ th[Boot].pc \in {"idle", "remove", "removing"} => swept

(* A shutdown that waited for everyone finds no one at work,                  *)
Quiet == panel = "stopping" /\ ~late => \A t \in Threads : th[t].pc = "idle"

(* and every process in a record it is going to stop.                        *)
Stopping == panel = "stopping" /\ ~late /\ ~escaped =>
              \A k \in Keys : cores[k].runs = Absent \/ toStop[k] = "stop"

Known == /\ \A k \in Keys : Recorded(k)
         /\ \A t \in Threads : Entered(t)

Shut == BootSweeps /\ Quiet /\ Stopping

FullInv == IInv /\ Known /\ (\A t \in Loops : Orphaned(t)) /\ Shut

LEMMA FullInit == Init => FullInv
<1> SUFFICES ASSUME Init PROVE FullInv
  OBVIOUS
<1>1. \A t \in Threads : /\ t = Boot => th[t].pc = "due"
                         /\ t # Boot => th[t].pc = "idle"
  BY DEF Init, Idle
<1>2. \A k \in Keys : cores[k].runs = Absent
  BY DEF Init, Unknown
<1>3. Known
  BY <1>1, <1>2 DEF Known, Recorded, Entered
<1>4. \A t \in Loops : Orphaned(t)
  BY <1>1, LoopsThreads DEF Orphaned, Loops
<1>5. Shut
  BY <1>1, LoopsThreads DEF Shut, BootSweeps, Quiet, Stopping, Init
<1> QED
  BY <1>3, <1>4, <1>5, InitInv DEF FullInv

\* The steps of a thread at work.
Work(t) == Step(t) \/ HaltFails(t) \/ StartFails(t) \/ EndRemoveFails(t)

LEMMA WorkBusy ==
  ASSUME NEW t \in Threads, Work(t)
  PROVE  th[t].pc # "idle" /\ panel' = panel /\ late' = late
  BY DEF Work, Step, MarkSwept, KillStrays, Halt, Conclude, EndRemove, ListOrphans, SweepFiles,
         Answer, Begin, BeginRemove, HaltFails, StartFails, EndRemoveFails, ManagerUnchanged

\* What a step does to the records.
LEMMA KnownKept ==
  ASSUME Known,
         \A k \in Keys : \/ cores'[k].runs = Absent
                         \/ /\ cores'[k].runs = cores[k].runs /\ cores'[k].fp = cores[k].fp
                            /\ cores'[k].known = cores[k].known \/ cores'[k].known = TRUE,
         \A u \in Threads : th'[u].pc = "begun" =>
           \/ th[u].pc = "begun" /\ th'[u].key = th[u].key
              /\ (cores'[th[u].key].known = cores[th[u].key].known
                    \/ cores'[th[u].key].known = TRUE)
           \/ cores'[th'[u].key].known = TRUE
  PROVE  Known'
  BY DEF Known, Recorded, Entered

\* A step that leaves the records, and in Ensure only who is there.
LEMMA KnownStill ==
  ASSUME Known, cores' = cores,
         \A u \in Threads : th'[u].pc = "begun" => th[u].pc = "begun" /\ th'[u].key = th[u].key
  PROVE  Known'
  BY KnownKept

LEMMA KnownUnlock ==
  ASSUME TypeOK, NEW t \in Threads, Unlock(t), NEW u \in Threads, th'[u].pc = "begun"
  PROVE  u # t /\ th'[u] = th[u]
<1>1. th'[t].pc = "ensure"
  BY StepType DEF Unlock, TypeOK, Steps
<1> QED
  BY <1>1 DEF Unlock, TypeOK

LEMMA KnownEnsure ==
  ASSUME TypeOK, Locks, Known, NEW t \in Threads,
         \/ Halt(t) \/ HaltFails(t) \/ Conclude(t) \/ StartFails(t)
         \/ \E k \in Keys : Begin(t, k)
  PROVE  Known'
<1>1. CASE Halt(t)
  <2>1. th' = th /\ th[t].key \in Keys
    BY <1>1, KeyType DEF Halt, Own
  <2>2. \A k \in Keys : /\ cores'[k].runs = Absent \/ cores'[k] = cores[k]
                        /\ cores'[k].known = cores[k].known
    BY <1>1, <2>1 DEF Halt, TypeOK, Records
  <2>3. \A u \in Threads : th[u].pc = "begun" => th[u].key \in Keys
    BY DEF Locks, Own
  <2> QED
    BY <2>1, <2>2, <2>3, KnownKept
<1>2. CASE HaltFails(t) \/ StartFails(t)
  <2>1. Unlock(t) /\ cores' = cores
    BY <1>2 DEF HaltFails, StartFails
  <2> QED
    BY <2>1, KnownUnlock, KnownStill
<1>3. CASE Conclude(t)
  <2> DEFINE k == th[t].key
             c == th[t].list[k]
  <2>1. k \in Keys /\ cores[k].known /\ Unlock(t) /\ ~ToStop(t)
    BY <1>3, KeyType DEF Conclude, Own, Known, Entered
  <2>2. \A j \in Keys \ {k} : cores'[j] = cores[j]
    BY <1>3 DEF Conclude, TypeOK
  <2>3. cores'[k] = IF c = Off THEN [cores[k] EXCEPT !.fp = Absent]
                    ELSE [cores[k] EXCEPT !.runs = c, !.fp = c]
    BY <1>3, <2>1 DEF Conclude, TypeOK
  <2>4. cores[k] \in Records
    BY <2>1 DEF TypeOK
  <2>5. c = Off => cores[k].runs = Absent
    BY <2>1, <2>4, ConfigsAssumption DEF ToStop, Converged, Records, Things
  <2>6. cores'[k].known = TRUE
        /\ (cores'[k].runs = Absent \/ cores'[k].fp = cores'[k].runs)
    <3>1. CASE c = Off
      BY <2>1, <2>3, <2>4, <2>5, <3>1 DEF Records
    <3>2. CASE c # Off
      BY <2>1, <2>3, <2>4, <3>2 DEF Records
    <3> QED
      BY <3>1, <3>2
  <2> HIDE DEF k, c
  <2>7. \A j \in Keys : Recorded(j)'
    BY <2>2, <2>6 DEF Known, Recorded
  <2>8. ASSUME NEW u \in Threads PROVE Entered(u)'
    <3> SUFFICES ASSUME th'[u].pc = "begun" PROVE cores'[th'[u].key].known
      BY DEF Entered
    <3>1. th'[u] = th[u]
      BY <2>1, KnownUnlock
    <3>2. th[u].key \in Keys /\ cores[th[u].key].known
      BY <3>1 DEF Locks, Own, Known, Entered
    <3> QED
      BY <2>2, <2>6, <3>1, <3>2
  <2> QED
    BY <2>7, <2>8 DEF Known
<1>4. ASSUME NEW k \in Keys, Begin(t, k) PROVE Known'
  <2>1. cores' = [cores EXCEPT ![k] = [cores[k] EXCEPT !.known = TRUE]]
    BY <1>4 DEF Begin
  <2>2. \A j \in Keys : /\ cores'[j].runs = cores[j].runs /\ cores'[j].fp = cores[j].fp
                        /\ cores'[j].known = cores[j].known \/ cores'[j].known = TRUE
    BY <2>1 DEF TypeOK, Records
  <2>3. cores'[k].known = TRUE
    BY <2>1 DEF TypeOK, Records
  <2>4. th'[t].key = k /\ \A u \in Threads \ {t} : th'[u] = th[u]
    <3> DEFINE e == [th[t] EXCEPT !.pc = "begun", !.key = k, !.todo = th[t].todo \ {k}]
    <3>1. th' = [th EXCEPT ![t] = e]
      BY <1>4 DEF Begin
    <3>2. e.key = k
      BY StepType DEF Steps
    <3> HIDE DEF e
    <3> QED
      BY <3>1, <3>2 DEF TypeOK
  <2>5. \A u \in Threads : th[u].pc = "begun" => th[u].key \in Keys
    BY DEF Locks, Own
  <2> QED
    BY <2>2, <2>3, <2>4, <2>5, KnownKept
<1> QED
  BY <1>1, <1>2, <1>3, <1>4

LEMMA KnownRemove ==
  ASSUME TypeOK, Locks, Known, NEW t \in Threads, NEW k \in Keys, BeginRemove(t, k)
  PROVE  Known'
<1>0. th[t].pc = "remove" /\ lock[k] = Free
  BY DEF BeginRemove, Unlocked
<1>1. th'[t].pc # "begun" /\ \A u \in Threads \ {t} : th'[u] = th[u]
  BY <1>0, StepType DEF BeginRemove, TypeOK, Steps
<1>2. \A u \in Threads : th[u].pc = "begun" => th[u].key \in Keys \ {k}
  BY <1>0, FreeAssumption DEF Locks, Own
<1>3. \A j \in Keys \ {k} : cores'[j] = cores[j]
  BY DEF BeginRemove, TypeOK
<1>4. cores'[k].runs = Absent \/ cores'[k] = cores[k]
  BY DEF BeginRemove, TypeOK, Unknown
<1> QED
  BY <1>1, <1>2, <1>3, <1>4, KnownKept

LEMMA KnownStep ==
  ASSUME TypeOK, Locks, Known, Next
  PROVE  Known'
<1>0. \A u \in Threads : th[u].pc = "begun" => th[u].key \in Keys
  BY DEF Locks, Own
<1>1. ASSUME NEW t \in Threads,
             \/ Halt(t) \/ HaltFails(t) \/ Conclude(t) \/ StartFails(t)
             \/ \E k \in Keys : Begin(t, k) \/ BeginRemove(t, k)
      PROVE  Known'
  BY <1>1, KnownEnsure, KnownRemove
<1>2. ASSUME NEW t \in Threads,
             \/ MarkSwept(t) \/ EndRemove(t) \/ EndRemoveFails(t) \/ ListOrphans(t)
             \/ SweepFiles(t) \/ Answer(t)
      PROVE  Known'
  <2>1. cores' = cores
    BY <1>2 DEF MarkSwept, EndRemove, EndRemoveFails, ListOrphans, SweepFiles, Answer
  <2>2. th'[t].pc # "begun" /\ \A u \in Threads \ {t} : th'[u] = th[u]
    <3>1. CASE MarkSwept(t) \/ ListOrphans(t)
      BY <3>1, StepType DEF MarkSwept, ListOrphans, TypeOK, Steps
    <3>2. CASE EndRemove(t) \/ EndRemoveFails(t)
      BY <3>2, StepType DEF EndRemove, EndRemoveFails, Removed, TypeOK, Steps
    <3>3. CASE SweepFiles(t)
      BY <3>3 DEF SweepFiles, Idle, TypeOK
    <3>4. CASE Answer(t)
      <4> DEFINE again == {k \in Keys : th[t].pc = "remove" /\ th[t].list[k] \in Configs}
                 s == IF again = {} THEN Idle
                      ELSE [th[t] EXCEPT !.pc = "ensure", !.todo = again]
      <4>1. th' = [th EXCEPT ![t] = s]
        BY <3>4 DEF Answer
      <4>2. s.pc # "begun"
        <5> HIDE DEF again
        <5> QED
          BY StepType DEF Steps, Idle
      <4> HIDE DEF s
      <4> QED
        BY <4>1, <4>2 DEF TypeOK
    <3> QED
      BY <1>2, <3>1, <3>2, <3>3, <3>4
  <2> QED
    BY <2>1, <2>2, KnownStill
<1>3. ASSUME NEW t \in Threads, KillStrays(t) PROVE Known'
  <2>1. \A k \in Keys : cores'[k].runs = Absent /\ cores'[k].known = cores[k].known
    BY <1>3 DEF KillStrays, TypeOK, Records
  <2>2. \A u \in Threads : th'[u].key = th[u].key /\ (th'[u].pc = "begun" => th[u].pc = "begun")
    BY <1>3, StepType DEF KillStrays, Steps
  <2> QED
    BY <1>0, <2>1, <2>2, KnownKept
<1>4. ASSUME NEW t \in Callers, NEW k \in Keys, NEW w \in Wishes, Edit(t, k, w)
      PROVE  Known'
  <2>1. th'[t].pc # "begun" /\ \A u \in Threads \ {t} : th'[u] = th[u]
    BY <1>4, LoopsThreads DEF Edit, Told, Idle, TypeOK
  <2> QED
    BY <1>4, <2>1, KnownStill DEF Edit
<1>5. ASSUME NEW k \in Keys, StopOne(k) \/ StopOneFails(k) \/ Crash(k) PROVE Known'
  <2>1. th' = th
    BY <1>5 DEF StopOne, StopOneFails, Crash
  <2>2. \A j \in Keys : /\ cores'[j].runs = Absent \/ cores'[j] = cores[j]
                        /\ cores'[j].known = cores[j].known
    BY <1>5 DEF StopOne, StopOneFails, Crash, TypeOK, Records
  <2> QED
    BY <1>0, <2>1, <2>2, KnownKept
<1>6. CASE StartBoot \/ StartJob
  <2>1. PICK t \in Threads : Start(t)
    BY <1>6, LoopsThreads DEF StartBoot, StartJob
  <2>2. th'[t].pc # "begun" /\ \A u \in Threads \ {t} : th'[u] = th[u]
    BY <2>1 DEF Start, TypeOK, Idle
  <2> QED
    BY <2>1, <2>2, KnownStill DEF Start
<1>7. CASE Shutdown
  BY <1>7, KnownStill DEF Shutdown
<1>8. CASE Exit \/ PanelCrashes
  <2>1. \A u \in Threads : th'[u].pc # "begun"
    BY <1>8 DEF Exit, PanelCrashes, Gone, Idle
  <2>2. \A k \in Keys : cores'[k].runs = Absent
    BY <1>8 DEF Exit, PanelCrashes, Gone, Unknown
  <2> QED
    BY <2>1, <2>2 DEF Known, Recorded, Entered
<1>9. CASE PanelStarts
  <2>1. \A u \in Threads : th'[u].pc = "begun" => th'[u] = th[u]
    BY <1>9, StepType, LoopsThreads DEF PanelStarts, TypeOK, Steps
  <2> QED
    BY <1>9, <2>1, KnownStill DEF PanelStarts
<1> QED
  BY <1>1, <1>2, <1>3, <1>4, <1>5, <1>6, <1>7, <1>8, <1>9 DEF Next, Step

\* Only the sweep of strays touches other threads.
LEMMA WorkAlone ==
  ASSUME TypeOK, NEW t \in Threads, Work(t), ~KillStrays(t), NEW u \in Threads, u # t
  PROVE  th'[u] = th[u]
<1>1. CASE MarkSwept(t) \/ Halt(t) \/ ListOrphans(t) \/ SweepFiles(t)
  BY <1>1 DEF MarkSwept, Halt, ListOrphans, SweepFiles, TypeOK
<1>2. CASE Conclude(t) \/ HaltFails(t) \/ StartFails(t)
  BY <1>2 DEF Conclude, HaltFails, StartFails, Unlock, TypeOK
<1>3. CASE EndRemove(t) \/ EndRemoveFails(t)
  BY <1>3 DEF EndRemove, EndRemoveFails, Removed, TypeOK
<1>4. CASE Answer(t)
  <2>1. PICK s : th' = [th EXCEPT ![t] = s]
    BY <1>4 DEF Answer
  <2> QED
    BY <2>1 DEF TypeOK
<1>5. CASE \E k \in Keys : Begin(t, k) \/ BeginRemove(t, k)
  BY <1>5 DEF Begin, BeginRemove, TypeOK
<1> QED
  BY <1>1, <1>2, <1>3, <1>4, <1>5 DEF Work, Step

\* A thread that ensures a key goes on ensuring, and removes nothing.
LEMMA EnsureGoesOn ==
  ASSUME TypeOK, NEW t \in Threads,
         \/ MarkSwept(t) \/ Halt(t) \/ HaltFails(t) \/ Conclude(t) \/ StartFails(t)
         \/ \E k \in Keys : Begin(t, k)
  PROVE  th'[t].pc \in {"sweep", "begun", "ensure"}
<1>1. CASE MarkSwept(t)
  BY <1>1, StepType DEF MarkSwept, TypeOK, Steps
<1>2. CASE Halt(t)
  BY <1>2 DEF Halt
<1>3. CASE HaltFails(t) \/ Conclude(t) \/ StartFails(t)
  BY <1>3, StepType DEF HaltFails, Conclude, StartFails, Unlock, TypeOK, Steps
<1>4. ASSUME NEW k \in Keys, Begin(t, k) PROVE th'[t].pc = "begun"
  <2> DEFINE e == [th[t] EXCEPT !.pc = "begun", !.key = k, !.todo = th[t].todo \ {k}]
  <2>1. th' = [th EXCEPT ![t] = e]
    BY <1>4 DEF Begin
  <2>2. e.pc = "begun"
    BY StepType DEF Steps
  <2> HIDE DEF e
  <2> QED
    BY <2>1, <2>2 DEF TypeOK
<1> QED
  BY <1>1, <1>2, <1>3, <1>4

\* A reconcile's list is its own, and its keys to remove only get fewer.
LEMMA OrphanedStep ==
  ASSUME TypeOK, Next, NEW l \in Loops, Orphaned(l)
  PROVE  Orphaned(l)'
<1>0. l \in Threads /\ l \notin Callers
  BY ThreadsAssumption DEF Threads, Loops
<1>a. ASSUME \/ th'[l].pc \notin {"remove", "removing"}
             \/ /\ th[l].pc \in {"remove", "removing"}
                /\ th'[l].list = th[l].list /\ th'[l].todo \subseteq th[l].todo
      PROVE  Orphaned(l)'
  BY <1>a DEF Orphaned
<1>1. ASSUME NEW t \in Threads, Work(t) PROVE Orphaned(l)'
  <2>1. CASE KillStrays(t)
    <3>1. th'[l].list = th[l].list /\ th'[l].todo = th[l].todo
          /\ (th'[l].pc = "ensure" \/ th'[l].pc = th[l].pc)
      BY <1>0, <2>1, StepType DEF KillStrays, Steps
    <3> QED
      BY <1>a, <3>1
  <2>2. CASE ~KillStrays(t) /\ t # l
    <3>1. th'[l] = th[l]
      BY <1>0, <1>1, <2>2, WorkAlone
    <3> QED
      BY <1>a, <3>1
  <2>3. CASE t = l /\ \/ MarkSwept(t) \/ Halt(t) \/ HaltFails(t) \/ Conclude(t)
                      \/ StartFails(t) \/ \E k \in Keys : Begin(t, k)
    <3>1. th'[l].pc \in {"sweep", "begun", "ensure"}
      BY <1>0, <2>3, EnsureGoesOn
    <3> QED
      BY <1>a, <3>1
  <2>4. CASE t = l /\ (EndRemove(t) \/ EndRemoveFails(t))
    <3>1. /\ th[l].pc = "removing"
          /\ th'[l].list = th[l].list /\ th'[l].todo = th[l].todo
      BY <1>0, <2>4, StepType DEF EndRemove, EndRemoveFails, Removed, TypeOK, Steps
    <3> QED
      BY <1>a, <3>1
  <2>5. CASE t = l /\ \E k \in Keys : BeginRemove(t, k)
    <3>1. /\ th[l].pc = "remove"
          /\ th'[l].list = th[l].list /\ th'[l].todo \subseteq th[l].todo
      BY <1>0, <2>5, StepType DEF BeginRemove, TypeOK, Steps
    <3> QED
      BY <1>a, <3>1
  <2>6. CASE t = l /\ ListOrphans(t)
    <3>1. th'[l].list = th[l].list /\ th'[l].todo = Orphans(l)
      BY <1>0, <2>6, StepType DEF ListOrphans, TypeOK, Steps
    <3>2. \A k \in Orphans(l) : th[l].list[k] = Absent
      BY DEF Orphans, Wanted
    <3> QED
      BY <3>1, <3>2 DEF Orphaned
  <2>7. CASE t = l /\ SweepFiles(t)
    BY <1>0, <1>a, <2>7 DEF SweepFiles, Idle, TypeOK
  <2>8. CASE t = l /\ Answer(t)
    BY <1>0, <2>8 DEF Answer
  <2> QED
    BY <1>1, <2>1, <2>2, <2>3, <2>4, <2>5, <2>6, <2>7, <2>8 DEF Work, Step
<1>2. ASSUME NEW t \in Callers, NEW k \in Keys, NEW w \in Wishes, Edit(t, k, w)
      PROVE  Orphaned(l)'
  <2>1. th'[l] = th[l]
    BY <1>0, <1>2 DEF Edit, TypeOK
  <2> QED
    BY <1>a, <2>1
<1>3. ASSUME NEW k \in Keys, StopOne(k) \/ StopOneFails(k) \/ Crash(k) PROVE Orphaned(l)'
  BY <1>3, <1>a DEF StopOne, StopOneFails, Crash
<1>4. CASE StartBoot \/ StartJob
  <2>1. PICK t \in Threads : Start(t)
    BY <1>4, LoopsThreads DEF StartBoot, StartJob
  <2>2. th'[l].pc = "ensure" \/ th'[l] = th[l]
    BY <1>0, <2>1 DEF Start, Idle, TypeOK
  <2> QED
    BY <1>a, <2>2
<1>5. CASE Shutdown
  BY <1>5, <1>a DEF Shutdown
<1>6. CASE Exit \/ PanelCrashes
  <2>1. th'[l].pc = "idle"
    BY <1>0, <1>6 DEF Exit, PanelCrashes, Gone, Idle
  <2> QED
    BY <1>a, <2>1
<1>7. CASE PanelStarts
  <2>1. th'[l].pc = "due" \/ th'[l] = th[l]
    BY <1>0, <1>7, LoopsThreads, StepType DEF PanelStarts, TypeOK, Steps
  <2> QED
    BY <1>a, <2>1
<1> QED
  BY <1>1, <1>2, <1>3, <1>4, <1>5, <1>6, <1>7 DEF Next, Work

\* Once swept, a panel stays so until it ends.
LEMMA BootSweepsStep ==
  ASSUME TypeOK, Down, BootSweeps, Next
  PROVE  BootSweeps'
<1>0. Boot \in Threads /\ Boot \notin Callers /\ Boot \in Loops
  BY ThreadsAssumption DEF Threads, Loops
<1>a. ASSUME swept' = swept \/ swept' = TRUE, panel # "down",
             th'[Boot].pc \in {"idle", "remove", "removing"} =>
               swept \/ th[Boot].pc \in {"idle", "remove", "removing"}
      PROVE  BootSweeps'
  BY <1>a DEF BootSweeps
<1>1. ASSUME NEW t \in Threads, Work(t) PROVE BootSweeps'
  <2>0. panel # "down"
    BY <1>1, WorkBusy DEF Down
  <2>a. swept' = swept \/ swept' = TRUE
    BY <1>1
    DEF Work, Step, MarkSwept, KillStrays, Halt, Conclude, EndRemove, ListOrphans, SweepFiles,
        Answer, Begin, BeginRemove, HaltFails, StartFails, EndRemoveFails
  <2>1. CASE KillStrays(t)
    <3>1. th'[Boot].pc = "ensure" \/ th'[Boot].pc = th[Boot].pc
      BY <1>0, <2>1, StepType DEF KillStrays, Steps
    <3> QED
      BY <1>a, <2>0, <2>a, <3>1
  <2>2. CASE ~KillStrays(t) /\ t # Boot
    <3>1. th'[Boot] = th[Boot]
      BY <1>0, <1>1, <2>2, WorkAlone
    <3> QED
      BY <1>a, <2>0, <2>a, <3>1
  <2>3. CASE t = Boot /\ \/ MarkSwept(t) \/ Halt(t) \/ HaltFails(t) \/ Conclude(t)
                         \/ StartFails(t) \/ \E k \in Keys : Begin(t, k)
    <3>1. th'[Boot].pc \in {"sweep", "begun", "ensure"}
      BY <1>0, <2>3, EnsureGoesOn
    <3> QED
      BY <1>a, <2>0, <2>a, <3>1
  <2>4. CASE t = Boot /\ \/ EndRemove(t) \/ EndRemoveFails(t) \/ SweepFiles(t) \/ ListOrphans(t)
                         \/ \E k \in Keys : BeginRemove(t, k)
    <3>1. swept \/ th[Boot].pc \in {"remove", "removing"}
      BY <2>4 DEF EndRemove, EndRemoveFails, SweepFiles, ListOrphans, BeginRemove
    <3> QED
      BY <1>a, <2>0, <2>a, <3>1
  <2>5. CASE t = Boot /\ Answer(t)
    BY <1>0, <2>5 DEF Answer
  <2> QED
    BY <1>1, <2>1, <2>2, <2>3, <2>4, <2>5 DEF Work, Step
<1>2. ASSUME NEW t \in Callers, NEW k \in Keys, NEW w \in Wishes, Edit(t, k, w)
      PROVE  BootSweeps'
  <2>1. th'[Boot] = th[Boot] /\ swept' = swept /\ panel # "down"
    BY <1>0, <1>2 DEF Edit, TypeOK
  <2> QED
    BY <1>a, <2>1
<1>3. ASSUME NEW k \in Keys, StopOne(k) \/ StopOneFails(k) \/ Crash(k) PROVE BootSweeps'
  BY <1>3 DEF StopOne, StopOneFails, Crash, BootSweeps
<1>4. CASE StartBoot \/ StartJob
  <2>1. PICK t \in Threads : Start(t)
    BY <1>4, LoopsThreads DEF StartBoot, StartJob
  <2>2. th'[Boot].pc = "ensure" \/ th'[Boot] = th[Boot]
    BY <1>0, <2>1 DEF Start, Idle, TypeOK
  <2>3. panel # "down" /\ swept' = swept
    BY <1>4 DEF StartBoot, StartJob, Start
  <2> QED
    BY <1>a, <2>2, <2>3
<1>5. CASE Shutdown
  BY <1>5, <1>a DEF Shutdown
<1>6. CASE Exit \/ PanelCrashes
  BY <1>6 DEF Exit, PanelCrashes, Gone, BootSweeps
<1>7. CASE PanelStarts
  <2>1. th'[Boot].pc = "due"
    BY <1>0, <1>7, StepType DEF PanelStarts, TypeOK, Steps
  <2> QED
    BY <2>1 DEF BootSweeps
<1> QED
  BY <1>1, <1>2, <1>3, <1>4, <1>5, <1>6, <1>7 DEF Next, Work

\* A shutdown that found no one at work keeps it so: nobody begins any more.
LEMMA QuietStep ==
  ASSUME TypeOK, Known, Quiet, Stopping, Next
  PROVE  Quiet' /\ Stopping'
<1>1. ASSUME NEW t \in Threads, Work(t) PROVE Quiet' /\ Stopping'
  BY <1>1, WorkBusy DEF Quiet, Stopping
<1>2. ASSUME NEW t \in Callers, NEW k \in Keys, NEW w \in Wishes, Edit(t, k, w)
      PROVE  Quiet' /\ Stopping'
  BY <1>2 DEF Edit, Quiet, Stopping
<1>3. ASSUME NEW k \in Keys, StopOne(k) PROVE Quiet' /\ Stopping'
  <2>1. UNCHANGED <<panel, late, th, escaped>>
    BY <1>3 DEF StopOne
  <2>2. \A j \in Keys \ {k} : cores'[j] = cores[j] /\ toStop'[j] = toStop[j]
    BY <1>3 DEF StopOne, TypeOK
  <2>3. toStop[k] = "stop" => cores'[k].runs = Absent
    BY <1>3 DEF StopOne, TypeOK, Records
  <2>4. toStop[k] # "stop" => cores'[k] = cores[k]
    BY <1>3 DEF StopOne
  <2> QED
    BY <2>1, <2>2, <2>3, <2>4 DEF Quiet, Stopping
<1>4. ASSUME NEW k \in Keys, StopOneFails(k) PROVE Quiet' /\ Stopping'
  BY <1>4 DEF StopOneFails, Quiet, Stopping
<1>5. ASSUME NEW k \in Keys, Crash(k) PROVE Quiet' /\ Stopping'
  <2>1. UNCHANGED <<panel, late, th, escaped, toStop>>
    BY <1>5 DEF Crash
  <2>2. \A j \in Keys : cores'[j].runs = Absent \/ cores'[j] = cores[j]
    BY <1>5 DEF Crash, TypeOK, Records
  <2> QED
    BY <2>1, <2>2 DEF Quiet, Stopping
<1>6. CASE StartBoot
  BY <1>6, LoopsThreads DEF StartBoot, Start, ManagerUnchanged, Quiet, Stopping
<1>7. CASE StartJob
  BY <1>7 DEF StartJob, Start, ManagerUnchanged, Quiet, Stopping
<1>8. CASE Shutdown
  <2>1. ~late' => \A t \in Threads : th[t].pc = "idle"
    BY <1>8 DEF Shutdown, JobDone, Threads, Loops
  <2>2. \A k \in Keys : cores[k].runs = Absent \/ toStop'[k] = "stop"
    BY <1>8 DEF Shutdown, Known, Recorded
  <2> QED
    BY <1>8, <2>1, <2>2 DEF Shutdown, Quiet, Stopping
<1>9. CASE Exit \/ PanelCrashes \/ PanelStarts
  BY <1>9 DEF Exit, PanelCrashes, Gone, PanelStarts, Quiet, Stopping
<1> QED
  BY <1>1, <1>2, <1>3, <1>4, <1>5, <1>6, <1>7, <1>8, <1>9 DEF Next, Work

LEMMA FullStep == FullInv /\ [Next]_vars => FullInv'
<1> SUFFICES ASSUME FullInv, [Next]_vars PROVE FullInv'
  OBVIOUS
<1>1. IInv'
  BY InvStep DEF FullInv
<1>2. CASE Next
  <2>1. Known'
    BY <1>2, KnownStep DEF FullInv, IInv
  <2>2. \A l \in Loops : Orphaned(l)'
    BY <1>2, OrphanedStep DEF FullInv, IInv
  <2>3. Shut'
    BY <1>2, BootSweepsStep, QuietStep DEF FullInv, IInv, Shut
  <2> QED
    BY <1>1, <2>1, <2>2, <2>3 DEF FullInv
<1>3. CASE UNCHANGED vars
  <2>1. Known'
    BY <1>3 DEF FullInv, vars, Known, Recorded, Entered
  <2>2. \A l \in Loops : Orphaned(l)'
    BY <1>3 DEF FullInv, vars, Orphaned
  <2>3. Shut'
    BY <1>3 DEF FullInv, vars, Shut, BootSweeps, Quiet, Stopping
  <2> QED
    BY <1>1, <2>1, <2>2, <2>3 DEF FullInv
<1> QED
  BY <1>2, <1>3

LEMMA FullHolds == Spec => []FullInv
  BY FullInit, FullStep, PTL DEF Spec

(* A reconcile stops no sidecar that runs what its inbound's row says, unless *)
(* the row changed after the reconcile had read it: a process is stopped only  *)
(* for a fingerprint that differs, and removed only for a key the list does   *)
(* not have.                                                                *)
THEOREM NoNeedlessStop == Spec => Undisturbed
<1> DEFINE A == \A t \in Loops, k \in Keys :
                  /\ Halt(t) \/ BeginRemove(t, k)
                  /\ cores[k].runs = wish[k] /\ cores'[k].runs # wish[k]
                  => th[t].list[k] # wish[k]
<1>1. FullInv => A
  <2> SUFFICES ASSUME FullInv, NEW t \in Loops, NEW k \in Keys,
                      Halt(t) \/ BeginRemove(t, k),
                      cores[k].runs = wish[k], cores'[k].runs # wish[k]
               PROVE  th[t].list[k] # wish[k]
    OBVIOUS
  <2>0. t \in Threads /\ TypeOK /\ Locks
    BY DEF Threads, FullInv, IInv
  <2>1. CASE Halt(t)
    <3>1. th[t].key \in Keys /\ ToStop(t)
          /\ cores' = [cores EXCEPT ![th[t].key].runs = Absent]
      BY <2>0, <2>1, KeyType DEF Halt, Own
    <3>2. th[t].key = k
      BY <2>0, <3>1 DEF TypeOK
    <3>3. cores[k].runs # Absent /\ cores[k].fp # th[t].list[k]
      BY <3>1, <3>2 DEF ToStop, Converged
    <3>4. cores[k].fp = cores[k].runs
      BY <3>3 DEF FullInv, Known, Recorded
    <3> QED
      BY <3>3, <3>4
  <2>2. CASE BeginRemove(t, k)
    <3>1. th[t].list[k] = Absent
      BY <2>2 DEF FullInv, Orphaned, BeginRemove
    <3>2. cores'[k] = Unknown
      BY <2>0, <2>2 DEF BeginRemove, TypeOK
    <3>3. wish[k] # Absent
      BY <3>2 DEF Unknown
    <3> QED
      BY <3>1, <3>3
  <2> QED
    BY <2>1, <2>2
<1>2. FullInv /\ [Next]_vars => [A]_vars
  BY <1>1
<1> HIDE DEF A
<1>3. Spec => [][A]_vars
  BY <1>2, FullHolds, PTL DEF Spec
<1> QED
  BY <1>3 DEF A, Undisturbed

(* A panel that shuts down gracefully leaves no sidecar behind, unless a call *)
(* or the boot run was under way or a process outlived its SIGKILL: StopAll    *)
(* finds every process in a record, strays were swept by the boot run, and no  *)
(* one starts another.                                                      *)
THEOREM ShutdownIsClean == Spec => NothingLeft
<1> DEFINE A == Exit => late \/ escaped \/ \A k \in Keys : Live(k) = 0
<1>1. FullInv => A
  <2> SUFFICES ASSUME FullInv, Exit, ~late, ~escaped, NEW k \in Keys
               PROVE  Live(k) = 0
    OBVIOUS
  <2>0. TypeOK /\ Locks /\ Clean /\ panel = "stopping"
    BY DEF FullInv, IInv, Exit
  <2>1. \A t \in Threads : th[t].pc = "idle"
    BY <2>0 DEF FullInv, Shut, Quiet
  <2>2. swept
    BY <2>0, <2>1, LoopsThreads DEF FullInv, Shut, BootSweeps
  <2>3. stray[k] = 0
    BY <2>0, <2>1, <2>2 DEF Clean, Cleared
  <2>4. cores[k].runs = Absent
    BY <2>0 DEF FullInv, Shut, Stopping, Exit
  <2> DEFINE T == {t \in Threads : th[t].key = k /\ th[t].held # Absent}
  <2>5. T = {}
    BY <2>0, <2>1 DEF Locks
  <2>6. Running(k) = (IF cores[k].runs # Absent THEN 1 ELSE 0) + Cardinality(T)
    BY DEF Running
  <2>7. Running(k) = 0
    BY <2>4, <2>5, <2>6, FS_EmptySet
  <2> QED
    BY <2>3, <2>7 DEF Live
<1>2. FullInv /\ [Next]_vars => [A]_vars
  BY <1>1
<1> HIDE DEF A
<1>3. Spec => [][A]_vars
  BY <1>2, FullHolds, PTL DEF Spec
<1> QED
  BY <1>3 DEF A, NothingLeft
=============================================================================
