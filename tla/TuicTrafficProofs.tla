-------------------------- MODULE TuicTrafficProofs --------------------------
(***************************************************************************)
(* Proofs about TuicTraffic: types, that every unit of traffic is in exactly *)
(* one place, and that a graceful shutdown loses nothing.                    *)
(***************************************************************************)
EXTENDS TuicTraffic, SumTheorems

-----------------------------------------------------------------------------
(* The strengthened invariant.                                              *)

\* A batch is held between the swap of the counters and its being added or
\* stored; files are visited by a replay, and not the one being removed.
StepKept(t, s, fs, rs) ==
  /\ s.batch # Nothing =>
       s.pc \in {"take", "check"} \cup {IF t = Job THEN "add" ELSE "store"}
  /\ s.list # {} => s.pc \in {"commit", "remove"}
  /\ s.at # {} => s.pc = "remove"
  /\ s.list \subseteq fs /\ s.at \subseteq rs
  /\ s.list \cap s.at = {}

Kept(t) == StepKept(t, th[t], files, receipts)

Works(t, s) ==
  \/ s.pc \in {"commit", "remove"}
  \/ t = Flush /\ s.pc \notin {"idle", "wait", "done"}

\* Only one of the two works on the journal.
Journal ==
  /\ \A t \in Threads : Kept(t)
  /\ ~(InJournal(Job) /\ InJournal(Flush))

Balanced(c) == used[c] + doubled[c] = charged[c] + lost[c] + InMemory[c] + Unreplayed[c]

\* A server that is stopped has been drained.
Drains == ~server => \A u \in Users : sessions[u] = 0 /\ bytes[u] = 0

\* The flush belongs to a shutdown, which the job has not survived.
Closing ==
  /\ panel # "stopping" => th[Flush].pc = "idle"
  /\ panel = "stopping" /\ ~late =>
       /\ boot = "over" /\ th[Job].pc = "idle"
       /\ th[Flush].pc # "idle" => ~server
       /\ th[Flush].pc \notin {"idle", "wait", "collect"} => unstored \/ pending = Nothing

-----------------------------------------------------------------------------
(* Types.                                                                   *)

LEMMA ThreadsDiffer == Job # Flush /\ Job \in Threads /\ Flush \in Threads /\ Free \notin Threads
  BY DEF Job, Flush, Threads, Free

LEMMA AmountTypes ==
  /\ Nothing \in Amounts /\ Idle \in Steps
  /\ \A a, b \in Amounts : Plus(a, b) \in Amounts
  /\ \A c \in Clients, n \in Nat : Of(c, n) \in Amounts
<1>1. Nothing \in Amounts
  BY DEF Nothing, Amounts
<1>2. Idle \in Steps
  BY <1>1 DEF Idle, Steps, MaxTries
<1>3. \A a, b \in Amounts : Plus(a, b) \in Amounts
  BY DEF Amounts, Plus
<1>4. \A c \in Clients, n \in Nat : Of(c, n) \in Amounts
  BY DEF Amounts, Of
<1> QED
  BY <1>1, <1>2, <1>3, <1>4

LEMMA StepType == ASSUME TypeOK, NEW t \in Threads PROVE th[t] \in Steps
  BY DEF TypeOK

\* A client's registrations are finitely many.
LEMMA OwnedFinite == \A c : IsFiniteSet({u \in Users : OwnerOf[u] = c})
  BY OwnersAssumption, FS_Subset

LEMMA CountedType == ASSUME TypeOK PROVE Counted(Users) \in Amounts
<1>1. ASSUME NEW c \in Clients
      PROVE  SumFunctionOnSet(bytes, {u \in Users : OwnerOf[u] = c}) \in Nat
  <2>1. \A u \in {u \in Users : OwnerOf[u] = c} : bytes[u] \in Nat
    BY DEF TypeOK
  <2> QED
    BY <2>1, OwnedFinite, SumType
<1> QED
  BY <1>1 DEF Counted, Amounts

\* A step of one thread leaves the other where it is.
LEMMA ThreadType ==
  ASSUME TypeOK, NEW t \in Threads, NEW s \in Steps, th' = [th EXCEPT ![t] = s]
  PROVE  th' \in [Threads -> Steps]
  BY DEF TypeOK

LEMMA TypeInit == Init => TypeOK
<1> SUFFICES ASSUME Init PROVE TypeOK
  OBVIOUS
<1>1. /\ pending \in Amounts /\ charged \in Amounts /\ used \in Amounts /\ lost \in Amounts
      /\ doubled \in Amounts /\ content \in [Batches -> Amounts] /\ th \in [Threads -> Steps]
  BY AmountTypes DEF Init
<1> QED
  BY <1>1 DEF Init, TypeOK

LEMMA TypeSessions ==
  ASSUME TypeOK, NEW u \in Users, Connect(u) \/ Use(u) \/ Disconnect(u)
  PROVE  TypeOK'
<1>1. CASE Connect(u) \/ Disconnect(u)
  BY <1>1 DEF Connect, Disconnect, TypeOK, journalVars, rowVars, countVars, histVars
<1>2. CASE Use(u)
  <2>1. bytes' \in [Users -> Nat] /\ uses' \in Nat
    BY <1>2 DEF Use, TypeOK
  <2>2. used' \in Amounts
    <3> DEFINE o == OwnerOf[u]
    <3>1. o \in Clients /\ used' = [used EXCEPT ![o] = used[o] + 1]
      BY <1>2, OwnersAssumption DEF Use
    <3> HIDE DEF o
    <3> QED
      BY <3>1 DEF TypeOK, Amounts
  <2> QED
    BY <1>2, <2>1, <2>2 DEF Use, TypeOK, journalVars, rowVars
<1> QED
  BY <1>1, <1>2

LEMMA ConvergeType ==
  ASSUME TypeOK, NEW us \in SUBSET Users, NEW restart \in BOOLEAN, Converge(us, restart)
  PROVE  /\ server' \in BOOLEAN /\ reg' \in [Users -> {"none", "active", "retired"}]
         /\ sessions' \in [Users -> Nat] /\ bytes' \in [Users -> Nat] /\ pending' \in Amounts
<1>1. CASE server /\ ~restart /\ us # {}
  BY <1>1 DEF Converge, Listed, TypeOK
<1>2. CASE ~(server /\ ~restart /\ us # {})
  <2>1. pending' = Plus(pending, Counted(Users))
    BY <1>2 DEF Converge, Drained
  <2>2. pending \in Amounts
    BY DEF TypeOK
  <2>3. pending' \in Amounts
    BY <2>1, <2>2, CountedType, AmountTypes
  <2>4. /\ reg' = [u \in Users |-> IF u \in us THEN "active" ELSE "none"]
        /\ sessions' = [u \in Users |-> 0] /\ bytes' = [u \in Users |-> 0]
    BY <1>2 DEF Converge
  <2>5. server' = (us # {})
    BY <1>2 DEF Converge
  <2>6. reg' \in [Users -> {"none", "active", "retired"}]
    BY <2>4
  <2>7. sessions' \in [Users -> Nat] /\ bytes' \in [Users -> Nat]
    BY <2>4
  <2> QED
    BY <2>3, <2>5, <2>6, <2>7
<1> QED
  BY <1>1, <1>2

LEMMA TypeEdits ==
  ASSUME TypeOK,
         \/ \E us \in SUBSET Users, restart \in BOOLEAN : Ensure(us, restart)
         \/ \E c \in Clients : DeleteRow(c)
  PROVE  TypeOK'
<1>1. ASSUME NEW us \in SUBSET Users, NEW restart \in BOOLEAN, Ensure(us, restart)
      PROVE  TypeOK'
  BY <1>1, ConvergeType DEF Ensure, TypeOK, journalVars, rowVars, histVars
<1>2. ASSUME NEW c \in Clients, DeleteRow(c) PROVE TypeOK'
  BY <1>2 DEF DeleteRow, TypeOK, serverVars, journalVars, histVars
<1> QED
  BY <1>1, <1>2

LEMMA TypeCollect ==
  ASSUME TypeOK, NEW t \in Threads, Collect(t)
  PROVE  TypeOK'
<1>1. CASE BeginCollect(t)
  <2> DEFINE s == [th[t] EXCEPT !.pc = "take", !.batch = pending,
                                !.todo = IF server THEN {u \in Users : reg[u] # "none"} ELSE {}]
  <2>1. th' = [th EXCEPT ![t] = s]
    BY <1>1 DEF BeginCollect
  <2>2. s \in Steps
    BY StepType DEF Steps, TypeOK
  <2> HIDE DEF s
  <2> QED
    BY <1>1, <2>1, <2>2, ThreadType, AmountTypes
    DEF BeginCollect, TypeOK, serverVars, journalVars, rowVars, countVars, histVars
<1>2. CASE EndCollect(t)
  <2> DEFINE s == IF th[t].batch # Nothing
                    THEN [th[t] EXCEPT !.pc = IF t = Job THEN "add" ELSE "store"]
                  ELSE IF t = Job THEN Idle
                  ELSE [th[t] EXCEPT !.pc = "commit", !.list = files]
  <2>1. th' = [th EXCEPT ![t] = s]
    BY <1>2 DEF EndCollect
  <2>2. s \in Steps
    BY StepType, AmountTypes DEF Steps, TypeOK
  <2> HIDE DEF s
  <2>3. th' \in [Threads -> Steps]
    BY <2>1, <2>2, ThreadType
  <2> QED
    BY <1>2, <2>3 DEF EndCollect, TypeOK, serverVars, journalVars, rowVars, countVars, histVars
<1>3. ASSUME NEW u \in Users, Take(t, u) PROVE TypeOK'
  <2> DEFINE s == [th[t] EXCEPT
                     !.batch = Plus(th[t].batch, Of(OwnerOf[u], bytes[u])),
                     !.pc = IF reg[u] = "retired" THEN "check" ELSE "take",
                     !.cur = IF reg[u] = "retired" THEN {u} ELSE {},
                     !.todo = th[t].todo \ {u}]
  <2>1. th' = [th EXCEPT ![t] = s]
    BY <1>3 DEF Take
  <2>2. Plus(th[t].batch, Of(OwnerOf[u], bytes[u])) \in Amounts
    BY StepType, AmountTypes, OwnersAssumption DEF Steps, TypeOK
  <2>3. s \in Steps
    BY <2>2, StepType DEF Steps
  <2> HIDE DEF s
  <2>4. th' \in [Threads -> Steps]
    BY <2>1, <2>3, ThreadType
  <2>5. bytes' \in [Users -> Nat]
    BY <1>3 DEF Take, TypeOK
  <2> QED
    BY <1>3, <2>4, <2>5 DEF Take, TypeOK, journalVars, rowVars, countVars, histVars
<1>4. ASSUME NEW u \in Users, Check(t, u) PROVE TypeOK'
  <2>1. th' \in [Threads -> Steps]
    BY <1>4, StepType DEF Check, TypeOK, Steps
  <2>2. Plus(lost, Of(OwnerOf[u], bytes[u])) \in Amounts
    BY AmountTypes, OwnersAssumption DEF TypeOK
  <2>3. reg' \in [Users -> {"none", "active", "retired"}] /\ bytes' \in [Users -> Nat]
        /\ lost' \in Amounts
    BY <1>4, <2>2 DEF Check, TypeOK
  <2> QED
    BY <1>4, <2>1, <2>3 DEF Check, TypeOK, journalVars, rowVars, countVars
<1> QED
  BY <1>1, <1>2, <1>3, <1>4 DEF Collect

LEMMA ChargeType ==
  ASSUME TypeOK, NEW batch \in Amounts, Charge(batch)
  PROVE  charged' \in Amounts /\ lost' \in Amounts
  BY DEF Charge, TypeOK, Amounts

LEMMA TypeRun ==
  ASSUME TypeOK,
         StartRun \/ Reconcile \/ ReconcileFails \/ Add \/ AddFails
  PROVE  TypeOK'
<1>1. CASE StartRun
  <2>1. th' \in [Threads -> Steps]
    BY <1>1, ThreadsDiffer, StepType DEF StartRun, TypeOK, Steps
  <2> QED
    BY <1>1, <2>1 DEF StartRun, TypeOK, serverVars, journalVars, rowVars, countVars, histVars
<1>2. CASE Reconcile
  <2>1. th' \in [Threads -> Steps]
    BY <1>2, ThreadsDiffer, StepType DEF Reconcile, TypeOK, Steps
  <2>2. CASE UNCHANGED <<serverVars, pending, edits>>
    BY <1>2, <2>1, <2>2 DEF Reconcile, TypeOK, serverVars, journalVars, rowVars, histVars
  <2>3. ASSUME NEW us \in SUBSET Users, NEW restart \in BOOLEAN, Converge(us, restart),
               edits' = edits + 1
        PROVE  TypeOK'
    BY <1>2, <2>1, <2>3, ConvergeType DEF Reconcile, TypeOK, journalVars, rowVars, histVars
  <2> QED
    BY <1>2, <2>2, <2>3 DEF Reconcile
<1>3. ASSUME EndRun PROVE th' \in [Threads -> Steps] /\ boot' \in {"due", "running", "over"}
  BY <1>3, AmountTypes DEF EndRun, TypeOK
<1>4. CASE ReconcileFails
  BY <1>3, <1>4 DEF ReconcileFails, Fault, TypeOK, serverVars, journalVars, rowVars, histVars
<1>5. th[Job].batch \in Amounts
  BY ThreadsDiffer, StepType DEF Steps
<1>6. CASE Add
  <2>1. charged' \in Amounts /\ lost' \in Amounts
    BY <1>5, <1>6, ChargeType DEF Add
  <2> QED
    BY <1>3, <1>6, <2>1 DEF Add, TypeOK, serverVars, journalVars, countVars
<1>7. CASE AddFails
  <2>1. charged' \in Amounts /\ lost' \in Amounts /\ doubled' \in Amounts
    BY <1>5, <1>7, ChargeType, AmountTypes DEF AddFails, TypeOK
  <2>2. pending' \in Amounts
    BY <1>5, <1>7, AmountTypes DEF AddFails, Requeued, TypeOK
  <2> QED
    BY <1>3, <1>7, <2>1, <2>2 DEF AddFails, Fault, TypeOK, serverVars, journalVars
<1> QED
  BY <1>1, <1>2, <1>4, <1>6, <1>7

LEMMA TypeStore ==
  ASSUME TypeOK,
         StoreFails \/ \E b \in Batches : Store(b) \/ StoreUnsure(b)
  PROVE  TypeOK'
<1>1. th[Flush].batch \in Amounts /\ th[Flush] \in Steps
  BY ThreadsDiffer, StepType DEF Steps
<1>2. ASSUME NEW b \in Batches, Store(b) PROVE TypeOK'
  <2> DEFINE s == [th[Flush] EXCEPT !.pc = "commit", !.list = files', !.batch = Nothing]
  <2>1. th' = [th EXCEPT ![Flush] = s]
    BY <1>2 DEF Store
  <2>2. files' \subseteq Batches /\ content' \in [Batches -> Amounts]
    BY <1>1, <1>2 DEF Store, TypeOK
  <2>3. s \in Steps
    BY <1>1, <2>2, AmountTypes DEF Steps
  <2> HIDE DEF s
  <2>4. th' \in [Threads -> Steps]
    BY <2>1, <2>3, ThreadsDiffer, ThreadType
  <2> QED
    BY <1>2, <2>2, <2>4 DEF Store, TypeOK, serverVars, rowVars, countVars, histVars
<1>3. [Idle EXCEPT !.pc = "done"] \in Steps
  BY AmountTypes DEF Steps
<1>4. ASSUME NEW b \in Batches, StoreUnsure(b) PROVE TypeOK'
  <2>1. files' \subseteq Batches /\ content' \in [Batches -> Amounts]
    BY <1>1, <1>4 DEF StoreUnsure, TypeOK
  <2>2. th' \in [Threads -> Steps]
    BY <1>3, <1>4 DEF StoreUnsure, TypeOK
  <2> QED
    BY <1>4, <2>1, <2>2 DEF StoreUnsure, Fault, TypeOK, serverVars, rowVars, histVars
<1>5. CASE StoreFails
  <2>1. pending' \in Amounts
    BY <1>1, <1>5, AmountTypes DEF StoreFails, Requeued, TypeOK
  <2>2. th' \in [Threads -> Steps]
    BY <1>3, <1>5 DEF StoreFails, TypeOK
  <2> QED
    BY <1>5, <2>1, <2>2 DEF StoreFails, Fault, TypeOK, serverVars, journalVars, rowVars
<1> QED
  BY <1>2, <1>4, <1>5

LEMMA ReplayFailedType ==
  ASSUME TypeOK, NEW t \in Threads, ReplayFailed(t)
  PROVE  th' \in [Threads -> Steps]
<1> DEFINE s == IF t = Job THEN [Idle EXCEPT !.pc = "reconcile"]
                ELSE IF Again THEN [Idle EXCEPT !.pc = "commit", !.list = files,
                                                !.tries = th[Flush].tries + 1]
                ELSE [Idle EXCEPT !.pc = "done"]
<1>1. th' = [th EXCEPT ![t] = s]
  BY DEF ReplayFailed
<1>2. th[Flush].tries \in 1 .. MaxTries
  BY ThreadsDiffer, StepType DEF Steps
<1>3. Again => th[Flush].tries + 1 \in 1 .. MaxTries
  BY <1>2 DEF Again, MaxTries
<1>4. s \in Steps
  BY <1>3, AmountTypes DEF Steps, TypeOK
<1> HIDE DEF s
<1> QED
  BY <1>1, <1>4, ThreadType

LEMMA BillType ==
  ASSUME TypeOK, NEW b \in Batches, Bill(b)
  PROVE  receipts' \subseteq Batches /\ charged' \in Amounts /\ lost' \in Amounts
<1>1. content[b] \in Amounts
  BY DEF TypeOK
<1> QED
  BY <1>1, ChargeType DEF Bill, TypeOK

LEMMA TypeReplay ==
  ASSUME TypeOK, NEW t \in Threads,
         \/ Enter(t) \/ Remove(t) \/ EndReplay(t) \/ RemoveFails(t)
         \/ \E b \in Batches : Commit(t, b) \/ CommitFails(t, b)
  PROVE  TypeOK'
<1>1. CASE Enter(t)
  <2> DEFINE s == IF t = Flush THEN [th[t] EXCEPT !.pc = "collect"]
                  ELSE [th[t] EXCEPT !.pc = "commit", !.list = files]
  <2>1. th' = [th EXCEPT ![t] = s]
    BY <1>1 DEF Enter
  <2>2. s \in Steps
    BY StepType DEF Steps, TypeOK
  <2> HIDE DEF s
  <2>3. th' \in [Threads -> Steps]
    BY <2>1, <2>2, ThreadType
  <2> QED
    BY <1>1, <2>3 DEF Enter, TypeOK, serverVars, journalVars, rowVars, countVars, histVars
<1>2. CASE Remove(t)
  <2> DEFINE s == [th[t] EXCEPT !.pc = "commit", !.at = {}]
  <2>1. s \in Steps
    BY StepType DEF Steps
  <2>2. th' = [th EXCEPT ![t] = s] /\ files' \subseteq Batches
    BY <1>2 DEF Remove, TypeOK
  <2> HIDE DEF s
  <2>3. th' \in [Threads -> Steps]
    BY <2>1, <2>2, ThreadType
  <2> QED
    BY <1>2, <2>2, <2>3 DEF Remove, TypeOK, serverVars, rowVars, countVars, histVars
<1>3. CASE EndReplay(t)
  <2>1. [Idle EXCEPT !.pc = IF t = Job THEN "reconcile" ELSE "done"] \in Steps
    BY AmountTypes DEF Steps
  <2>2. th' \in [Threads -> Steps]
    BY <1>3, <2>1, ThreadType DEF EndReplay
  <2> QED
    BY <1>3, <2>2 DEF EndReplay, TypeOK, serverVars, journalVars, rowVars, countVars, histVars
<1>4. CASE RemoveFails(t)
  BY <1>4, ReplayFailedType
  DEF RemoveFails, Fault, TypeOK, serverVars, journalVars, rowVars, histVars
<1>5. ASSUME NEW b \in Batches, Commit(t, b) PROVE TypeOK'
  <2> DEFINE s == [th[t] EXCEPT !.pc = "remove", !.list = th[t].list \ {b}, !.at = {b}]
  <2>1. th' = [th EXCEPT ![t] = s]
    BY <1>5 DEF Commit
  <2>2. s \in Steps
    BY StepType DEF Steps
  <2> HIDE DEF s
  <2>3. th' \in [Threads -> Steps]
    BY <2>1, <2>2, ThreadType
  <2> QED
    BY <1>5, <2>3, BillType DEF Commit, TypeOK, serverVars, countVars
<1>6. ASSUME NEW b \in Batches, CommitFails(t, b) PROVE TypeOK'
  <2>1. th' \in [Threads -> Steps]
    BY <1>6, ReplayFailedType DEF CommitFails
  <2>2. receipts' \subseteq Batches /\ charged' \in Amounts /\ lost' \in Amounts
    BY <1>6, BillType DEF CommitFails, TypeOK
  <2> QED
    BY <1>6, <2>1, <2>2 DEF CommitFails, Fault, TypeOK, serverVars
<1> QED
  BY <1>1, <1>2, <1>3, <1>4, <1>5, <1>6

LEMMA InMemoryType == ASSUME TypeOK PROVE InMemory \in Amounts
<1>1. th[Job].batch \in Amounts /\ th[Flush].batch \in Amounts
  BY ThreadsDiffer, StepType DEF Steps
<1> QED
  BY <1>1, CountedType DEF InMemory, TypeOK, Amounts

LEMMA TypePanel ==
  ASSUME TypeOK, Shutdown \/ StopAll \/ Exit \/ PanelCrashes \/ PanelStarts
  PROVE  TypeOK'
<1>1. CASE Shutdown
  BY <1>1 DEF Shutdown, Fault, TypeOK, serverVars, journalVars, rowVars
<1>2. CASE StopAll
  <2>1. th' \in [Threads -> Steps]
    BY <1>2, ThreadsDiffer, StepType DEF StopAll, TypeOK, Steps
  <2>2. pending' \in Amounts
    BY <1>2, CountedType, AmountTypes DEF StopAll, Drained, TypeOK
  <2> QED
    BY <1>2, <2>1, <2>2 DEF StopAll, TypeOK, journalVars, rowVars, countVars, histVars
<1>3. CASE Exit \/ PanelCrashes
  <2>0. Gone /\ faults' \in Nat
    BY <1>3 DEF Exit, PanelCrashes, Fault, TypeOK
  <2>1. lost' \in Amounts /\ th' \in [Threads -> Steps] /\ pending' \in Amounts
    BY <2>0, InMemoryType, AmountTypes DEF Gone, TypeOK
  <2> QED
    BY <2>0, <2>1 DEF Gone, TypeOK, journalVars, rowVars
<1>4. CASE PanelStarts
  BY <1>4 DEF PanelStarts, TypeOK, serverVars, journalVars, rowVars, countVars
<1> QED
  BY <1>1, <1>2, <1>3, <1>4

LEMMA TypeStep == TypeOK /\ [Next]_vars => TypeOK'
<1> SUFFICES ASSUME TypeOK, [Next]_vars PROVE TypeOK'
  OBVIOUS
<1>1. CASE \/ Run \/ ReconcileFails \/ AddFails \/ Close \/ StoreFails
           \/ \E b \in Batches : StoreUnsure(b)
           \/ \E t \in Threads : RemoveFails(t) \/ \E b \in Batches : CommitFails(t, b)
  BY <1>1, ThreadsDiffer, TypeRun, TypeCollect, TypeReplay, TypeStore, TypePanel
  DEF Run, Close, Replay
<1>2. CASE \/ \E u \in Users : Connect(u) \/ Use(u) \/ Disconnect(u)
           \/ \E us \in SUBSET Users, restart \in BOOLEAN : Ensure(us, restart)
           \/ \E c \in Clients : DeleteRow(c)
           \/ Shutdown \/ PanelCrashes \/ PanelStarts
  BY <1>2, TypeSessions, TypeEdits, TypePanel
<1>3. CASE UNCHANGED vars
  BY <1>3 DEF vars, TypeOK, serverVars, journalVars, rowVars, countVars, histVars
<1> QED
  BY <1>1, <1>2, <1>3 DEF Next

(* Types: for any clients, registrations, journal files and bounds, every step *)
(* of the sessions, the manager, the job, the journal and the panel's life    *)
(* keeps the state what it is.                                              *)
THEOREM TypeCorrect == Spec => []TypeOK
  BY TypeInit, TypeStep, PTL DEF Spec

-----------------------------------------------------------------------------
(* The journal.                                                             *)

LEMMA WorksInJournal == \A t : InJournal(t) <=> Works(t, th[t])
  BY DEF InJournal, Works

\* One thread's step, which may add files and receipts.
LEMMA JournalMoves ==
  ASSUME TypeOK, Journal, NEW t \in Threads, NEW s, th' = [th EXCEPT ![t] = s],
         files \subseteq files', receipts \subseteq receipts',
         StepKept(t, s, files', receipts'),
         Works(t, s) => Works(t, th[t]) \/ \A r \in Threads : ~InJournal(r)
  PROVE  Journal'
<1>1. th'[t] = s /\ \A r \in Threads \ {t} : th'[r] = th[r]
  BY DEF TypeOK
<1>2. ASSUME NEW r \in Threads PROVE Kept(r)'
  <2>1. CASE r = t
    BY <1>1, <2>1 DEF Kept
  <2>2. CASE r # t
    <3>1. StepKept(r, th[r], files, receipts)
      BY DEF Journal, Kept
    <3>2. StepKept(r, th[r], files', receipts')
      BY <3>1 DEF StepKept
    <3> QED
      BY <1>1, <2>2, <3>2 DEF Kept
  <2> QED
    BY <2>1, <2>2
<1>3. \A r \in Threads : InJournal(r)' <=> Works(r, th'[r])
  BY DEF InJournal, Works
<1>4. ~(InJournal(Job)' /\ InJournal(Flush)')
  BY <1>1, <1>3, WorksInJournal, ThreadsDiffer DEF Journal, Threads
<1> QED
  BY <1>2, <1>4 DEF Journal

LEMMA JournalSame ==
  ASSUME Journal, UNCHANGED <<th, files, receipts>>
  PROVE  Journal'
  BY DEF Journal, Kept, StepKept, InJournal

\* What a thread holds at a step, and what it is when it is over.
LEMMA HoldsNothing ==
  ASSUME TypeOK, Journal, NEW t \in Threads
  PROVE  /\ StepKept(t, th[t], files, receipts) /\ th[t] \in Steps
         /\ th[t].pc \in {"idle", "wait", "reconcile", "collect", "commit", "remove", "done"} =>
              th[t].batch = Nothing
         /\ th[t].pc \notin {"commit", "remove"} => th[t].list = {} /\ th[t].at = {}
         /\ th[t].pc # "remove" => th[t].at = {}
<1>1. StepKept(t, th[t], files, receipts)
  BY DEF Journal, Kept
<1> QED
  BY <1>1, StepType DEF StepKept

LEMMA JournalCollect ==
  ASSUME TypeOK, Journal, NEW t \in Threads, Collect(t)
  PROVE  Journal'
<1>0. t = Job \/ t = Flush
  BY DEF Threads
<1>1. CASE BeginCollect(t)
  <2> DEFINE s == [th[t] EXCEPT !.pc = "take", !.batch = pending,
                                !.todo = IF server THEN {u \in Users : reg[u] # "none"} ELSE {}]
  <2>1. th' = [th EXCEPT ![t] = s] /\ th[t].pc = "collect"
        /\ files' = files /\ receipts' = receipts
    BY <1>1 DEF BeginCollect, journalVars
  <2>2. s.pc = "take" /\ s.list = {} /\ s.at = {}
    BY <2>1, HoldsNothing DEF Steps
  <2> HIDE DEF s
  <2>3. StepKept(t, s, files', receipts')
    BY <2>2 DEF StepKept
  <2>4. Works(t, s) => Works(t, th[t])
    BY <2>1, <2>2 DEF Works
  <2> QED
    BY <2>1, <2>3, <2>4, JournalMoves
<1>2. CASE EndCollect(t)
  <2> DEFINE s == IF th[t].batch # Nothing
                    THEN [th[t] EXCEPT !.pc = IF t = Job THEN "add" ELSE "store"]
                  ELSE IF t = Job THEN Idle
                  ELSE [th[t] EXCEPT !.pc = "commit", !.list = files]
  <2>1. th' = [th EXCEPT ![t] = s] /\ th[t].pc = "take"
        /\ files' = files /\ receipts' = receipts
    BY <1>2 DEF EndCollect, journalVars
  <2>2. StepKept(t, s, files', receipts')
    <3>1. CASE th[t].batch # Nothing
      BY <2>1, <3>1, HoldsNothing DEF StepKept, Steps
    <3>2. CASE th[t].batch = Nothing /\ t = Job
      BY <3>2 DEF StepKept, Idle
    <3>3. CASE th[t].batch = Nothing /\ t # Job
      BY <2>1, <3>3, HoldsNothing DEF StepKept, Steps
    <3> QED
      BY <3>1, <3>2, <3>3
  <2>3. Works(t, s) => Works(t, th[t])
    <3>1. CASE t = Job
      BY <2>1, <3>1, HoldsNothing, ThreadsDiffer DEF Works, Steps, Idle
    <3>2. CASE t = Flush
      BY <2>1, <3>2 DEF Works
    <3> QED
      BY <1>0, <3>1, <3>2
  <2> HIDE DEF s
  <2> QED
    BY <2>1, <2>2, <2>3, JournalMoves
<1>3. ASSUME NEW u \in Users, Take(t, u) PROVE Journal'
  <2> DEFINE s == [th[t] EXCEPT
                     !.batch = Plus(th[t].batch, Of(OwnerOf[u], bytes[u])),
                     !.pc = IF reg[u] = "retired" THEN "check" ELSE "take",
                     !.cur = IF reg[u] = "retired" THEN {u} ELSE {},
                     !.todo = th[t].todo \ {u}]
  <2>1. th' = [th EXCEPT ![t] = s] /\ th[t].pc = "take"
        /\ files' = files /\ receipts' = receipts
    BY <1>3 DEF Take, journalVars
  <2>2. s.pc \in {"take", "check"} /\ s.list = {} /\ s.at = {}
    BY <2>1, HoldsNothing DEF Steps
  <2> HIDE DEF s
  <2>3. StepKept(t, s, files', receipts')
    BY <2>2 DEF StepKept
  <2>4. Works(t, s) => Works(t, th[t])
    BY <2>1, <2>2 DEF Works
  <2> QED
    BY <2>1, <2>3, <2>4, JournalMoves
<1>4. ASSUME NEW u \in Users, Check(t, u) PROVE Journal'
  <2> DEFINE s == [th[t] EXCEPT !.pc = "take", !.cur = {}]
  <2>1. th' = [th EXCEPT ![t] = s] /\ th[t].pc = "check"
        /\ files' = files /\ receipts' = receipts
    BY <1>4 DEF Check, journalVars
  <2>2. s.pc = "take" /\ s.list = {} /\ s.at = {}
    BY <2>1, HoldsNothing DEF Steps
  <2> HIDE DEF s
  <2>3. StepKept(t, s, files', receipts')
    BY <2>2 DEF StepKept
  <2>4. Works(t, s) => Works(t, th[t])
    BY <2>1, <2>2 DEF Works
  <2> QED
    BY <2>1, <2>3, <2>4, JournalMoves
<1> QED
  BY <1>1, <1>2, <1>3, <1>4 DEF Collect

\* A thread that becomes idle, or is done, holds nothing and works on nothing.
LEMMA IdleKept ==
  ASSUME NEW t, NEW fs, NEW rs
  PROVE  /\ StepKept(t, Idle, fs, rs) /\ ~Works(t, Idle)
         /\ \A p \in {"reconcile", "done"} : StepKept(t, [Idle EXCEPT !.pc = p], fs, rs)
         /\ ~Works(t, [Idle EXCEPT !.pc = "done"])
         /\ ~Works(Job, [Idle EXCEPT !.pc = "reconcile"])
  BY ThreadsDiffer DEF StepKept, Works, Idle

LEMMA JournalRun ==
  ASSUME TypeOK, Journal, StartRun \/ Reconcile \/ ReconcileFails \/ Add \/ AddFails
  PROVE  Journal'
<1>1. files' = files /\ receipts' = receipts
  BY DEF StartRun, Reconcile, ReconcileFails, Add, AddFails, journalVars
<1>2. CASE StartRun \/ Reconcile
  <2>1. PICK p \in {"wait", "collect"} : th' = [th EXCEPT ![Job] = [th[Job] EXCEPT !.pc = p]]
    BY <1>2, ThreadsDiffer DEF StartRun, Reconcile, TypeOK
  <2>2. th[Job].pc \in {"idle", "reconcile"}
    BY <1>2 DEF StartRun, Reconcile
  <2> DEFINE s == [th[Job] EXCEPT !.pc = p]
  <2>3. s.pc \notin {"commit", "remove"} /\ s.batch = Nothing /\ s.list = {} /\ s.at = {}
    BY <2>1, <2>2, HoldsNothing, ThreadsDiffer DEF Steps
  <2>4. th' = [th EXCEPT ![Job] = s]
    BY <2>1
  <2> HIDE DEF s
  <2>5. StepKept(Job, s, files', receipts') /\ ~Works(Job, s)
    BY <2>3, ThreadsDiffer DEF StepKept, Works
  <2> QED
    BY <1>1, <2>4, <2>5, JournalMoves, ThreadsDiffer
<1>3. CASE ReconcileFails \/ Add \/ AddFails
  <2>1. th' = [th EXCEPT ![Job] = Idle]
    BY <1>3 DEF ReconcileFails, Add, AddFails, EndRun
  <2> QED
    BY <1>1, <2>1, IdleKept, JournalMoves, ThreadsDiffer
<1> QED
  BY <1>2, <1>3

LEMMA JournalStore ==
  ASSUME TypeOK, Journal, StoreFails \/ \E b \in Batches : Store(b) \/ StoreUnsure(b)
  PROVE  Journal'
<1>1. ASSUME NEW b \in Batches, Store(b) PROVE Journal'
  <2> DEFINE s == [th[Flush] EXCEPT !.pc = "commit", !.list = files', !.batch = Nothing]
  <2>1. th' = [th EXCEPT ![Flush] = s] /\ th[Flush].pc = "store"
        /\ files' = files \cup {b} /\ receipts' = receipts
    BY <1>1 DEF Store
  <2>2. s.pc = "commit" /\ s.batch = Nothing /\ s.list = files' /\ s.at = {}
    BY <2>1, HoldsNothing, ThreadsDiffer DEF Steps
  <2> HIDE DEF s
  <2>3. StepKept(Flush, s, files', receipts')
    BY <2>2 DEF StepKept
  <2>4. Works(Flush, th[Flush])
    BY <2>1 DEF Works
  <2> QED
    BY <2>1, <2>3, <2>4, JournalMoves, ThreadsDiffer
<1>2. ASSUME StoreFails \/ \E b \in Batches : StoreUnsure(b) PROVE Journal'
  <2>1. th' = [th EXCEPT ![Flush] = [Idle EXCEPT !.pc = "done"]]
        /\ files \subseteq files' /\ receipts' = receipts
    BY <1>2 DEF StoreFails, StoreUnsure, journalVars
  <2> QED
    BY <2>1, IdleKept, JournalMoves, ThreadsDiffer
<1> QED
  BY <1>1, <1>2

\* A replay that fails, at a commit or at a removal.
LEMMA JournalFailed ==
  ASSUME TypeOK, Journal, NEW t \in Threads, th[t].pc \in {"commit", "remove"}, ReplayFailed(t),
         files' = files, receipts \subseteq receipts'
  PROVE  Journal'
<1> DEFINE s == IF t = Job THEN [Idle EXCEPT !.pc = "reconcile"]
                ELSE IF Again THEN [Idle EXCEPT !.pc = "commit", !.list = files,
                                                !.tries = th[Flush].tries + 1]
                ELSE [Idle EXCEPT !.pc = "done"]
<1>1. th' = [th EXCEPT ![t] = s]
  BY DEF ReplayFailed
<1>2. StepKept(t, s, files', receipts')
  BY DEF StepKept, Idle
<1>3. Works(t, th[t])
  BY DEF Works
<1> HIDE DEF s
<1> QED
  BY <1>1, <1>2, <1>3, JournalMoves

LEMMA JournalReplay ==
  ASSUME TypeOK, Journal, NEW t \in Threads,
         \/ Enter(t) \/ Remove(t) \/ EndReplay(t) \/ RemoveFails(t)
         \/ \E b \in Batches : Commit(t, b) \/ CommitFails(t, b)
  PROVE  Journal'
<1>1. CASE Enter(t)
  <2> DEFINE s == IF t = Flush THEN [th[t] EXCEPT !.pc = "collect"]
                  ELSE [th[t] EXCEPT !.pc = "commit", !.list = files]
  <2>1. th' = [th EXCEPT ![t] = s] /\ th[t].pc = "wait"
        /\ files' = files /\ receipts' = receipts /\ \A r \in Threads : ~InJournal(r)
    BY <1>1 DEF Enter, journalVars
  <2>2. StepKept(t, s, files', receipts')
    BY <2>1, HoldsNothing DEF StepKept, Steps
  <2> HIDE DEF s
  <2> QED
    BY <2>1, <2>2, JournalMoves
<1>2. CASE Remove(t)
  <2> DEFINE s == [th[t] EXCEPT !.pc = "commit", !.at = {}]
  <2>1. th' = [th EXCEPT ![t] = s] /\ th[t].pc = "remove"
        /\ files' = files \ th[t].at /\ receipts' = receipts
    BY <1>2 DEF Remove
  <2>2. s.pc = "commit" /\ s.batch = Nothing /\ s.list = th[t].list /\ s.at = {}
    BY <2>1, HoldsNothing DEF Steps
  <2>3. th'[t] = s /\ \A r \in Threads \ {t} : th'[r] = th[r]
    BY <2>1 DEF TypeOK
  <2> HIDE DEF s
  <2>4. Kept(t)'
    <3>1. th[t].list \subseteq files /\ th[t].list \cap th[t].at = {}
      BY HoldsNothing DEF StepKept
    <3> QED
      BY <2>1, <2>2, <2>3, <3>1 DEF Kept, StepKept
  <2>5. ASSUME NEW r \in Threads \ {t} PROVE Kept(r)' /\ ~InJournal(r)'
    <3>1. ~Works(r, th[r])
      BY <2>1, WorksInJournal, ThreadsDiffer DEF Journal, Works, Threads
    <3>2. th[r].list = {}
      BY <3>1, HoldsNothing DEF Works
    <3>3. StepKept(r, th[r], files', receipts')
      BY <2>1, <3>2, HoldsNothing DEF StepKept
    <3> QED
      BY <2>3, <3>1, <3>3 DEF Kept, InJournal, Works
  <2> QED
    BY <2>4, <2>5, ThreadsDiffer DEF Journal, Threads
<1>3. CASE EndReplay(t)
  <2>1. th' = [th EXCEPT ![t] = [Idle EXCEPT !.pc = IF t = Job THEN "reconcile" ELSE "done"]]
        /\ files' = files /\ receipts' = receipts
    BY <1>3 DEF EndReplay, journalVars
  <2>2. th[t].pc = "commit"
    BY <1>3 DEF EndReplay
  <2>3. Works(t, th[t])
    BY <2>2 DEF Works
  <2> QED
    BY <2>1, <2>3, IdleKept, JournalMoves
<1>4. CASE RemoveFails(t)
  BY <1>4, JournalFailed DEF RemoveFails, journalVars
<1>5. ASSUME NEW b \in Batches, Commit(t, b) PROVE Journal'
  <2> DEFINE s == [th[t] EXCEPT !.pc = "remove", !.list = th[t].list \ {b}, !.at = {b}]
  <2>1. th' = [th EXCEPT ![t] = s] /\ th[t].pc = "commit"
        /\ files' = files /\ receipts' = receipts \cup {b}
    BY <1>5 DEF Commit, Bill
  <2>2. s.pc = "remove" /\ s.batch = Nothing /\ s.list = th[t].list \ {b} /\ s.at = {b}
    BY <2>1, HoldsNothing DEF Steps
  <2> HIDE DEF s
  <2>3. StepKept(t, s, files', receipts')
    BY <2>1, <2>2, HoldsNothing DEF StepKept
  <2>4. Works(t, th[t])
    BY <2>1 DEF Works
  <2> QED
    BY <2>1, <2>3, <2>4, JournalMoves
<1>6. ASSUME NEW b \in Batches, CommitFails(t, b) PROVE Journal'
  BY <1>6, JournalFailed DEF CommitFails, Bill
<1> QED
  BY <1>1, <1>2, <1>3, <1>4, <1>5, <1>6

LEMMA JournalStep == TypeOK /\ Journal /\ [Next]_vars => Journal'
<1> SUFFICES ASSUME TypeOK, Journal, [Next]_vars PROVE Journal'
  OBVIOUS
<1>1. CASE \/ Run \/ ReconcileFails \/ AddFails \/ StoreFails
           \/ \E b \in Batches : Store(b) \/ StoreUnsure(b)
           \/ \E t \in Threads : Collect(t) \/ Replay(t) \/ RemoveFails(t)
                                 \/ \E b \in Batches : CommitFails(t, b)
  BY <1>1, ThreadsDiffer, JournalRun, JournalCollect, JournalReplay, JournalStore
  DEF Run, Replay
<1>2. CASE \/ \E u \in Users : Connect(u) \/ Use(u) \/ Disconnect(u)
           \/ \E us \in SUBSET Users, restart \in BOOLEAN : Ensure(us, restart)
           \/ \E c \in Clients : DeleteRow(c)
           \/ Shutdown \/ PanelStarts \/ UNCHANGED vars
  <2>1. UNCHANGED <<th, files, receipts>>
    BY <1>2 DEF Connect, Use, Disconnect, Ensure, DeleteRow, Shutdown, PanelStarts, vars,
                journalVars
  <2> QED
    BY <2>1, JournalSame
<1>3. CASE StopAll
  <2> DEFINE s == [th[Flush] EXCEPT !.pc = "wait"]
  <2>1. th' = [th EXCEPT ![Flush] = s] /\ th[Flush].pc = "idle"
        /\ files' = files /\ receipts' = receipts
    BY <1>3 DEF StopAll, journalVars
  <2>2. s.pc = "wait" /\ s.batch = Nothing /\ s.list = {} /\ s.at = {}
    BY <2>1, HoldsNothing, ThreadsDiffer DEF Steps
  <2> HIDE DEF s
  <2>3. StepKept(Flush, s, files', receipts') /\ ~Works(Flush, s)
    BY <2>2 DEF StepKept, Works
  <2> QED
    BY <2>1, <2>3, JournalMoves, ThreadsDiffer
<1>4. CASE Exit \/ PanelCrashes
  <2>1. \A t \in Threads : th'[t] = Idle
    BY <1>4 DEF Exit, PanelCrashes, Gone
  <2>2. \A t \in Threads : Kept(t)' /\ ~InJournal(t)'
    BY <2>1, IdleKept DEF Kept, InJournal, Works
  <2> QED
    BY <2>2, ThreadsDiffer DEF Journal
<1> QED
  BY <1>1, <1>2, <1>3, <1>4, ThreadsDiffer DEF Next, Close, Run, Replay

-----------------------------------------------------------------------------
(* The shutdown.                                                            *)

LEMMA ConvergeDrains ==
  ASSUME Drains, NEW us \in SUBSET Users, NEW restart \in BOOLEAN, Converge(us, restart)
  PROVE  Drains'
<1>1. CASE server /\ ~restart /\ us # {}
  BY <1>1 DEF Converge, Drains
<1>2. CASE ~(server /\ ~restart /\ us # {})
  BY <1>2 DEF Converge, Drains
<1> QED
  BY <1>1, <1>2

\* Counters only move with a session, and sessions only with a server.
LEMMA DrainsStep == TypeOK /\ Drains /\ [Next]_vars => Drains'
<1> SUFFICES ASSUME TypeOK, Drains, [Next]_vars PROVE Drains'
  OBVIOUS
<1>1. ASSUME NEW u \in Users, Connect(u) \/ Use(u) \/ Disconnect(u) PROVE Drains'
  BY <1>1 DEF Connect, Use, Disconnect, Drains, TypeOK
<1>2. ASSUME NEW us \in SUBSET Users, NEW restart \in BOOLEAN, Ensure(us, restart) PROVE Drains'
  BY <1>2, ConvergeDrains DEF Ensure
<1>3. CASE Reconcile
  BY <1>3, ConvergeDrains DEF Reconcile, Drains, serverVars
<1>4. ASSUME NEW t \in Threads, Collect(t) PROVE Drains'
  <2>1. server' = server /\ sessions' = sessions
        /\ \A u \in Users : bytes'[u] = bytes[u] \/ bytes'[u] = 0
    BY <1>4 DEF Collect, BeginCollect, EndCollect, Take, Check, serverVars, TypeOK
  <2> QED
    BY <2>1 DEF Drains
<1>5. CASE StopAll \/ Exit \/ PanelCrashes
  BY <1>5 DEF StopAll, Exit, PanelCrashes, Gone, Drains
<1>6. CASE \/ StartRun \/ ReconcileFails \/ Add \/ AddFails \/ StoreFails
           \/ \E b \in Batches : Store(b) \/ StoreUnsure(b)
           \/ \E c \in Clients : DeleteRow(c)
           \/ Shutdown \/ PanelStarts \/ UNCHANGED vars
  BY <1>6
  DEF StartRun, ReconcileFails, Add, AddFails, StoreFails, Store, StoreUnsure, DeleteRow,
      Shutdown, PanelStarts, vars, serverVars, Drains
<1>7. ASSUME NEW t \in Threads,
             \/ Replay(t) \/ RemoveFails(t) \/ \E b \in Batches : CommitFails(t, b)
      PROVE  Drains'
  BY <1>7
  DEF Replay, Enter, Remove, EndReplay, Commit, RemoveFails, CommitFails, serverVars, Drains
<1> QED
  BY <1>1, <1>2, <1>3, <1>4, <1>5, <1>6, <1>7, ThreadsDiffer DEF Next, Run, Close

\* The job's steps, which it does not take while it is idle and its run at
\* boot is over.
JobWorks ==
  \/ Reconcile \/ Add \/ ReconcileFails \/ AddFails \/ Collect(Job) \/ Replay(Job)
  \/ RemoveFails(Job) \/ \E b \in Batches : CommitFails(Job, b)

LEMMA JobWorking == JobWorks => th[Job].pc # "idle"
  BY DEF JobWorks, Reconcile, Add, ReconcileFails, AddFails, Collect, Replay, RemoveFails,
         CommitFails, BeginCollect, EndCollect, Take, Check, Enter, Remove, EndReplay, Commit

\* A step of the job leaves the flush alone, and the other way round.
LEMMA OtherThread ==
  ASSUME TypeOK, NEW t \in Threads, NEW r \in Threads, r # t,
         \/ Collect(t) \/ Replay(t) \/ RemoveFails(t) \/ \E b \in Batches : CommitFails(t, b)
  PROVE  th'[r] = th[r]
<1>1. CASE RemoveFails(t) \/ \E b \in Batches : CommitFails(t, b)
  BY <1>1 DEF RemoveFails, CommitFails, ReplayFailed, TypeOK
<1>2. CASE Replay(t)
  BY <1>2 DEF Replay, Enter, Remove, EndReplay, Commit, TypeOK
<1>3. CASE Collect(t)
  BY <1>3 DEF Collect, BeginCollect, EndCollect, Take, Check, TypeOK
<1> QED
  BY <1>1, <1>2, <1>3

LEMMA JobLeavesFlush == ASSUME TypeOK, JobWorks \/ StartRun PROVE th'[Flush] = th[Flush]
<1>1. CASE Reconcile \/ Add \/ ReconcileFails \/ AddFails \/ StartRun
  BY <1>1, ThreadsDiffer DEF Reconcile, Add, ReconcileFails, AddFails, StartRun, EndRun, TypeOK
<1> QED
  BY <1>1, OtherThread, ThreadsDiffer DEF JobWorks

\* The flush's steps after its start: it goes on, and puts back only what the
\* journal could not take.
FlushWorks ==
  \/ Collect(Flush) \/ Replay(Flush) \/ RemoveFails(Flush) \/ StoreFails
  \/ \E b \in Batches : Store(b) \/ StoreUnsure(b) \/ CommitFails(Flush, b)

LEMMA FlushGoesOn ==
  ASSUME TypeOK, FlushWorks
  PROVE  /\ th[Flush].pc # "idle" /\ th'[Job] = th[Job]
         /\ panel' = panel /\ late' = late /\ boot' = boot /\ server' = server
         /\ unstored => unstored'
         /\ \/ th'[Flush].pc = "collect"
            \/ pending' = Nothing \/ unstored'
            \/ th[Flush].pc \notin {"idle", "wait", "collect"} /\ pending' = pending
<1>1. CASE Collect(Flush)
  <2>1. th'[Job] = th[Job]
    BY <1>1, OtherThread, ThreadsDiffer
  <2>2. /\ panel' = panel /\ late' = late /\ unstored' = unstored /\ server' = server
        /\ boot' = boot
    BY <1>1, ThreadsDiffer
    DEF Collect, BeginCollect, EndCollect, Take, Check, serverVars, histVars
  <2>3. CASE BeginCollect(Flush)
    BY <2>1, <2>2, <2>3 DEF BeginCollect
  <2>4. CASE EndCollect(Flush) \/ \E u \in Users : Take(Flush, u) \/ Check(Flush, u)
    <3>1. th[Flush].pc \in {"take", "check"} /\ pending' = pending
      BY <2>4 DEF EndCollect, Take, Check
    <3> QED
      BY <2>1, <2>2, <3>1
  <2> QED
    BY <1>1, <2>3, <2>4 DEF Collect
<1>2. CASE Replay(Flush)
  <2>1. th'[Job] = th[Job]
    BY <1>2, OtherThread, ThreadsDiffer
  <2>2. CASE Enter(Flush)
    <3>1. th'[Flush] = [th[Flush] EXCEPT !.pc = "collect"]
      BY <2>2, ThreadsDiffer DEF Enter, TypeOK
    <3>2. th'[Flush].pc = "collect"
      BY <3>1, StepType, ThreadsDiffer DEF Steps
    <3> QED
      BY <2>1, <2>2, <3>2 DEF Enter, serverVars, histVars
  <2>3. CASE Remove(Flush) \/ EndReplay(Flush) \/ \E b \in Batches : Commit(Flush, b)
    <3>1. th[Flush].pc \in {"commit", "remove"} /\ pending' = pending
      BY <2>3 DEF Remove, EndReplay, Commit
    <3>2. /\ panel' = panel /\ late' = late /\ unstored' = unstored /\ server' = server
          /\ boot' = boot
      BY <2>3 DEF Remove, EndReplay, Commit, serverVars, histVars
    <3> QED
      BY <2>1, <3>1, <3>2
  <2> QED
    BY <1>2, <2>2, <2>3 DEF Replay
<1>3. CASE RemoveFails(Flush) \/ \E b \in Batches : CommitFails(Flush, b)
  <2>1. th'[Job] = th[Job]
    BY <1>3, OtherThread, ThreadsDiffer
  <2> QED
    BY <1>3, <2>1 DEF RemoveFails, CommitFails, serverVars, histVars
<1>4. CASE StoreFails \/ \E b \in Batches : Store(b) \/ StoreUnsure(b)
  BY <1>4, ThreadsDiffer DEF StoreFails, Store, StoreUnsure, TypeOK, serverVars, histVars
<1> QED
  BY <1>1, <1>2, <1>3, <1>4 DEF FlushWorks

\* Registrations without bytes have counted nothing.
LEMMA CountedNothing ==
  ASSUME TypeOK, \A u \in Users : bytes[u] = 0
  PROVE  Counted(Users) = Nothing
<1>1. ASSUME NEW c \in Clients PROVE Counted(Users)[c] = 0
  <2> DEFINE us == {u \in Users : OwnerOf[u] = c}
  <2>1. IsFiniteSet(us) /\ \A u \in us : bytes[u] = 0
    BY OwnedFinite
  <2>2. Counted(Users)[c] = SumFunctionOnSet(bytes, us)
    BY DEF Counted
  <2> HIDE DEF us
  <2> QED
    BY <2>1, <2>2, SumNothing
<1> QED
  BY <1>1 DEF Counted, Nothing

LEMMA ClosingStep == TypeOK /\ Drains /\ Closing /\ [Next]_vars => Closing'
<1> SUFFICES ASSUME TypeOK, Drains, Closing, [Next]_vars PROVE Closing'
  OBVIOUS
<1>1. CASE JobWorks \/ StartRun
  <2>1. panel' = panel /\ late' = late
    BY <1>1
    DEF JobWorks, StartRun, Reconcile, Add, ReconcileFails, AddFails, Collect, Replay,
        RemoveFails, CommitFails, BeginCollect, EndCollect, Take, Check, Enter, Remove,
        EndReplay, Commit, histVars
  <2>2. th'[Flush] = th[Flush]
    BY <1>1, JobLeavesFlush
  <2>3. ~(panel = "stopping" /\ ~late)
    BY <1>1, JobWorking DEF Closing, StartRun
  <2> QED
    BY <2>1, <2>2, <2>3 DEF Closing
<1>2. CASE FlushWorks
  BY <1>2, FlushGoesOn DEF Closing
<1>3. CASE StopAll
  <2>1. th'[Flush] = [th[Flush] EXCEPT !.pc = "wait"] /\ th'[Job] = th[Job]
    BY <1>3, ThreadsDiffer DEF StopAll, TypeOK
  <2>2. th'[Flush].pc = "wait"
    BY <2>1, StepType, ThreadsDiffer DEF Steps
  <2> QED
    BY <1>3, <2>1, <2>2 DEF StopAll, Closing, histVars
<1>4. ASSUME NEW u \in Users, Connect(u) \/ Use(u) \/ Disconnect(u) PROVE Closing'
  BY <1>4 DEF Connect, Use, Disconnect, Closing, histVars
<1>5. ASSUME NEW us \in SUBSET Users, NEW restart \in BOOLEAN, Ensure(us, restart)
      PROVE  Closing'
  <2>1. /\ panel' = panel /\ boot' = boot /\ th' = th /\ unstored' = unstored
        /\ ~late' => ~late /\ (th[Flush].pc = "idle" \/ us = {})
    BY <1>5 DEF Ensure
  <2>2. CASE panel # "stopping" \/ late' \/ th[Flush].pc = "idle"
    BY <2>1, <2>2 DEF Closing
  <2>3. CASE panel = "stopping" /\ ~late' /\ th[Flush].pc # "idle"
    <3>1. us = {} /\ ~server /\ boot = "over" /\ th[Job].pc = "idle"
      BY <2>1, <2>3 DEF Closing
    <3>2. ~server' /\ pending' = Plus(pending, Drained)
      BY <1>5, <3>1 DEF Ensure, Converge
    <3>3. Drained = Nothing /\ pending \in Amounts
      BY <3>1, CountedNothing DEF Drains, Drained, TypeOK
    <3>4. Plus(Nothing, Nothing) = Nothing
      BY DEF Plus, Nothing
    <3> QED
      BY <2>1, <3>1, <3>2, <3>3, <3>4 DEF Closing
  <2> QED
    BY <2>2, <2>3
<1>10. ASSUME NEW c \in Clients, DeleteRow(c) PROVE Closing'
  BY <1>10 DEF DeleteRow, Closing, serverVars, histVars
<1>6. CASE Shutdown
  BY <1>6 DEF Shutdown, Waited, Closing
<1>7. CASE Exit \/ PanelCrashes
  BY <1>7, ThreadsDiffer DEF Exit, PanelCrashes, Gone, Idle, Closing
<1>8. CASE PanelStarts
  BY <1>8 DEF PanelStarts, Closing
<1>9. CASE UNCHANGED vars
  BY <1>9 DEF vars, serverVars, histVars, Closing
<1> QED
  BY <1>1, <1>2, <1>3, <1>4, <1>5, <1>6, <1>7, <1>8, <1>9, <1>10
  DEF Next, Run, Close, JobWorks, FlushWorks, Threads

ShutdownInv == TypeOK /\ Journal /\ Drains /\ Closing

LEMMA ShutdownInit == Init => ShutdownInv
<1> SUFFICES ASSUME Init PROVE ShutdownInv
  OBVIOUS
<1>1. \A t \in Threads : Kept(t) /\ ~InJournal(t)
  BY IdleKept DEF Init, Kept, InJournal, Works
<1>2. Journal
  BY <1>1, ThreadsDiffer DEF Journal
<1>3. Closing
  BY ThreadsDiffer DEF Init, Closing, Idle
<1> QED
  BY <1>2, <1>3, TypeInit DEF ShutdownInv, Init, Drains

LEMMA ShutdownStep == ShutdownInv /\ [Next]_vars => ShutdownInv'
  BY TypeStep, JournalStep, DrainsStep, ClosingStep DEF ShutdownInv

\* When a shutdown ends that was on time, nothing is held in memory.
LEMMA NothingHeld ==
  ASSUME ShutdownInv, panel = "stopping", th[Flush].pc = "done", ~late, ~unstored
  PROVE  InMemory = Nothing
<1>1. ~server /\ pending = Nothing /\ th[Job].pc = "idle"
  BY DEF ShutdownInv, Closing
<1>2. th[Job].batch = Nothing /\ th[Flush].batch = Nothing
  BY <1>1, HoldsNothing, ThreadsDiffer DEF ShutdownInv
<1>3. Counted(Users) = Nothing
  BY <1>1, CountedNothing DEF ShutdownInv, Drains
<1> QED
  BY <1>1, <1>2, <1>3 DEF InMemory, Nothing

(* A graceful shutdown loses nothing, unless the boot run was still counting   *)
(* or the journal could not be written, or a slow call started a server behind  *)
(* StopAll: the server has been drained and does not come back, the flush has taken what was pending, and holds no batch    *)
(* any more once the journal has it.                                         *)
THEOREM ShutdownIsLossless == Spec => ShutdownLosesNothing
<1> DEFINE A == Exit => late \/ unstored \/ lost' = lost
<1>1. ShutdownInv /\ [Next]_vars => [A]_vars
  <2> SUFFICES ASSUME ShutdownInv, Exit, ~late, ~unstored PROVE lost' = lost
    OBVIOUS
  <2>1. InMemory = Nothing
    BY NothingHeld DEF Exit
  <2>2. lost' = Plus(lost, Nothing) /\ lost \in Amounts
    BY <2>1 DEF Exit, Gone, ShutdownInv, TypeOK
  <2>3. Plus(lost, Nothing) = lost
    BY <2>2 DEF Plus, Nothing, Amounts
  <2> QED
    BY <2>2, <2>3
<1>2. Spec => []ShutdownInv
  BY ShutdownInit, ShutdownStep, PTL DEF Spec
<1>3. Spec => [][A]_vars
  <2> HIDE DEF A
  <2> QED
    BY <1>1, <1>2, PTL DEF Spec
<1> QED
  BY <1>3 DEF A, ShutdownLosesNothing

-----------------------------------------------------------------------------
(* Every unit in one place.                                                 *)

Held(c) == th[Job].batch[c] + th[Flush].batch[c]

\* Where a client's units are.
Whole(c) ==
  charged[c] + lost[c] + Counted(Users)[c] + pending[c] + Held(c) + Unreplayed[c]

Parts ==
  /\ \A c \in Clients :
       /\ used[c] \in Nat /\ doubled[c] \in Nat /\ charged[c] \in Nat /\ lost[c] \in Nat
       /\ Counted(Users)[c] \in Nat /\ pending[c] \in Nat /\ Held(c) \in Nat
       /\ Unreplayed[c] \in Nat /\ Whole(c) \in Nat
       /\ Balanced(c) <=> used[c] + doubled[c] = Whole(c)

LEMMA UnreplayedType ==
  ASSUME TypeOK, NEW c \in Clients
  PROVE  /\ IsFiniteSet(files) /\ IsFiniteSet(files \ receipts)
         /\ \A b \in Batches : content[b][c] \in Nat
         /\ Unreplayed[c] \in Nat
<1>1. IsFiniteSet(files) /\ IsFiniteSet(files \ receipts)
  BY OwnersAssumption, FS_Subset DEF TypeOK
<1>2. \A b \in Batches : content[b][c] \in Nat
  BY DEF TypeOK, Amounts
<1> DEFINE f == [b \in Batches |-> content[b][c]]
<1>3. \A b \in files \ receipts : f[b] \in Nat
  BY <1>2 DEF TypeOK
<1>4. Unreplayed[c] = SumFunctionOnSet(f, files \ receipts)
  BY DEF Unreplayed
<1> HIDE DEF f
<1> QED
  BY <1>1, <1>2, <1>3, <1>4, SumType

LEMMA PartsType == TypeOK => Parts
<1> SUFFICES ASSUME TypeOK, NEW c \in Clients
             PROVE  /\ used[c] \in Nat /\ doubled[c] \in Nat /\ charged[c] \in Nat /\ lost[c] \in Nat
                    /\ Counted(Users)[c] \in Nat /\ pending[c] \in Nat /\ Held(c) \in Nat
                    /\ Unreplayed[c] \in Nat /\ Whole(c) \in Nat
                    /\ Balanced(c) <=> used[c] + doubled[c] = Whole(c)
  BY DEF Parts
<1>1. /\ used[c] \in Nat /\ doubled[c] \in Nat /\ charged[c] \in Nat /\ lost[c] \in Nat
      /\ pending[c] \in Nat
  BY DEF TypeOK, Amounts
<1>2. Counted(Users)[c] \in Nat /\ Unreplayed[c] \in Nat
  BY CountedType, UnreplayedType DEF Amounts
<1>3. th[Job].batch[c] \in Nat /\ th[Flush].batch[c] \in Nat
  BY StepType, ThreadsDiffer DEF Steps, Amounts
<1>4. InMemory[c] = Counted(Users)[c] + pending[c] + th[Job].batch[c] + th[Flush].batch[c]
  BY DEF InMemory
<1> QED
  BY <1>1, <1>2, <1>3, <1>4 DEF Held, Whole, Balanced

LEMMA PartsAfter == ASSUME TypeOK' PROVE Parts'
<1>1. (TypeOK => Parts)'
  BY PartsType, PTL
<1> QED
  BY <1>1

\* What is left to show of a step: what it puts somewhere it takes elsewhere.
LEMMA Moved ==
  ASSUME TypeOK, TypeOK', NEW c \in Clients, Balanced(c),
         used'[c] + doubled'[c] + Whole(c) = used[c] + doubled[c] + Whole(c)'
  PROVE  Balanced(c)'
  BY PartsType, PartsAfter DEF Parts

\* A thread's batch changes, the other's does not.
LEMMA HeldMoves ==
  ASSUME TypeOK, TypeOK', NEW t \in Threads, \A r \in Threads \ {t} : th'[r] = th[r],
         NEW c \in Clients
  PROVE  Held(c)' + th[t].batch[c] = Held(c) + th'[t].batch[c]
<1>1. th[Job].batch[c] \in Nat /\ th[Flush].batch[c] \in Nat
  BY StepType, ThreadsDiffer DEF Steps, Amounts
<1>2. th'[Job].batch[c] \in Nat /\ th'[Flush].batch[c] \in Nat
  BY ThreadsDiffer DEF TypeOK, Steps, Amounts
<1>3. CASE t = Job
  BY <1>1, <1>2, <1>3, ThreadsDiffer DEF Held
<1>4. CASE t = Flush
  BY <1>1, <1>2, <1>4, ThreadsDiffer DEF Held
<1> QED
  BY <1>3, <1>4 DEF Threads

\* A registration's counter moves.
LEMMA CountedMoves ==
  ASSUME TypeOK, TypeOK', NEW u \in Users, NEW c \in Clients,
         \A v \in Users \ {u} : bytes'[v] = bytes[v]
  PROVE  Counted(Users)'[c] + Of(OwnerOf[u], bytes[u])[c]
           = Counted(Users)[c] + Of(OwnerOf[u], bytes'[u])[c]
<1> DEFINE us == {v \in Users : OwnerOf[v] = c}
<1>1. /\ IsFiniteSet(us) /\ us \subseteq Users
      /\ \A v \in us : bytes[v] \in Nat /\ bytes'[v] \in Nat
  BY OwnedFinite DEF TypeOK
<1>2. Counted(Users)[c] = SumFunctionOnSet(bytes, us)
  BY DEF Counted
<1>3. Counted(Users)'[c] = SumFunctionOnSet(bytes', us)
  BY DEF Counted
<1>4. u \in us <=> OwnerOf[u] = c
  OBVIOUS
<1> HIDE DEF us
<1>5. CASE u \in us
  <2> DEFINE rest == us \ {u}
  <2>1. IsFiniteSet(rest) /\ \A v \in rest : bytes[v] \in Nat /\ bytes'[v] = bytes[v]
    BY <1>1, FS_Subset
  <2>2. SumFunctionOnSet(bytes, us) = bytes[u] + SumFunctionOnSet(bytes, rest)
    BY <1>1, <1>5, SumTakesOut
  <2>3. SumFunctionOnSet(bytes', us) = bytes'[u] + SumFunctionOnSet(bytes', rest)
    BY <1>1, <1>5, SumTakesOut
  <2> HIDE DEF rest
  <2>4. SumFunctionOnSet(bytes, rest) = SumFunctionOnSet(bytes', rest)
    BY <2>1, SumSame
  <2>5. SumFunctionOnSet(bytes, rest) \in Nat
    BY <2>1, SumType
  <2>6. bytes[u] \in Nat /\ bytes'[u] \in Nat
    BY DEF TypeOK
  <2>7. Of(OwnerOf[u], bytes[u])[c] = bytes[u] /\ Of(OwnerOf[u], bytes'[u])[c] = bytes'[u]
    BY <1>4, <1>5 DEF Of
  <2> QED
    BY <1>2, <1>3, <2>2, <2>3, <2>4, <2>5, <2>6, <2>7
<1>6. CASE u \notin us
  <2>1. \A v \in us : bytes[v] \in Nat /\ bytes'[v] = bytes[v]
    BY <1>1, <1>6
  <2>2. SumFunctionOnSet(bytes, us) = SumFunctionOnSet(bytes', us)
    BY <1>1, <2>1, SumSame
  <2>3. SumFunctionOnSet(bytes, us) \in Nat
    BY <1>1, SumType
  <2>4. Of(OwnerOf[u], bytes[u])[c] = 0 /\ Of(OwnerOf[u], bytes'[u])[c] = 0
    BY <1>4, <1>6 DEF Of
  <2> QED
    BY <1>2, <1>3, <2>2, <2>3, <2>4
<1> QED
  BY <1>5, <1>6

LEMMA CountedStays == ASSUME bytes' = bytes PROVE Counted(Users)' = Counted(Users)
  BY DEF Counted

LEMMA CountedGone ==
  ASSUME bytes' = [u \in Users |-> 0], NEW c \in Clients
  PROVE  Counted(Users)'[c] = 0
<1> DEFINE us == {u \in Users : OwnerOf[u] = c}
<1>1. IsFiniteSet(us) /\ \A u \in us : bytes'[u] = 0
  BY OwnedFinite
<1>2. Counted(Users)'[c] = SumFunctionOnSet(bytes', us)
  BY DEF Counted
<1> HIDE DEF us
<1> QED
  BY <1>1, <1>2, SumNothing

LEMMA UnreplayedStays ==
  ASSUME content' = content, files' \ receipts' = files \ receipts
  PROVE  Unreplayed' = Unreplayed
  BY DEF Unreplayed

\* A new journal file.
LEMMA UnreplayedStored ==
  ASSUME TypeOK, TypeOK', NEW b \in Batches, b \notin files \cup receipts,
         files' = files \cup {b}, receipts' = receipts,
         NEW d \in Amounts, content' = [content EXCEPT ![b] = d], NEW c \in Clients
  PROVE  Unreplayed'[c] = Unreplayed[c] + d[c]
<1> DEFINE f == [a \in Batches |-> content[a][c]]
           g == [a \in Batches |-> content'[a][c]]
           fs == files \ receipts
           gs == files' \ receipts'
<1>1. gs = fs \cup {b} /\ b \notin fs /\ gs \ {b} = fs
  OBVIOUS
<1>2. IsFiniteSet(fs) /\ \A a \in Batches : f[a] \in Nat
  BY UnreplayedType
<1>3. IsFiniteSet(gs)
  BY <1>1, <1>2, FS_AddElement
<1>4. \A a \in Batches : g[a] = IF a = b THEN d[c] ELSE f[a]
  BY DEF TypeOK
<1>5. Unreplayed[c] = SumFunctionOnSet(f, fs) /\ fs \subseteq Batches
  BY DEF Unreplayed, TypeOK
<1>6. Unreplayed'[c] = SumFunctionOnSet(g, gs)
  BY DEF Unreplayed
<1>7. d[c] \in Nat
  BY DEF Amounts
<1> HIDE DEF f, g, fs, gs
<1>8. \A a \in gs : g[a] \in Nat
  BY <1>1, <1>2, <1>4, <1>5, <1>7
<1>9. SumFunctionOnSet(g, gs) = g[b] + SumFunctionOnSet(g, fs)
  <2>1. SumFunctionOnSet(g, gs) = g[b] + SumFunctionOnSet(g, gs \ {b})
    BY <1>1, <1>3, <1>8, SumTakesOut
  <2> QED
    BY <1>1, <2>1
<1>10. SumFunctionOnSet(f, fs) = SumFunctionOnSet(g, fs)
  <2>1. \A a \in fs : f[a] \in Nat /\ g[a] = f[a]
    BY <1>1, <1>2, <1>4, <1>5
  <2> QED
    BY <1>2, <2>1, SumSame
<1>11. SumFunctionOnSet(f, fs) \in Nat
  <2>1. \A a \in fs : f[a] \in Nat
    BY <1>2, <1>5
  <2> QED
    BY <1>2, <2>1, SumType
<1> QED
  BY <1>4, <1>5, <1>6, <1>7, <1>9, <1>10, <1>11

\* A receipt: what it stands for leaves the journal, if the file is still there.
LEMMA UnreplayedBilled ==
  ASSUME TypeOK, NEW b \in files, b \notin receipts,
         files' = files, content' = content, receipts' = receipts \cup {b}, NEW c \in Clients
  PROVE  Unreplayed[c] = Unreplayed'[c] + content[b][c]
<1> DEFINE f == [a \in Batches |-> content[a][c]]
           fs == files \ receipts
<1>1. b \in fs /\ files' \ receipts' = fs \ {b} /\ fs \subseteq Batches
  BY DEF TypeOK
<1>2. IsFiniteSet(fs) /\ \A a \in Batches : f[a] \in Nat
  BY UnreplayedType
<1>3. Unreplayed[c] = SumFunctionOnSet(f, fs)
  BY DEF Unreplayed
<1>4. Unreplayed'[c] = SumFunctionOnSet(f, fs \ {b})
  BY <1>1 DEF Unreplayed
<1>5. f[b] = content[b][c]
  BY <1>1
<1> HIDE DEF f, fs
<1>6. \A a \in fs : f[a] \in Nat
  BY <1>1, <1>2
<1>7. SumFunctionOnSet(f, fs) = f[b] + SumFunctionOnSet(f, fs \ {b})
  BY <1>1, <1>2, <1>6, SumTakesOut
<1>8. SumFunctionOnSet(f, fs \ {b}) \in Nat
  BY <1>2, <1>6, FS_Subset, SumType
<1>9. f[b] \in Nat
  BY <1>1, <1>6
<1> QED
  BY <1>3, <1>4, <1>5, <1>7, <1>8, <1>9

\* What is charged is taken from the batch, and what is not is lost.
LEMMA ChargeMoves ==
  ASSUME TypeOK, NEW batch \in Amounts, Charge(batch), NEW c \in Clients
  PROVE  charged'[c] + lost'[c] = charged[c] + lost[c] + batch[c]
<1>1. charged[c] \in Nat /\ lost[c] \in Nat /\ batch[c] \in Nat
  BY DEF TypeOK, Amounts
<1>2. /\ charged'[c] = charged[c] + IF c \in rows THEN batch[c] ELSE 0
      /\ lost'[c] = lost[c] + IF c \in rows THEN 0 ELSE batch[c]
  BY DEF Charge
<1> QED
  BY <1>1, <1>2

LEMMA Sums ==
  /\ \A a, b \in Amounts, c \in Clients : Plus(a, b)[c] = a[c] + b[c]
  /\ \A c \in Clients : Nothing[c] = 0
  BY DEF Plus, Nothing

\* No thread and no file moves.
LEMMA Beside ==
  ASSUME UNCHANGED <<th, files, content, receipts>>
  PROVE  Unreplayed' = Unreplayed /\ \A c : Held(c)' = Held(c)
  BY UnreplayedStays DEF Held

LEMMA BalancedUse ==
  ASSUME TypeOK, TypeOK', NEW u \in Users, Use(u), NEW c \in Clients, Balanced(c)
  PROVE  Balanced(c)'
<1>1. OwnerOf[u] \in Clients /\ bytes[u] \in Nat
  BY OwnersAssumption DEF TypeOK
<1>2. bytes'[u] = bytes[u] + 1 /\ \A v \in Users \ {u} : bytes'[v] = bytes[v]
  BY DEF Use, TypeOK
<1>3. Counted(Users)'[c] + Of(OwnerOf[u], bytes[u])[c]
        = Counted(Users)[c] + Of(OwnerOf[u], bytes'[u])[c]
  BY <1>2, CountedMoves
<1>4. used'[c] = used[c] + Of(OwnerOf[u], 1)[c]
  <2>1. used' = [used EXCEPT ![OwnerOf[u]] = used[OwnerOf[u]] + 1]
    BY DEF Use
  <2> QED
    BY <1>1, <2>1, PartsType DEF TypeOK, Amounts, Of, Parts
<1>5. Counted(Users)'[c] = Counted(Users)[c] + Of(OwnerOf[u], 1)[c]
  BY <1>1, <1>2, <1>3, PartsType, PartsAfter DEF Of, Parts
<1>6. Of(OwnerOf[u], 1)[c] \in Nat
  BY DEF Of
<1>7. UNCHANGED <<charged, lost, doubled, pending>> /\ UNCHANGED <<th, files, content, receipts>>
  BY DEF Use, rowVars, journalVars
<1>8. Whole(c)' = Whole(c) + Of(OwnerOf[u], 1)[c]
  BY <1>5, <1>6, <1>7, Beside, PartsType, PartsAfter DEF Whole, Parts
<1> QED
  BY <1>4, <1>6, <1>7, <1>8, Moved, PartsType, PartsAfter DEF Parts

\* A server is stopped: its counters are put back.
LEMMA BalancedDrain ==
  ASSUME TypeOK, TypeOK', pending' = Plus(pending, Drained),
         bytes' = [u \in Users |-> 0], UNCHANGED <<charged, lost, used, doubled>>,
         NEW c \in Clients, Balanced(c), Held(c)' = Held(c), Unreplayed' = Unreplayed
  PROVE  Balanced(c)'
<1>1. Counted(Users)'[c] = 0
  BY CountedGone
<1>2. pending'[c] = pending[c] + Counted(Users)[c]
  BY CountedType, Sums DEF Drained, TypeOK
<1>3. Whole(c)' = Whole(c)
  BY <1>1, <1>2, PartsType DEF Whole, Parts
<1> QED
  BY <1>3, Moved, PartsType DEF Parts

LEMMA BalancedConverge ==
  ASSUME TypeOK, TypeOK', NEW us \in SUBSET Users, NEW restart \in BOOLEAN, Converge(us, restart),
         UNCHANGED <<charged, lost, used, doubled>>,
         NEW c \in Clients, Balanced(c), Held(c)' = Held(c), Unreplayed' = Unreplayed
  PROVE  Balanced(c)'
<1>1. CASE server /\ ~restart /\ us # {}
  <2>1. bytes' = bytes /\ pending' = pending
    BY <1>1 DEF Converge
  <2>2. Whole(c)' = Whole(c)
    BY <2>1, CountedStays DEF Whole
  <2> QED
    BY <2>2, Moved, PartsType DEF Parts
<1>2. CASE ~(server /\ ~restart /\ us # {})
  <2>1. pending' = Plus(pending, Drained) /\ bytes' = [u \in Users |-> 0]
    BY <1>2 DEF Converge
  <2> QED
    BY <2>1, BalancedDrain
<1> QED
  BY <1>1, <1>2

LEMMA BatchType ==
  ASSUME TypeOK, NEW t \in Threads
  PROVE  /\ th[t].batch \in Amounts
         /\ \A c \in Clients : th[t].batch[c] \in Nat
  BY StepType DEF Steps, Amounts

LEMMA BalancedCollect ==
  ASSUME TypeOK, TypeOK', Journal, NEW t \in Threads, Collect(t), NEW c \in Clients, Balanced(c)
  PROVE  Balanced(c)'
<1>1. /\ UNCHANGED <<charged, used, doubled>>
      /\ Unreplayed' = Unreplayed
      /\ \A r \in Threads \ {t} : th'[r] = th[r]
  <2>1. UNCHANGED <<files, content, receipts>>
    BY DEF Collect, BeginCollect, EndCollect, Take, Check, journalVars
  <2>2. UNCHANGED <<charged, used, doubled>>
    BY DEF Collect, BeginCollect, EndCollect, Take, Check, rowVars, histVars
  <2> QED
    BY <2>1, <2>2, UnreplayedStays, OtherThread
<1>2. Held(c)' + th[t].batch[c] = Held(c) + th'[t].batch[c]
  BY <1>1, HeldMoves
<1>3. th[t].batch[c] \in Nat
  BY BatchType
<1>4. CASE BeginCollect(t)
  <2> DEFINE s == [th[t] EXCEPT !.pc = "take", !.batch = pending,
                                !.todo = IF server THEN {u \in Users : reg[u] # "none"} ELSE {}]
  <2>1. th' = [th EXCEPT ![t] = s] /\ th[t].pc = "collect"
        /\ pending' = Nothing /\ bytes' = bytes /\ lost' = lost
    BY <1>4 DEF BeginCollect, serverVars, histVars
  <2>2. s.batch = pending
    BY StepType DEF Steps
  <2> HIDE DEF s
  <2>3. th'[t].batch = pending /\ th[t].batch = Nothing
    BY <2>1, <2>2, HoldsNothing DEF TypeOK
  <2>4. Held(c)' = Held(c) + pending[c] /\ pending'[c] = 0
    BY <1>2, <2>1, <2>3, Sums, PartsType, PartsAfter DEF Parts
  <2>5. Whole(c)' = Whole(c)
    BY <1>1, <2>1, <2>4, CountedStays, PartsType DEF Whole, Parts
  <2> QED
    BY <1>1, <2>5, Moved, PartsType DEF Parts
<1>5. CASE EndCollect(t)
  <2> DEFINE s == IF th[t].batch # Nothing
                    THEN [th[t] EXCEPT !.pc = IF t = Job THEN "add" ELSE "store"]
                  ELSE IF t = Job THEN Idle
                  ELSE [th[t] EXCEPT !.pc = "commit", !.list = files]
  <2>1. th' = [th EXCEPT ![t] = s] /\ pending' = pending /\ bytes' = bytes /\ lost' = lost
    BY <1>5 DEF EndCollect, serverVars, histVars
  <2>2. s.batch = th[t].batch
    BY StepType DEF Steps, Idle
  <2> HIDE DEF s
  <2>3. th'[t].batch = th[t].batch
    BY <2>1, <2>2 DEF TypeOK
  <2>4. Held(c)' = Held(c)
    <3>1. Held(c) \in Nat /\ Held(c)' \in Nat
      BY PartsType, PartsAfter DEF Parts
    <3> QED
      BY <1>2, <1>3, <2>3, <3>1
  <2>5. Whole(c)' = Whole(c)
    BY <1>1, <2>1, <2>4, CountedStays DEF Whole
  <2> QED
    BY <1>1, <2>5, Moved, PartsType DEF Parts
<1>6. ASSUME NEW u \in Users, Take(t, u) PROVE Balanced(c)'
  <2> DEFINE n == Of(OwnerOf[u], bytes[u])
             s == [th[t] EXCEPT
                     !.batch = Plus(th[t].batch, n),
                     !.pc = IF reg[u] = "retired" THEN "check" ELSE "take",
                     !.cur = IF reg[u] = "retired" THEN {u} ELSE {},
                     !.todo = th[t].todo \ {u}]
  <2>1. th' = [th EXCEPT ![t] = s] /\ bytes' = [bytes EXCEPT ![u] = 0]
        /\ pending' = pending /\ lost' = lost
    BY <1>6 DEF Take, histVars
  <2>2. s.batch = Plus(th[t].batch, n)
    BY StepType DEF Steps
  <2> HIDE DEF s
  <2>3. n \in Amounts /\ n[c] \in Nat
    BY OwnersAssumption, AmountTypes DEF TypeOK, Amounts
  <2>4. Of(OwnerOf[u], bytes'[u])[c] = 0
    BY <2>1 DEF Of, TypeOK
  <2>5. Counted(Users)'[c] + n[c] = Counted(Users)[c]
    <3>1. \A v \in Users \ {u} : bytes'[v] = bytes[v]
      BY <2>1 DEF TypeOK
    <3> QED
      BY <2>4, <3>1, CountedMoves, PartsType DEF Parts
  <2> HIDE DEF n
  <2>6. th'[t].batch[c] = th[t].batch[c] + n[c]
    <3>1. th'[t].batch = Plus(th[t].batch, n)
      BY <2>1, <2>2 DEF TypeOK
    <3> QED
      BY <2>3, <3>1, BatchType, Sums
  <2>7. Held(c)' = Held(c) + n[c]
    BY <1>2, <1>3, <2>3, <2>6, PartsType, PartsAfter DEF Parts
  <2>8. Whole(c)' = Whole(c)
    BY <1>1, <2>1, <2>3, <2>5, <2>7, PartsType, PartsAfter DEF Whole, Parts
  <2> QED
    BY <1>1, <2>8, Moved, PartsType DEF Parts
<1>7. ASSUME NEW u \in Users, Check(t, u) PROVE Balanced(c)'
  <2> DEFINE n == Of(OwnerOf[u], bytes[u])
             s == [th[t] EXCEPT !.pc = "take", !.cur = {}]
  <2>1. th' = [th EXCEPT ![t] = s] /\ pending' = pending
    BY <1>7 DEF Check
  <2>2. s.batch = th[t].batch
    BY StepType DEF Steps
  <2> HIDE DEF s
  <2>3. Held(c)' = Held(c)
    <3>1. th'[t].batch = th[t].batch
      BY <2>1, <2>2 DEF TypeOK
    <3> QED
      BY <1>2, <1>3, <3>1, PartsType, PartsAfter DEF Parts
  <2>4. n \in Amounts /\ n[c] \in Nat
    BY OwnersAssumption, AmountTypes DEF TypeOK, Amounts
  <2>5. lost'[c] + Counted(Users)'[c] = lost[c] + Counted(Users)[c]
    <3>1. CASE sessions[u] = 0
      <4>1. bytes' = [bytes EXCEPT ![u] = 0] /\ lost' = Plus(lost, n)
        BY <1>7, <3>1 DEF Check
      <4>2. Of(OwnerOf[u], bytes'[u])[c] = 0
        BY <4>1 DEF Of, TypeOK
      <4>3. Counted(Users)'[c] + n[c] = Counted(Users)[c]
        <5>1. \A v \in Users \ {u} : bytes'[v] = bytes[v]
          BY <4>1 DEF TypeOK
        <5> QED
          BY <4>2, <5>1, CountedMoves, PartsType DEF Parts
      <4> HIDE DEF n
      <4>4. lost'[c] = lost[c] + n[c]
        BY <2>4, <4>1, Sums DEF TypeOK
      <4> QED
        BY <2>4, <4>3, <4>4, PartsType, PartsAfter DEF Parts
    <3>2. CASE sessions[u] # 0
      BY <1>7, <3>2, CountedStays DEF Check
    <3> QED
      BY <3>1, <3>2
  <2>6. Whole(c)' = Whole(c)
    BY <1>1, <2>1, <2>3, <2>5, PartsType, PartsAfter DEF Whole, Parts
  <2> QED
    BY <1>1, <2>6, Moved, PartsType DEF Parts
<1> QED
  BY <1>4, <1>5, <1>6, <1>7 DEF Collect

LEMMA BalancedRun ==
  ASSUME TypeOK, TypeOK', Journal, StartRun \/ Reconcile \/ ReconcileFails \/ Add \/ AddFails,
         NEW c \in Clients, Balanced(c)
  PROVE  Balanced(c)'
<1> DEFINE batch == th[Job].batch
<1>0. batch \in Amounts /\ batch[c] \in Nat
  BY BatchType, ThreadsDiffer
<1>1. Unreplayed' = Unreplayed
  BY UnreplayedStays
  DEF StartRun, Reconcile, ReconcileFails, Add, AddFails, journalVars
<1>2. \A r \in Threads \ {Job} : th'[r] = th[r]
  BY DEF StartRun, Reconcile, ReconcileFails, Add, AddFails, EndRun, TypeOK
<1>3. Held(c)' + batch[c] = Held(c) + th'[Job].batch[c]
  BY <1>2, HeldMoves, ThreadsDiffer
<1>4. CASE StartRun \/ Reconcile
  <2>1. th'[Job].batch = batch
    BY <1>4, StepType, ThreadsDiffer DEF StartRun, Reconcile, TypeOK, Steps
  <2>2. Held(c)' = Held(c)
    BY <1>0, <1>3, <2>1, PartsType, PartsAfter DEF Parts
  <2>3. UNCHANGED <<charged, lost, used, doubled>>
    BY <1>4 DEF StartRun, Reconcile, rowVars, histVars
  <2>4. CASE UNCHANGED <<bytes, pending>>
    <3>1. Whole(c)' = Whole(c)
      BY <1>1, <2>2, <2>3, <2>4, CountedStays DEF Whole
    <3> QED
      BY <2>3, <3>1, Moved, PartsType DEF Parts
  <2>5. ASSUME NEW us \in SUBSET Users, NEW restart \in BOOLEAN, Converge(us, restart)
        PROVE  Balanced(c)'
    BY <1>1, <2>2, <2>3, <2>5, BalancedConverge
  <2> QED
    BY <1>4, <2>4, <2>5 DEF StartRun, Reconcile, serverVars
<1>5. CASE ReconcileFails \/ Add \/ AddFails
  <2>1. th'[Job].batch[c] = 0
    <3>1. th'[Job] = Idle
      BY <1>5, ThreadsDiffer DEF ReconcileFails, Add, AddFails, EndRun, TypeOK
    <3> QED
      BY <3>1, Sums DEF Idle
  <2>2. bytes' = bytes /\ used' = used
    BY <1>5 DEF ReconcileFails, Add, AddFails, serverVars, histVars
  <2>6. Held(c)' + batch[c] = Held(c)
    BY <1>0, <1>3, <2>1, PartsType, PartsAfter DEF Parts
  <2>3. CASE ReconcileFails
    <3>1. batch[c] = 0 /\ UNCHANGED <<pending, charged, lost, doubled>>
      BY <2>3, HoldsNothing, Sums, ThreadsDiffer DEF ReconcileFails, rowVars, histVars
    <3> HIDE DEF batch
    <3>2. Held(c)' = Held(c)
      BY <2>6, <3>1, PartsType, PartsAfter DEF Parts
    <3>3. Whole(c)' = Whole(c)
      BY <1>1, <2>2, <3>1, <3>2, CountedStays DEF Whole
    <3> QED
      BY <2>2, <3>1, <3>3, Moved, PartsType DEF Parts
  <2>4. CASE Add
    <3>1. UNCHANGED <<pending, doubled>> /\ Charge(batch)
      BY <2>4 DEF Add
    <3>2. charged'[c] + lost'[c] = charged[c] + lost[c] + batch[c]
      BY <1>0, <3>1, ChargeMoves
    <3> HIDE DEF batch
    <3>3. Whole(c)' = Whole(c)
      BY <1>0, <1>1, <2>2, <2>6, <3>1, <3>2, CountedStays, PartsType, PartsAfter DEF Whole, Parts
    <3> QED
      BY <2>2, <3>1, <3>3, Moved, PartsType DEF Parts
  <2>5. CASE AddFails
    <3>1. pending'[c] = pending[c] + batch[c]
      BY <1>0, <2>5, Sums DEF AddFails, Requeued, TypeOK
    <3>2. CASE UNCHANGED <<charged, lost, doubled>>
      <4> HIDE DEF batch
      <4>1. Whole(c)' = Whole(c)
        BY <1>0, <1>1, <2>2, <2>6, <3>1, <3>2, CountedStays, PartsType, PartsAfter DEF Whole, Parts
      <4> QED
        BY <2>2, <3>2, <4>1, Moved, PartsType DEF Parts
    <3>3. CASE Charge(batch) /\ doubled' = Plus(doubled, batch)
      <4>1. charged'[c] + lost'[c] = charged[c] + lost[c] + batch[c]
        BY <1>0, <3>3, ChargeMoves
      <4>2. doubled'[c] = doubled[c] + batch[c]
        BY <1>0, <3>3, Sums DEF TypeOK
      <4> HIDE DEF batch
      <4>3. Whole(c)' = Whole(c) + batch[c]
        BY <1>0, <1>1, <2>2, <2>6, <3>1, <4>1, CountedStays, PartsType, PartsAfter DEF Whole, Parts
      <4> QED
        BY <1>0, <2>2, <4>2, <4>3, Moved, PartsType DEF Parts
    <3> QED
      BY <2>5, <3>2, <3>3 DEF AddFails
  <2> QED
    BY <1>5, <2>3, <2>4, <2>5
<1> QED
  BY <1>4, <1>5

LEMMA BalancedStore ==
  ASSUME TypeOK, TypeOK', Journal, StoreFails \/ \E b \in Batches : Store(b) \/ StoreUnsure(b),
         NEW c \in Clients, Balanced(c)
  PROVE  Balanced(c)'
<1> DEFINE batch == th[Flush].batch
<1>0. batch \in Amounts /\ batch[c] \in Nat
  BY BatchType, ThreadsDiffer
<1>1. /\ UNCHANGED <<bytes, charged, lost, used, doubled, receipts>>
      /\ \A r \in Threads \ {Flush} : th'[r] = th[r]
  BY DEF StoreFails, Store, StoreUnsure, serverVars, journalVars, rowVars, histVars, TypeOK
<1>2. th'[Flush].batch = Nothing
  <2>1. CASE StoreFails \/ \E b \in Batches : StoreUnsure(b)
    <3>1. th'[Flush] = [Idle EXCEPT !.pc = "done"]
      BY <2>1, ThreadsDiffer DEF StoreFails, StoreUnsure, TypeOK
    <3> QED
      BY <3>1 DEF Idle
  <2>2. ASSUME NEW b \in Batches, Store(b) PROVE th'[Flush].batch = Nothing
    <3>1. th'[Flush] = [th[Flush] EXCEPT !.pc = "commit", !.list = files', !.batch = Nothing]
      BY <2>2, ThreadsDiffer DEF Store, TypeOK
    <3> QED
      BY <3>1, StepType, ThreadsDiffer DEF Steps
  <2> QED
    BY <2>1, <2>2
<1>3. Held(c)' + batch[c] = Held(c)
  <2>1. Held(c)' + batch[c] = Held(c) + th'[Flush].batch[c]
    BY <1>1, HeldMoves, ThreadsDiffer
  <2> QED
    BY <1>2, <2>1, Sums, PartsType DEF Parts
<1>4. CASE StoreFails
  <2>1. pending'[c] = pending[c] + batch[c]
    BY <1>0, <1>4, Sums DEF StoreFails, Requeued, TypeOK
  <2>2. Unreplayed' = Unreplayed
    BY <1>4, UnreplayedStays DEF StoreFails, journalVars
  <2> HIDE DEF batch
  <2>3. Whole(c)' = Whole(c)
    BY <1>0, <1>1, <1>3, <2>1, <2>2, CountedStays, PartsType, PartsAfter DEF Whole, Parts
  <2> QED
    BY <1>1, <2>3, Moved, PartsType DEF Parts
<1>5. ASSUME NEW b \in Batches, Store(b) \/ StoreUnsure(b) PROVE Balanced(c)'
  <2>1. /\ pending' = pending /\ b \notin files \cup receipts
        /\ files' = files \cup {b} /\ content' = [content EXCEPT ![b] = batch]
    BY <1>5 DEF Store, StoreUnsure
  <2>2. Unreplayed'[c] = Unreplayed[c] + batch[c]
    BY <1>0, <1>1, <2>1, UnreplayedStored
  <2> HIDE DEF batch
  <2>3. Whole(c)' = Whole(c)
    BY <1>0, <1>1, <1>3, <2>1, <2>2, CountedStays, PartsType, PartsAfter DEF Whole, Parts
  <2> QED
    BY <1>1, <2>3, Moved, PartsType DEF Parts
<1> QED
  BY <1>4, <1>5

\* A file is billed once: its receipt is new, or it has been billed already.
LEMMA BillMoves ==
  ASSUME TypeOK, NEW b \in files, Bill(b), files' = files, content' = content, NEW c \in Clients
  PROVE  charged'[c] + lost'[c] + Unreplayed'[c] = charged[c] + lost[c] + Unreplayed[c]
<1>1. content[b] \in Amounts /\ content[b][c] \in Nat
  BY DEF TypeOK, Amounts
<1>2. CASE b \in receipts
  <2>1. UNCHANGED <<charged, lost>> /\ files' \ receipts' = files \ receipts
    BY <1>2 DEF Bill, Unbilled
  <2> QED
    BY <2>1, UnreplayedStays
<1>3. CASE b \notin receipts
  <2>1. Charge(content[b]) /\ receipts' = receipts \cup {b}
    BY <1>3 DEF Bill, Unbilled
  <2>2. Unreplayed[c] = Unreplayed'[c] + content[b][c]
    BY <1>3, <2>1, UnreplayedBilled
  <2>3. charged'[c] + lost'[c] = charged[c] + lost[c] + content[b][c]
    BY <1>1, <2>1, ChargeMoves
  <2>4. Unreplayed'[c] \in Nat
    <3> DEFINE f == [a \in Batches |-> content[a][c]]
               gs == files' \ receipts'
    <3>1. Unreplayed'[c] = SumFunctionOnSet(f, gs)
      BY DEF Unreplayed
    <3>2. IsFiniteSet(gs) /\ \A a \in gs : f[a] \in Nat
      BY UnreplayedType, FS_Subset DEF TypeOK
    <3> HIDE DEF f, gs
    <3> QED
      BY <3>1, <3>2, SumType
  <2> QED
    BY <1>1, <2>2, <2>3, <2>4, PartsType DEF Parts
<1> QED
  BY <1>2, <1>3

LEMMA BalancedReplay ==
  ASSUME TypeOK, TypeOK', Journal, NEW t \in Threads,
         \/ Replay(t) \/ RemoveFails(t) \/ \E b \in Batches : CommitFails(t, b),
         NEW c \in Clients, Balanced(c)
  PROVE  Balanced(c)'
<1>1. UNCHANGED <<bytes, pending, used, doubled>>
  BY DEF Replay, Enter, Remove, EndReplay, Commit, RemoveFails, CommitFails, serverVars, histVars
<1>2. th[t].batch = Nothing
  <2>1. th[t].pc \in {"wait", "commit", "remove"}
    BY DEF Replay, Enter, Remove, EndReplay, Commit, RemoveFails, CommitFails
  <2> QED
    BY <2>1, HoldsNothing
<1>3. th'[t].batch = Nothing
  <2>1. Journal'
    <3>1. CASE Replay(t)
      BY <3>1, JournalReplay DEF Replay
    <3> QED
      BY <3>1, JournalReplay
  <2>2. Kept(t)'
    BY <2>1 DEF Journal
  <2>3. th'[t].pc \notin {"take", "check", "add", "store"}
    <3>1. CASE Enter(t) \/ Remove(t) \/ EndReplay(t)
      <4>1. CASE Enter(t)
        <5> DEFINE s == IF t = Flush THEN [th[t] EXCEPT !.pc = "collect"]
                        ELSE [th[t] EXCEPT !.pc = "commit", !.list = files]
        <5>1. th' = [th EXCEPT ![t] = s]
          BY <4>1 DEF Enter
        <5>2. s.pc \in {"collect", "commit"}
          BY StepType DEF Steps
        <5> HIDE DEF s
        <5> QED
          BY <5>1, <5>2 DEF TypeOK
      <4>2. CASE Remove(t)
        BY <4>2, StepType DEF Remove, TypeOK, Steps
      <4>3. CASE EndReplay(t)
        BY <4>3 DEF EndReplay, Idle, TypeOK
      <4> QED
        BY <3>1, <4>1, <4>2, <4>3
    <3>2. CASE \E b \in Batches : Commit(t, b)
      <4>1. PICK b \in Batches : Commit(t, b)
        BY <3>2
      <4> DEFINE s == [th[t] EXCEPT !.pc = "remove", !.list = th[t].list \ {b}, !.at = {b}]
      <4>2. th' = [th EXCEPT ![t] = s]
        BY <4>1 DEF Commit
      <4>3. s.pc = "remove"
        BY StepType DEF Steps
      <4> HIDE DEF s
      <4> QED
        BY <4>2, <4>3 DEF TypeOK
    <3>3. CASE RemoveFails(t) \/ \E b \in Batches : CommitFails(t, b)
      <4>1. ReplayFailed(t)
        BY <3>3 DEF RemoveFails, CommitFails
      <4> QED
        BY <4>1 DEF ReplayFailed, Idle, TypeOK
    <3> QED
      BY <3>1, <3>2, <3>3 DEF Replay
  <2> QED
    BY <2>2, <2>3 DEF Kept, StepKept
<1>4. Held(c)' = Held(c)
  <2>1. Held(c)' + th[t].batch[c] = Held(c) + th'[t].batch[c]
    BY OtherThread, HeldMoves
  <2>2. Held(c) \in Nat /\ Held(c)' \in Nat
    BY PartsType, PartsAfter DEF Parts
  <2> QED
    BY <1>2, <1>3, <2>1, <2>2, Sums
<1>5. charged'[c] + lost'[c] + Unreplayed'[c] = charged[c] + lost[c] + Unreplayed[c]
  <2>1. CASE Enter(t) \/ EndReplay(t) \/ RemoveFails(t)
    BY <2>1, UnreplayedStays DEF Enter, EndReplay, RemoveFails, journalVars, rowVars, histVars
  <2>2. CASE Remove(t)
    <3>1. th[t].at \subseteq receipts
      BY HoldsNothing DEF StepKept
    <3>2. files' \ receipts' = files \ receipts /\ content' = content
      BY <2>2, <3>1 DEF Remove
    <3> QED
      BY <2>2, <3>2, UnreplayedStays DEF Remove, rowVars, histVars
  <2>3. ASSUME NEW b \in Batches, Commit(t, b) \/ CommitFails(t, b)
        PROVE  charged'[c] + lost'[c] + Unreplayed'[c] = charged[c] + lost[c] + Unreplayed[c]
    <3>1. b \in files
      BY <2>3, HoldsNothing DEF Commit, CommitFails, StepKept
    <3>2. files' = files /\ content' = content
      BY <2>3 DEF Commit, CommitFails
    <3>3. CASE Bill(b)
      BY <3>1, <3>2, <3>3, BillMoves
    <3>4. CASE UNCHANGED <<receipts, charged, lost>>
      BY <3>2, <3>4, UnreplayedStays
    <3> QED
      BY <2>3, <3>3, <3>4 DEF Commit, CommitFails
  <2> QED
    BY <2>1, <2>2, <2>3 DEF Replay
<1>6. Whole(c)' = Whole(c)
  BY <1>1, <1>4, <1>5, CountedStays, PartsType, PartsAfter DEF Whole, Parts
<1> QED
  BY <1>1, <1>6, Moved, PartsType DEF Parts

\* What the panel held when it went is lost.
LEMMA BalancedGone ==
  ASSUME TypeOK, TypeOK', Gone, NEW c \in Clients, Balanced(c)
  PROVE  Balanced(c)'
<1>1. Counted(Users)'[c] = 0
  BY CountedGone DEF Gone
<1>2. pending'[c] = 0 /\ UNCHANGED <<charged, used, doubled>> /\ Unreplayed' = Unreplayed
  BY UnreplayedStays, Sums DEF Gone, journalVars, rowVars
<1>3. Held(c)' = 0
  <2>1. th'[Job] = Idle /\ th'[Flush] = Idle
    BY ThreadsDiffer DEF Gone
  <2> QED
    BY <2>1, Sums DEF Held, Idle
<1>4. lost'[c] = lost[c] + Counted(Users)[c] + pending[c] + Held(c)
  <2>1. lost'[c] = lost[c] + InMemory[c]
    BY InMemoryType, Sums DEF Gone, TypeOK
  <2>2. InMemory[c] = Counted(Users)[c] + pending[c] + th[Job].batch[c] + th[Flush].batch[c]
    BY DEF InMemory
  <2>3. th[Job].batch[c] \in Nat /\ th[Flush].batch[c] \in Nat
    BY BatchType, ThreadsDiffer
  <2> QED
    BY <2>1, <2>2, <2>3, PartsType DEF Held, Parts
<1>5. Whole(c)' = Whole(c)
  BY <1>1, <1>2, <1>3, <1>4, PartsType DEF Whole, Parts
<1> QED
  BY <1>2, <1>5, Moved, PartsType DEF Parts

LEMMA BalancedStep ==
  ASSUME TypeOK, Journal, [Next]_vars, NEW c \in Clients, Balanced(c)
  PROVE  Balanced(c)'
<1>0. TypeOK'
  BY TypeStep
<1>1. CASE \/ Run \/ ReconcileFails \/ AddFails \/ StoreFails
           \/ \E b \in Batches : Store(b) \/ StoreUnsure(b)
           \/ \E t \in Threads : Collect(t) \/ Replay(t) \/ RemoveFails(t)
                                 \/ \E b \in Batches : CommitFails(t, b)
  BY <1>0, <1>1, ThreadsDiffer, BalancedRun, BalancedCollect, BalancedReplay, BalancedStore DEF Run
<1>2. ASSUME NEW u \in Users, Use(u) PROVE Balanced(c)'
  BY <1>0, <1>2, BalancedUse
<1>3. ASSUME NEW us \in SUBSET Users, NEW restart \in BOOLEAN, Ensure(us, restart)
      PROVE  Balanced(c)'
  <2>1. /\ UNCHANGED <<charged, lost, used, doubled>> /\ UNCHANGED <<th, files, content, receipts>>
        /\ Converge(us, restart)
    BY <1>3 DEF Ensure, journalVars, rowVars, histVars
  <2> QED
    BY <1>0, <2>1, Beside, BalancedConverge
<1>4. CASE StopAll
  <2> DEFINE s == [th[Flush] EXCEPT !.pc = "wait"]
  <2>1. th' = [th EXCEPT ![Flush] = s]
    BY <1>4 DEF StopAll
  <2>2. s.batch = th[Flush].batch
    BY StepType, ThreadsDiffer DEF Steps
  <2> HIDE DEF s
  <2>3. Held(c)' = Held(c)
    BY <2>1, <2>2, ThreadsDiffer DEF Held, TypeOK
  <2>4. /\ UNCHANGED <<charged, lost, used, doubled>> /\ Unreplayed' = Unreplayed
        /\ pending' = Plus(pending, Drained) /\ bytes' = [u \in Users |-> 0]
    BY <1>4, UnreplayedStays DEF StopAll, journalVars, rowVars, histVars
  <2> QED
    BY <1>0, <2>3, <2>4, BalancedDrain
<1>5. CASE Exit \/ PanelCrashes
  BY <1>0, <1>5, BalancedGone DEF Exit, PanelCrashes
<1>6. CASE \/ \E u \in Users : Connect(u) \/ Disconnect(u)
           \/ \E d \in Clients : DeleteRow(d)
           \/ Shutdown \/ PanelStarts \/ UNCHANGED vars
  <2>1. UNCHANGED <<bytes, pending, charged, lost, used, doubled>>
        /\ UNCHANGED <<th, files, content, receipts>>
    BY <1>6 DEF Connect, Disconnect, DeleteRow, Shutdown, PanelStarts, vars, serverVars,
                journalVars, rowVars, histVars
  <2>2. Whole(c)' = Whole(c)
    BY <2>1, Beside, CountedStays DEF Whole
  <2> QED
    BY <1>0, <2>1, <2>2, Moved, PartsType DEF Parts
<1> QED
  BY <1>1, <1>2, <1>3, <1>4, <1>5, <1>6, ThreadsDiffer DEF Next, Run, Close

LEMMA BalancedInit == ASSUME Init, NEW c \in Clients PROVE Balanced(c)
<1>0. TypeOK
  BY TypeInit
<1>1. Counted(Users)[c] = 0
  <2> DEFINE us == {u \in Users : OwnerOf[u] = c}
  <2>1. IsFiniteSet(us) /\ \A u \in us : bytes[u] = 0
    BY OwnedFinite DEF Init
  <2>2. Counted(Users)[c] = SumFunctionOnSet(bytes, us)
    BY DEF Counted
  <2> HIDE DEF us
  <2> QED
    BY <2>1, <2>2, SumNothing
<1>2. Unreplayed[c] = 0
  BY SumEmpty DEF Init, Unreplayed
<1>3. Held(c) = 0
  BY ThreadsDiffer, Sums DEF Init, Held, Idle
<1>4. /\ used[c] = 0 /\ doubled[c] = 0 /\ charged[c] = 0 /\ lost[c] = 0 /\ pending[c] = 0
  BY Sums DEF Init
<1> QED
  BY <1>0, <1>1, <1>2, <1>3, <1>4, PartsType DEF Parts, Whole

(* Every unit of traffic is in exactly one place, for any number of clients,   *)
(* registrations and journal files, whatever failed, crashed or was answered   *)
(* wrongly: a thread holds a batch only between the swap and its being added  *)
(* or stored, a replay visits only files that are there, a file is removed     *)
(* only once it has its receipt, and the flush and the job do not work on the  *)
(* journal at once.                                                         *)
THEOREM NothingCountedTwice == Spec => []EachInOnePlace
<1> DEFINE I == TypeOK /\ Journal /\ EachInOnePlace
<1>1. Init => I
  BY ShutdownInit, BalancedInit DEF ShutdownInv, EachInOnePlace, Balanced
<1>2. I /\ [Next]_vars => I'
  <2> SUFFICES ASSUME I, [Next]_vars PROVE I'
    OBVIOUS
  <2>1. \A c \in Clients : Balanced(c)'
    BY BalancedStep DEF EachInOnePlace, Balanced
  <2> QED
    BY <2>1, TypeStep, JournalStep DEF EachInOnePlace, Balanced
<1> QED
  BY <1>1, <1>2, PTL DEF Spec
=============================================================================
