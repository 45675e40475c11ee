------------------------ MODULE NodeConfigSyncProofs ------------------------
(***************************************************************************)
(* NodeConfigSync proved for every set of inbounds, slots and calls and every *)
(* bound: types, that a merge has seen every edit, and that at each inbound at *)
(* which none of the named races (`crossed`) has happened no edit is rolled   *)
(* back and the last word on the inbound stands.                             *)
(***************************************************************************)
EXTENDS NodeConfigSync, TLAPS

USE DEF dbVars, remoteVars, nodeVars, netVars, opVars, countVars, histVars, Crosses

(* The requests the master builds are requests.                             *)
LEMMA PayloadRequest ==
  ASSUME NEW from \in Ops \cup {Tick, Absent}, NEW kind \in {"slots", "full"},
         NEW i \in Inbounds, NEW slots \in SUBSET Slots, NEW body \in Content
  PROVE  Request(from, kind, i, slots, body) \in Requests
  BY DEF Request, Requests

LEMMA DeleteRequest ==
  ASSUME NEW from \in Ops \cup {Tick, Absent}, NEW i \in Inbounds
  PROVE  Request(from, "del", i, {}, Absent) \in Requests
  BY DEF Request, Requests

(* A tick between two nodes carries nothing.                                *)
LEMMA EmptyTable == [i \in Inbounds |-> Absent] \in Table
  BY DEF Table

LEMMA IdleTickType == IdleTick \in Ticks
  BY EmptyTable DEF IdleTick, Ticks

LEMMA FreshType == ASSUME NEW v \in Nat PROVE Fresh(v) \in Content
  BY DEF Fresh, Content

LEMMA TypeInit == Init => TypeOK
<1> SUFFICES ASSUME Init PROVE TypeOK
  OBVIOUS
<1> USE DEF Init
<1>1. Fresh(1) \in Content
  BY FreshType
<1>2. central \in Table /\ node \in Table /\ pushedFP \in Table
  BY <1>1 DEF Table
<1>3. opArg \in [Ops -> CallArgs]
  BY DEF CallArgs, NoArg
<1>4. tick \in Ticks /\ tick.pc = "idle"
  BY IdleTickType DEF IdleTick
<1>5. opPC \in [Ops -> {"idle", "read", "await", "done"}]
      /\ \A o \in Ops : opPC[o] = "idle"
  OBVIOUS
<1>6. wish \in [Inbounds -> {"present", "gone", "free"}]
  OBVIOUS
<1> QED
  BY <1>2, <1>3, <1>4, <1>5, <1>6, ImportedAssumption DEF TypeOK

LEMMA TypeReadClients ==
  ASSUME TypeOK, NEW o \in ClientEdits, NEW i \in Inbounds, NEW s \in Slots,
         ReadClients(o, i, s)
  PROVE  TypeOK'
  BY DEF TypeOK, ReadClients, Ops, Table, CallArgs

LEMMA TypeCommitClients ==
  ASSUME TypeOK, NEW o \in ClientEdits, CommitClients(o)
  PROVE  TypeOK'
<1> DEFINE i == opArg[o].ib
           s == opArg[o].slot
           v == version + 1
           pushed == [opArg[o].base EXCEPT ![s] = v]
<1> USE DEF TypeOK, CommitClients
<1>1. o \in Ops /\ i \in Inbounds /\ s \in Slots /\ v \in Nat
  BY DEF Ops
<1>2. pushed \in Content
  BY <1>1 DEF Content
<1>3. central' \in Table
  BY <1>1 DEF Table, Content
<1>4. dirty' \in BOOLEAN /\ dirtyAt' \in Nat
  BY DEF MarkNodeDirty
<1>5. net' \subseteq Requests /\ answers' \subseteq Ops \cup {Tick}
  BY <1>1, <1>2, PayloadRequest DEF Send
<1>6. /\ opPC' \in [Ops -> {"idle", "read", "await", "done"}]
      /\ opArg' \in [Ops -> CallArgs]
      /\ \A p \in Ops : opPC'[p] = "read" => p # o /\ opPC[p] = "read"
      /\ \A p \in Ops : p # o => opArg'[p] = opArg[p] /\ opPC'[p] = opPC[p]
      /\ opPC'[o] = "await" => opArg'[o].ib \in Inbounds
  <2>1. CASE opPC' = [opPC EXCEPT ![o] = "await"]
             /\ opArg' = [opArg EXCEPT ![o].next = pushed]
    BY <1>1, <1>2, <2>1 DEF CallArgs
  <2>2. CASE opPC' = [opPC EXCEPT ![o] = "done"] /\ opArg' = [opArg EXCEPT ![o] = NoArg]
    BY <1>1, <2>2 DEF CallArgs, NoArg
  <2> QED
    BY <2>1, <2>2
<1> QED
  BY <1>1, <1>3, <1>4, <1>5, <1>6

LEMMA TypeEditForm ==
  ASSUME TypeOK, NEW o \in FormEdits, NEW i \in Inbounds, NEW s \in Slots,
         EditForm(o, i, s)
  PROVE  TypeOK'
<1> USE DEF TypeOK, EditForm
<1>1. o \in Ops
  BY DEF Ops
<1>2. central' \in Table /\ version' \in Nat
  BY DEF Table, Content
<1>3. dirty' \in BOOLEAN /\ dirtyAt' \in Nat /\ crossed' \subseteq Inbounds
  BY DEF MarkNodeDirty
<1>4. /\ opPC' \in [Ops -> {"idle", "read", "await", "done"}]
      /\ \A p \in Ops : opPC'[p] \in {"read", "await"} => opPC'[p] = opPC[p]
  BY <1>1
<1> QED
  BY <1>2, <1>3, <1>4

LEMMA TypeAddInbound ==
  ASSUME TypeOK, NEW o \in Adds, NEW i \in Inbounds, AddInbound(o, i)
  PROVE  TypeOK'
<1> USE DEF TypeOK, AddInbound
<1>1. o \in Ops /\ Fresh(version + 1) \in Content
  BY FreshType DEF Ops
<1>2. central' \in Table /\ version' \in Nat
  BY <1>1 DEF Table
<1>3. dirty' \in BOOLEAN /\ dirtyAt' \in Nat /\ unseenEdit' \in BOOLEAN
      /\ crossed' \subseteq Inbounds
  <2>1. CASE i \in Disabled
    BY <2>1
  <2>2. CASE i \notin Disabled
    BY <2>2 DEF MarkNodeDirty
  <2> QED
    BY <2>1, <2>2
<1>4. /\ opPC' \in [Ops -> {"idle", "read", "await", "done"}]
      /\ \A p \in Ops : opPC'[p] \in {"read", "await"} => opPC'[p] = opPC[p]
  BY <1>1
<1>5. wish' \in [Inbounds -> {"present", "gone", "free"}] /\ seen' \subseteq Inbounds
  OBVIOUS
<1> QED
  BY <1>2, <1>3, <1>4, <1>5

LEMMA TypeDelInbound ==
  ASSUME TypeOK, NEW o \in Deletes, NEW i \in Inbounds, DelInbound(o, i)
  PROVE  TypeOK'
<1> USE DEF TypeOK, DelInbound
<1>1. o \in Ops
  BY DEF Ops
<1>2. central' \in Table /\ wish' \in [Inbounds -> {"present", "gone", "free"}]
  BY DEF Table
<1>3. dirty' \in BOOLEAN /\ dirtyAt' \in Nat
  BY DEF MarkNodeDirty
<1>4. net' \subseteq Requests /\ answers' \subseteq Ops \cup {Tick}
  BY <1>1, DeleteRequest DEF Send
<1>5. /\ opPC' \in [Ops -> {"idle", "read", "await", "done"}]
      /\ opArg' \in [Ops -> CallArgs]
      /\ \A p \in Ops : opPC'[p] = "read" => p # o /\ opPC[p] = "read"
      /\ \A p \in Ops : p # o => opArg'[p] = opArg[p] /\ opPC'[p] = opPC[p]
      /\ opPC'[o] = "await" => opArg'[o].ib \in Inbounds
  BY <1>1 DEF CallArgs
<1> QED
  BY <1>2, <1>3, <1>4, <1>5

LEMMA TypeReadToggle ==
  ASSUME TypeOK, NEW o \in Toggles, NEW i \in Inbounds, NEW s \in Slots,
         ReadToggle(o, i, s)
  PROVE  TypeOK'
  BY DEF TypeOK, ReadToggle, Ops, Table, CallArgs

LEMMA TypeCommitToggle ==
  ASSUME TypeOK, NEW o \in Toggles, CommitToggle(o)
  PROVE  TypeOK'
<1> DEFINE i == opArg[o].ib
           s == opArg[o].slot
           v == version + 1
           pushed == [opArg[o].base EXCEPT ![s] = v]
<1> USE DEF TypeOK, CommitToggle
<1>1. o \in Ops /\ i \in Inbounds /\ s \in Slots /\ v \in Nat
  BY DEF Ops
<1>2. pushed \in Content
  BY <1>1 DEF Content
<1>3. central' \in Table
  BY <1>1 DEF Table, Content
<1>4. dirty' \in BOOLEAN /\ dirtyAt' \in Nat
  BY DEF MarkNodeDirty
<1>5. net' \subseteq Requests /\ answers' \subseteq Ops \cup {Tick}
  BY <1>1, <1>2, PayloadRequest DEF Send
<1>6. /\ opPC' \in [Ops -> {"idle", "read", "await", "done"}]
      /\ opArg' \in [Ops -> CallArgs]
      /\ \A p \in Ops : opPC'[p] = "read" => p # o /\ opPC[p] = "read"
      /\ \A p \in Ops : p # o => opArg'[p] = opArg[p] /\ opPC'[p] = opPC[p]
      /\ opPC'[o] = "await" => opArg'[o].ib \in Inbounds
  <2>1. CASE opPC' = [opPC EXCEPT ![o] = "await"]
             /\ opArg' = [opArg EXCEPT ![o].next = pushed]
    BY <1>1, <1>2, <2>1 DEF CallArgs
  <2>2. CASE opPC' = [opPC EXCEPT ![o] = "done"] /\ opArg' = [opArg EXCEPT ![o] = NoArg]
    BY <1>1, <2>2 DEF CallArgs, NoArg
  <2> QED
    BY <2>1, <2>2
<1> QED
  BY <1>1, <1>3, <1>4, <1>5, <1>6

LEMMA TypeNodeApply ==
  ASSUME TypeOK, NEW m \in net, NodeApply(m)
  PROVE  TypeOK'
  BY DEF TypeOK, NodeApply, Applied, Requests, Table, Content

LEMMA TypeNodeEdit ==
  ASSUME TypeOK, NEW i \in Inbounds, NEW s \in Slots, NodeEdit(i, s)
  PROVE  TypeOK'
  BY DEF TypeOK, NodeEdit, Table, Content

LEMMA TypeNodeRemove ==
  ASSUME TypeOK, NEW i \in Inbounds, NodeRemove(i)
  PROVE  TypeOK'
  BY DEF TypeOK, NodeRemove, Table

LEMMA TypePushDone ==
  ASSUME TypeOK, NEW o \in Ops, PushDone(o)
  PROVE  TypeOK'
<1> USE DEF TypeOK, PushDone
<1>1. Recorded(o) \in Content \cup {Absent}
  <2>1. opArg[o].ib \in Inbounds /\ opArg[o].next \in Content \cup {Absent}
    BY DEF CallArgs
  <2> QED
    BY <2>1 DEF Recorded, Table
<1>2. pushedFP' \in Table
  BY <1>1 DEF Table
<1>3. opArg' \in [Ops -> CallArgs]
  BY DEF NoArg, CallArgs
<1>4. opPC' \in [Ops -> {"idle", "read", "await", "done"}]
  OBVIOUS
<1> QED
  BY <1>2, <1>3, <1>4

(* Calls whose callers are gone stay requests of nobody.                     *)
LEMMA AbandonType ==
  ASSUME net \subseteq Requests, NEW ms \in SUBSET net, Abandon(ms)
  PROVE  net' \subseteq Requests
<1>1. ASSUME NEW m \in ms PROVE [m EXCEPT !.from = Absent] \in Requests
  <2>1. m \in Requests
    OBVIOUS
  <2>2. CASE m \in [from : Ops \cup {Tick, Absent}, kind : {"slots", "full"},
                    ib : Inbounds, slots : SUBSET Slots, body : Content]
    BY <2>2 DEF Requests
  <2>3. CASE m \in [from : Ops \cup {Tick, Absent}, kind : {"del"},
                    ib : Inbounds, slots : SUBSET Slots, body : {Absent}]
    BY <2>3 DEF Requests
  <2> QED
    BY <2>1, <2>2, <2>3 DEF Requests
<1> QED
  BY <1>1 DEF Abandon

LEMMA TypePushFailed ==
  ASSUME TypeOK, NEW o \in Ops, PushFailed(o)
  PROVE  TypeOK'
  <1> USE DEF TypeOK, PushFailed
<1>1. net' \subseteq Requests
  BY AbandonType DEF Pending
<1>2. opArg' \in [Ops -> CallArgs]
  BY DEF NoArg, CallArgs
<1> QED
  BY <1>1, <1>2

LEMMA TypeReconcilePush ==
  ASSUME TypeOK, NEW i \in Inbounds, ReconcilePush(i)
  PROVE  TypeOK'
<1> USE DEF TypeOK, ReconcilePush, Becomes
<1>1. tick.plan[i] \in Content
  BY DEF Ticks, Table, Present
<1>2. net' \subseteq Requests /\ answers' \subseteq Ops \cup {Tick}
  <2>1. Tick \in Ops \cup {Tick, Absent} /\ "full" \in {"slots", "full"}
        /\ Slots \in SUBSET Slots
    OBVIOUS
  <2>2. Request(Tick, "full", i, Slots, tick.plan[i]) \in Requests
    BY <1>1, <2>1, PayloadRequest
  <2> QED
    BY <2>2 DEF Send
<1>3. pushedFP' \in Table
  BY DEF Table
<1>4. /\ tick' \in Ticks /\ tick'.pc = "pushWait" /\ tick'.cur = i
      /\ tick'.todo \subseteq tick.todo /\ tick'.plan = tick.plan
  BY DEF Ticks
<1> QED
  BY <1>2, <1>3, <1>4 DEF Present

LEMMA TypeReconcileAnswer ==
  ASSUME TypeOK, ReconcileAnswer
  PROVE  TypeOK'
  BY DEF TypeOK, ReconcileAnswer, Becomes, Resumed, Ticks, Table

LEMMA TypeMergeCommit ==
  ASSUME TypeOK, MergeCommit
  PROVE  TypeOK'
  BY DEF TypeOK, MergeCommit, Becomes, IdleTick, Adopted, Ticks, Table, Present

LEMMA TypeClear ==
  ASSUME TypeOK, ClearNodeDirty
  PROVE  TypeOK'
  BY DEF TypeOK, ClearNodeDirty, Becomes, IdleTick, Ticks, Table

LEMMA TickStartGoes ==
  ASSUME TypeOK, TickStart
  PROVE  tick' \in Ticks /\ tick'.pc \in {"read", "fetch"}
<1>1. PICK p \in {"read", "fetch"} :
        tick' = [IdleTick EXCEPT !.pc = p, !.at = dirtyAt, !.adopted = adopted]
  <2>1. CASE dirty
    BY <2>1, Zenon DEF TickStart, Becomes
  <2>2. CASE ~dirty
    BY <2>2, Zenon DEF TickStart, Becomes
  <2> QED
    BY <2>1, <2>2
<1>2. dirtyAt \in Nat /\ adopted \in BOOLEAN
  BY DEF TypeOK
<1> QED
  BY <1>1, <1>2, IdleTickType DEF IdleTick, Ticks

LEMMA TypeQuietTick ==
  ASSUME TypeOK,
         \/ TickStart \/ ReconcileRead \/ ReconcileList \/ ReconcileSweep
         \/ FetchSnapshot \/ SampleDirty \/ MergeBegin \/ MarkAdopted
  PROVE  TypeOK'
<1> USE DEF TypeOK, Becomes
<1>1. CASE TickStart
  BY <1>1, TickStartGoes DEF TickStart
<1>2. CASE ReconcileRead
  BY <1>2 DEF ReconcileRead, Ticks
<1>3. CASE ReconcileList
  <2>1. Present(node) \subseteq Inbounds /\ Present(tick.plan) \subseteq Inbounds
    BY DEF Present
  <2>2. /\ tick' \in Ticks /\ tick'.pc = "push"
        /\ tick'.todo = Present(tick'.plan)
    BY <1>3, <2>1 DEF ReconcileList, Ticks
  <2> QED
    BY <1>3, <2>2 DEF ReconcileList
<1>4. CASE ReconcileSweep
  BY <1>4 DEF ReconcileSweep, Ticks
<1>5. CASE FetchSnapshot
  BY <1>5 DEF FetchSnapshot, IdleTick, Ticks, Table
<1>6. CASE SampleDirty
  BY <1>6 DEF SampleDirty, Ticks
<1>7. CASE MergeBegin
  BY <1>7 DEF MergeBegin, Ticks
<1>8. CASE MarkAdopted
  BY <1>8, IdleTickType DEF MarkAdopted, IdleTick
<1> QED
  BY <1>1, <1>2, <1>3, <1>4, <1>5, <1>6, <1>7, <1>8

LEMMA TypeTickFailure ==
  ASSUME TypeOK, ReconcileFailed \/ ListFailed \/ FetchFailed
  PROVE  TypeOK'
<1> USE DEF TypeOK, Becomes
<1>1. CASE ReconcileFailed
  <2>1. net' \subseteq Requests
    BY <1>1, AbandonType DEF ReconcileFailed, Pending
  <2>2. /\ tick' \in Ticks /\ tick'.pc = Resumed /\ tick'.plan = tick.plan
        /\ tick'.todo = tick.todo
    BY <1>1 DEF ReconcileFailed, Ticks, Resumed
  <2> QED
    BY <1>1, <2>1, <2>2 DEF ReconcileFailed, Resumed
<1>2. CASE ListFailed
  BY <1>2 DEF ListFailed, Ticks
<1>3. CASE FetchFailed
  BY <1>3, IdleTickType DEF FetchFailed, IdleTick
<1> QED
  BY <1>1, <1>2, <1>3

LEMMA TypeTickOne ==
  ASSUME TypeOK, NEW i \in Inbounds,
         AdoptAlias(i) \/ ReconcileSkip(i) \/ SweepDelete(i) \/ SweepSkipped(i)
  PROVE  TypeOK'
<1> USE DEF TypeOK, Becomes
<1>1. CASE AdoptAlias(i)
  BY <1>1 DEF AdoptAlias, Ticks, Table, Present
<1>2. CASE ReconcileSkip(i)
  BY <1>2 DEF ReconcileSkip, Ticks, Present
<1>3. CASE SweepDelete(i)
  <2>1. net' \subseteq Requests /\ answers' \subseteq Ops \cup {Tick}
    BY <1>3, DeleteRequest DEF SweepDelete, Send
  <2>2. tick' \in Ticks /\ tick'.pc = "sweepWait" /\ tick'.cur = i
    BY <1>3 DEF SweepDelete, Ticks
  <2> QED
    BY <1>3, <2>1, <2>2 DEF SweepDelete
<1>4. CASE SweepSkipped(i)
  BY <1>4 DEF SweepSkipped, Ticks
<1> QED
  BY <1>1, <1>2, <1>3, <1>4

LEMMA TypeRestart ==
  ASSUME TypeOK, Restart
  PROVE  TypeOK'
<1> USE DEF TypeOK, Restart
<1>1. net' \subseteq Requests
  BY AbandonType
<1>2. pushedFP' \in Table
  BY EmptyTable
<1>3. opArg' \in [Ops -> CallArgs]
  BY DEF NoArg, CallArgs
<1>4. tick' \in Ticks /\ tick'.pc = "idle"
  BY IdleTickType DEF IdleTick
<1>5. opPC' \in [Ops -> {"idle", "read", "await", "done"}]
      /\ \A o \in Ops : opPC'[o] \in {"idle", "done"}
  OBVIOUS
<1> QED
  BY <1>1, <1>2, <1>3, <1>4, <1>5

LEMMA TypeStep == TypeOK /\ [Next]_vars => TypeOK'
<1> SUFFICES ASSUME TypeOK, [Next]_vars PROVE TypeOK'
  OBVIOUS
<1>1. CASE AdminStep
  BY <1>1, TypeReadClients, TypeEditForm, TypeReadToggle, TypeAddInbound,
     TypeDelInbound DEF AdminStep
<1>2. CASE \E o \in Ops : CallStep(o)
  BY <1>2, TypeCommitClients, TypeCommitToggle, TypePushDone, TypePushFailed
  DEF CallStep
<1>3. CASE TickStep
  BY <1>3, TypeQuietTick, TypeTickOne, TypeTickFailure, TypeReconcilePush,
     TypeReconcileAnswer, TypeClear, TypeMergeCommit DEF TickStep
<1>4. CASE NodeStep
  BY <1>4, TypeNodeApply, TypeNodeEdit, TypeNodeRemove DEF NodeStep
<1>5. CASE Restart
  BY <1>5, TypeRestart
<1>6. CASE UNCHANGED vars
  BY <1>6 DEF vars, TypeOK
<1> QED
  BY <1>1, <1>2, <1>3, <1>4, <1>5, <1>6 DEF Next

(* Every reachable state of the master, the node and the calls between them  *)
(* is well-typed, and no call or tick uses a row it did not load.            *)
THEOREM SyncTypeCorrect == Spec => []TypeOK
<1>1. Init => TypeOK
  BY TypeInit
<1>2. TypeOK /\ [Next]_vars => TypeOK'
  BY TypeStep
<1> QED
  BY <1>1, <1>2, PTL DEF Spec

-----------------------------------------------------------------------------
(* A merge never takes over a report older than an edit.  The flag alone does *)
(* not say so: what is invariant is that from the fetch on, an edit the       *)
(* report cannot show keeps the node dirty until the merge looks (only the    *)
(* reconcile before the fetch clears the flag), and that between the look and *)
(* the commit the merge holds the writer.                                    *)
EditKeepsDirty == tick.pc \in {"sample", "merge"} /\ unseenEdit => dirty

Informed == TypeOK /\ EditKeepsDirty /\ MergeSeesEdits

(* An edit made on the writer waits for a merge in progress and marks dirty.  *)
LEMMA InformedEdit ==
  ASSUME Informed, dirty', unseenEdit' = TRUE, WriterFree, tick' = tick
  PROVE  EditKeepsDirty' /\ MergeSeesEdits'
  BY DEF Informed, EditKeepsDirty, MergeSeesEdits, WriterFree

(* Anything else that is not the tick leaves the tick alone or kills it, and  *)
(* does not clear the flag.                                                  *)
LEMMA InformedElse ==
  ASSUME Informed, dirty => dirty', unseenEdit' = unseenEdit,
         tick' = tick \/ tick' = IdleTick
  PROVE  EditKeepsDirty' /\ MergeSeesEdits'
  BY DEF Informed, EditKeepsDirty, MergeSeesEdits, IdleTick

LEMMA InformedTick ==
  ASSUME Informed, TickStep
  PROVE  EditKeepsDirty' /\ MergeSeesEdits'
<1> USE DEF Informed, EditKeepsDirty, MergeSeesEdits, Becomes
<1>1. TypeOK /\ tick \in Ticks
  BY DEF TypeOK
<1>2. CASE FetchSnapshot
  BY <1>2 DEF FetchSnapshot, IdleTick
<1>3. CASE SampleDirty
  BY <1>1, <1>3 DEF SampleDirty, Ticks
<1>4. CASE MergeBegin
  BY <1>1, <1>4 DEF MergeBegin, Ticks
<1>5. ASSUME tick'.pc \notin {"sample", "merge", "merging"}
      PROVE  EditKeepsDirty' /\ MergeSeesEdits'
  BY <1>5
<1>6. CASE TickStart
  BY <1>5, <1>6, TickStartGoes
<1>7. CASE ReconcileRead \/ ReconcileList \/ ReconcileSweep \/ ListFailed
  <2>1. CASE ReconcileRead
    BY <1>1, <1>5, <2>1 DEF ReconcileRead, Ticks
  <2>2. CASE ReconcileList
    <3>1. tick'.pc = "push"
      BY <1>1, <2>2 DEF ReconcileList, Ticks
    <3> QED
      BY <1>5, <3>1
  <2>3. CASE ReconcileSweep
    BY <1>1, <1>5, <2>3 DEF ReconcileSweep, Ticks
  <2>4. CASE ListFailed
    BY <1>1, <1>5, <2>4 DEF ListFailed, Ticks
  <2> QED
    BY <1>7, <2>1, <2>2, <2>3, <2>4
<1>8. CASE ReconcileAnswer \/ ReconcileFailed
  BY <1>1, <1>5, <1>8 DEF ReconcileAnswer, ReconcileFailed, Resumed, Ticks
<1>9. CASE ClearNodeDirty \/ FetchFailed \/ MergeCommit \/ MarkAdopted
  <2>1. CASE ClearNodeDirty
    BY <1>5, <2>1 DEF ClearNodeDirty, IdleTick
  <2>2. CASE FetchFailed \/ MarkAdopted
    <3>1. tick'.pc = "idle"
      BY <2>2 DEF FetchFailed, MarkAdopted, IdleTick
    <3> QED
      BY <1>5, <3>1
  <2>3. CASE MergeCommit
    <3>1. tick'.pc = "mark"
      BY <2>3 DEF MergeCommit, IdleTick
    <3> QED
      BY <1>5, <3>1
  <2> QED
    BY <1>9, <2>1, <2>2, <2>3
<1>10. ASSUME NEW i, AdoptAlias(i) \/ ReconcileSkip(i) \/ ReconcilePush(i)
                     \/ SweepDelete(i) \/ SweepSkipped(i)
       PROVE  EditKeepsDirty' /\ MergeSeesEdits'
  BY <1>1, <1>5, <1>10
  DEF AdoptAlias, ReconcileSkip, ReconcilePush, SweepDelete, SweepSkipped, Ticks
<1> QED
  BY <1>2, <1>3, <1>4, <1>6, <1>7, <1>8, <1>9, <1>10 DEF TickStep

LEMMA InformedStep == Informed /\ [Next]_vars => Informed'
<1> SUFFICES ASSUME Informed, [Next]_vars
             PROVE  EditKeepsDirty' /\ MergeSeesEdits'
  BY TypeStep DEF Informed
<1>1. CASE AdminStep
  <2>1. ASSUME NEW o, NEW i, NEW s, ReadClients(o, i, s) \/ ReadToggle(o, i, s)
        PROVE  EditKeepsDirty' /\ MergeSeesEdits'
    BY <2>1, InformedElse DEF ReadClients, ReadToggle
  <2>2. ASSUME NEW o, NEW i, NEW s,
               EditForm(o, i, s) \/ AddInbound(o, i) \/ DelInbound(o, i)
        PROVE  EditKeepsDirty' /\ MergeSeesEdits'
    BY <2>2, InformedEdit, InformedElse
    DEF EditForm, AddInbound, DelInbound, MarkNodeDirty
  <2> QED
    BY <1>1, <2>1, <2>2 DEF AdminStep
<1>2. CASE \E o \in Ops : CallStep(o)
  <2>1. ASSUME NEW o \in Ops, CommitClients(o)
        PROVE  EditKeepsDirty' /\ MergeSeesEdits'
    BY <2>1, InformedEdit DEF CommitClients, MarkNodeDirty
  <2>2. ASSUME NEW o \in Ops, CommitToggle(o) \/ PushDone(o) \/ PushFailed(o)
        PROVE  EditKeepsDirty' /\ MergeSeesEdits'
    BY <2>2, InformedElse DEF CommitToggle, PushDone, PushFailed, MarkNodeDirty
  <2> QED
    BY <1>2, <2>1, <2>2 DEF CallStep
<1>3. CASE TickStep
  BY <1>3, InformedTick
<1>4. CASE NodeStep
  BY <1>4, InformedElse DEF NodeStep, NodeApply, NodeEdit, NodeRemove
<1>5. CASE Restart
  BY <1>5, InformedElse DEF Restart
<1>6. CASE UNCHANGED vars
  BY <1>6, InformedElse DEF vars
<1> QED
  BY <1>1, <1>2, <1>3, <1>4, <1>5, <1>6 DEF Next

(* Whatever calls, ticks, failures and restarts interleave, a merge that      *)
(* takes over a node's report has seen every edit committed on the writer.   *)
THEOREM MergeIsInformed == Spec => []MergeSeesEdits
<1>1. Init => Informed
  BY TypeInit DEF Init, IdleTick, Informed, EditKeepsDirty, MergeSeesEdits
<1>2. Informed /\ [Next]_vars => Informed'
  BY InformedStep
<1>3. Informed => MergeSeesEdits
  BY DEF Informed
<1> QED
  BY <1>1, <1>2, <1>3, PTL DEF Spec

-----------------------------------------------------------------------------
(* Who has asked the node for what: the tick for the one inbound it waits     *)
(* for, a call for the one it has committed, and whoever has an answer waits  *)
(* for it.                                                                   *)
Calls == ClientEdits \cup Toggles

TickAsks(m) == \/ /\ tick.pc = "pushWait"
                  /\ m = Request(Tick, "full", tick.cur, Slots, tick.plan[tick.cur])
               \/ /\ tick.pc = "sweepWait"
                  /\ m = Request(Tick, "del", tick.cur, {}, Absent)

Pushed(o) ==
  LET a == opArg[o] IN
  IF o \in Deletes THEN Request(o, "del", a.ib, {}, Absent)
  ELSE Request(o, IF o \in Toggles THEN "full" ELSE "slots", a.ib, {a.slot}, a.next)

CallAsks(m) == m.from \in Deletes \cup Calls /\ opPC[m.from] = "await"
               /\ m = Pushed(m.from)

Asked == /\ \A m \in net : \/ m.from = Absent
                           \/ m.from \notin answers /\ (TickAsks(m) \/ CallAsks(m))
         /\ Tick \in answers => tick.pc \in {"pushWait", "sweepWait"}
         /\ \A o \in Ops \cap answers : opPC[o] = "await"

(* A call under way pushes what it has read with its one slot changed.       *)
Intends ==
  \A o \in Calls : opPC[o] = "await" =>
    /\ opArg[o].slot \in Slots /\ opArg[o].base \in Content
    /\ opArg[o].next \in Content
    /\ \A s \in Slots \ {opArg[o].slot} : opArg[o].next[s] = opArg[o].base[s]

LEMMA AskedInit == Init => Asked /\ Intends
  BY DEF Init, Asked, Intends, Calls, Ops

(* A step that neither sends nor ends a request keeps what was asked.        *)
LEMMA AskedElse ==
  ASSUME TypeOK, Asked, Intends, UNCHANGED <<net, answers>>,
         tick' = tick \/ (tick.pc \notin {"pushWait", "sweepWait"}),
         \A o \in Ops : opPC[o] = "await" \/ opPC'[o] = "await"
                          => opPC'[o] = opPC[o] /\ opArg'[o] = opArg[o]
  PROVE  Asked' /\ Intends'
<1>1. \A m \in net : TickAsks(m) => TickAsks(m)'
  BY DEF TickAsks
<1>2. \A m \in net : CallAsks(m) => CallAsks(m)'
  BY DEF CallAsks, Pushed, Ops, Calls
<1>3. Tick \in answers => tick'.pc \in {"pushWait", "sweepWait"}
  BY DEF Asked
<1>4. Asked'
  BY <1>1, <1>2, <1>3 DEF Asked
<1>5. Intends'
  BY DEF Intends, Ops, Calls
<1> QED
  BY <1>4, <1>5

(* A call that commits and pushes.                                          *)
LEMMA AskedCommit ==
  ASSUME TypeOK, Asked, Intends, NEW o \in Calls \cup Deletes, NEW m,
         opPC[o] # "await", m.from = o, CallAsks(m)', Send(m), tick' = tick,
         \A p \in Ops \ {o} : opPC'[p] = opPC[p] /\ opArg'[p] = opArg[p],
         o \in Calls => /\ opArg'[o].slot \in Slots /\ opArg'[o].base \in Content
                        /\ opArg'[o].next \in Content
                        /\ \A s \in Slots \ {opArg'[o].slot} :
                             opArg'[o].next[s] = opArg'[o].base[s]
  PROVE  Asked' /\ Intends'
<1>1. o \in Ops /\ o # Tick /\ o \notin answers /\ opPC'[o] = "await"
  BY OpsAssumption DEF Asked, Ops, Calls, CallAsks
<1>2. ASSUME NEW n \in net PROVE TickAsks(n) => TickAsks(n)'
  BY DEF TickAsks
<1>3. ASSUME NEW n \in net, CallAsks(n) PROVE CallAsks(n)'
  <2>1. n.from \in Ops \ {o}
    BY <1>1, <1>3 DEF CallAsks, Ops, Calls
  <2> QED
    BY <1>3, <2>1 DEF CallAsks, Pushed
<1>4. Asked'
  BY <1>1, <1>2, <1>3 DEF Asked, Send, Ops
<1>5. Intends'
  BY DEF Intends, Ops, Calls
<1> QED
  BY <1>4, <1>5

(* A call that ends: its answer is read, or it gives up.                     *)
LEMMA AskedEnds ==
  ASSUME TypeOK, Asked, Intends, NEW o \in Ops, answers' = answers \ {o}, tick' = tick,
         opPC' = [opPC EXCEPT ![o] = "done"], opArg' = [opArg EXCEPT ![o] = NoArg],
         net' \subseteq {m \in net : m.from # o} \cup {m \in net' : m.from = Absent}
  PROVE  Asked' /\ Intends'
<1>1. o # Tick
  BY OpsAssumption
<1>2. ASSUME NEW m \in net, TickAsks(m) PROVE TickAsks(m)'
  BY <1>2 DEF TickAsks
<1>3. ASSUME NEW m \in net, CallAsks(m), m.from # o PROVE CallAsks(m)'
  BY <1>3 DEF CallAsks, Pushed, Ops, Calls, TypeOK
<1>4. Asked'
  BY <1>1, <1>2, <1>3 DEF Asked, TypeOK
<1>5. Intends'
  BY DEF Intends, Ops, Calls, TypeOK
<1> QED
  BY <1>4, <1>5

LEMMA AskedTick ==
  ASSUME TypeOK, Asked, Intends, TickStep
  PROVE  Asked' /\ Intends'
<1> USE DEF Becomes
<1>1. tick \in Ticks /\ Tick \notin Ops
  BY OpsAssumption DEF TypeOK
<1>2. ASSUME tick.pc \notin {"pushWait", "sweepWait"}, UNCHANGED <<netVars, opVars>>
      PROVE  Asked' /\ Intends'
  BY <1>2, AskedElse
<1>3. CASE \/ TickStart \/ ReconcileRead \/ ReconcileList \/ ReconcileSweep \/ ListFailed
           \/ ClearNodeDirty \/ FetchSnapshot \/ FetchFailed \/ SampleDirty
           \/ MergeBegin \/ MergeCommit \/ MarkAdopted
  BY <1>2, <1>3 DEF TickStart, ReconcileRead, ReconcileList, ReconcileSweep, ListFailed,
     ClearNodeDirty, FetchSnapshot, FetchFailed, SampleDirty, MergeBegin, MergeCommit,
     MarkAdopted
<1>4. ASSUME NEW i \in Inbounds, AdoptAlias(i) \/ ReconcileSkip(i) \/ SweepSkipped(i)
      PROVE  Asked' /\ Intends'
  BY <1>2, <1>4 DEF AdoptAlias, ReconcileSkip, SweepSkipped
<1>5. ASSUME NEW m, TickAsks(m)', Send(m), tick.pc \notin {"pushWait", "sweepWait"},
             UNCHANGED opVars
      PROVE  Asked' /\ Intends'
  <2>1. \A n \in net : n.from = Absent \/ CallAsks(n)
    BY <1>5 DEF Asked, TickAsks
  <2>2. \A n \in net : CallAsks(n) => CallAsks(n)'
    BY <1>5 DEF CallAsks, Pushed
  <2>3. Tick \notin answers /\ m.from = Tick
    BY <1>5 DEF Asked, TickAsks, Request
  <2>4. \A n \in net : n.from = Absent \/ n.from \notin answers
    BY DEF Asked
  <2>5. Asked'
    BY <1>5, <2>1, <2>2, <2>3, <2>4 DEF Asked, Send
  <2>6. Intends'
    BY <1>5 DEF Intends
  <2> QED
    BY <2>5, <2>6
<1>6. ASSUME NEW i \in Inbounds, ReconcilePush(i)
      PROVE  Asked' /\ Intends'
  <2>1. tick'.pc = "pushWait" /\ tick'.cur = i /\ tick'.plan = tick.plan
    BY <1>1, <1>6 DEF ReconcilePush, Ticks
  <2>2. TickAsks(Request(Tick, "full", i, Slots, tick.plan[i]))'
    BY <2>1 DEF TickAsks, Request
  <2> QED
    BY <1>5, <1>6, <2>2 DEF ReconcilePush
<1>7. ASSUME NEW i \in Inbounds, SweepDelete(i)
      PROVE  Asked' /\ Intends'
  <2>1. tick'.pc = "sweepWait" /\ tick'.cur = i
    BY <1>1, <1>7 DEF SweepDelete, Ticks
  <2>2. TickAsks(Request(Tick, "del", i, {}, Absent))'
    BY <2>1 DEF TickAsks, Request
  <2> QED
    BY <1>5, <1>7, <2>2 DEF SweepDelete
<1>8. CASE ReconcileAnswer \/ ReconcileFailed
  <2>1. /\ net' \subseteq {m \in net : m.from # Tick \/ (Tick \in answers)}
                            \cup {m \in net' : m.from = Absent}
        /\ answers' = answers \ {Tick} /\ UNCHANGED opVars
    <3>1. CASE ReconcileAnswer
      BY <3>1 DEF ReconcileAnswer
    <3>2. CASE ReconcileFailed
      <4>1. \A m \in net : [m EXCEPT !.from = Absent].from = Absent
        BY DEF TypeOK, Requests
      <4> QED
        BY <3>2, <4>1 DEF ReconcileFailed, Abandon, Pending
    <3> QED
      BY <1>8, <3>1, <3>2
  <2>2. ASSUME NEW m \in net', m.from # Absent
        PROVE  m.from \notin answers /\ CallAsks(m)
    <3>1. m \in net /\ (m.from # Tick \/ Tick \in answers)
      BY <2>1, <2>2
    <3>2. m.from \notin answers /\ (TickAsks(m) \/ CallAsks(m))
      BY <2>2, <3>1 DEF Asked
    <3>3. TickAsks(m) => m.from = Tick
      BY DEF TickAsks, Request
    <3> QED
      BY <3>1, <3>2, <3>3
  <2>3. \A m \in net' : CallAsks(m) => CallAsks(m)'
    BY <2>1 DEF CallAsks, Pushed
  <2>4. Asked'
    BY <1>1, <2>1, <2>2, <2>3 DEF Asked
  <2>5. Intends'
    BY <2>1 DEF Intends
  <2> QED
    BY <2>4, <2>5
<1> QED
  BY <1>3, <1>4, <1>6, <1>7, <1>8 DEF TickStep

LEMMA AskedApply ==
  ASSUME TypeOK, Asked, Intends, NEW m \in net, NodeApply(m)
  PROVE  Asked' /\ Intends'
<1>0. /\ net' = net \ {m} /\ answers' = answers \cup ({m.from} \ {Absent})
      /\ UNCHANGED <<tick, opPC, opArg>>
  BY DEF NodeApply
<1>1. ASSUME NEW n \in net' PROVE n.from = Absent \/ n.from \notin answers'
  <2>1. n \in net /\ n # m
    BY <1>0, <1>1
  <2>2. CASE n.from = m.from /\ n.from # Absent
    <3>1. (TickAsks(n) \/ CallAsks(n)) /\ (TickAsks(m) \/ CallAsks(m))
      BY <2>1, <2>2 DEF Asked
    <3>2. \A k \in {m, n} : (TickAsks(k) => k.from = Tick) /\ (CallAsks(k) => k.from \in Ops)
      BY DEF TickAsks, CallAsks, Request, Ops, Calls
    <3>3. CASE m.from = Tick
      <4>1. TickAsks(n) /\ TickAsks(m)
        BY <2>2, <3>1, <3>2, <3>3, OpsAssumption
      <4> QED
        BY <2>1, <4>1 DEF TickAsks
    <3>4. CASE m.from # Tick
      <4>1. n = Pushed(m.from) /\ m = Pushed(m.from)
        BY <2>2, <3>1, <3>2, <3>4 DEF CallAsks
      <4> QED
        BY <2>1, <4>1
    <3> QED
      BY <3>3, <3>4
  <2>3. CASE n.from # m.from
    BY <1>0, <2>1, <2>3 DEF Asked
  <2> QED
    BY <2>2, <2>3
<1>2. ASSUME NEW n \in net' PROVE \/ n.from = Absent
                                  \/ TickAsks(n)' \/ CallAsks(n)'
  BY <1>0 DEF Asked, TickAsks, CallAsks, Pushed
<1>3. m.from = Absent \/ (m.from \notin answers /\ (TickAsks(m) \/ CallAsks(m)))
  BY DEF Asked
<1>4. Tick \in answers' => tick.pc \in {"pushWait", "sweepWait"}
  <2>1. CallAsks(m) => m.from # Tick
    BY OpsAssumption DEF CallAsks, Ops, Calls
  <2> QED
    BY <1>0, <1>3, <2>1, AbsentAssumption DEF Asked, TickAsks
<1>5. \A o \in Ops \cap answers' : opPC[o] = "await"
  <2>1. TickAsks(m) => m.from \notin Ops
    BY OpsAssumption DEF TickAsks, Request
  <2> QED
    BY <1>0, <1>3, <2>1, AbsentAssumption DEF Asked, CallAsks
<1>6. Asked'
  BY <1>0, <1>1, <1>2, <1>4, <1>5 DEF Asked
<1>7. Intends'
  BY <1>0 DEF Intends
<1> QED
  BY <1>6, <1>7

LEMMA AskedAdmin ==
  ASSUME TypeOK, Asked, Intends, AdminStep
  PROVE  Asked' /\ Intends'
<1>1. ASSUME NEW o \in ClientEdits, NEW i \in Inbounds, NEW s \in Slots,
             ReadClients(o, i, s)
      PROVE  Asked' /\ Intends'
  <2>1. /\ UNCHANGED <<net, answers, tick>> /\ opPC[o] = "idle"
        /\ opPC' = [opPC EXCEPT ![o] = "read"]
        /\ \A p \in Ops \ {o} : opArg'[p] = opArg[p]
    BY <1>1 DEF ReadClients, TypeOK
  <2> QED
    BY <2>1, AskedElse DEF TypeOK, Ops
<1>2. ASSUME NEW o \in FormEdits, NEW i \in Inbounds, NEW s \in Slots, EditForm(o, i, s)
      PROVE  Asked' /\ Intends'
  BY <1>2, AskedElse DEF EditForm, TypeOK, Ops
<1>3. ASSUME NEW o \in Toggles, NEW i \in Inbounds, NEW s \in Slots, ReadToggle(o, i, s)
      PROVE  Asked' /\ Intends'
  <2>1. /\ UNCHANGED <<net, answers, tick>> /\ opPC[o] = "idle"
        /\ opPC' = [opPC EXCEPT ![o] = "read"]
        /\ \A p \in Ops \ {o} : opArg'[p] = opArg[p]
    BY <1>3 DEF ReadToggle, TypeOK
  <2> QED
    BY <2>1, AskedElse DEF TypeOK, Ops
<1>4. ASSUME NEW o \in Adds, NEW i \in Inbounds, AddInbound(o, i)
      PROVE  Asked' /\ Intends'
  <2>1. /\ UNCHANGED <<net, answers, tick, opArg>> /\ opPC[o] = "idle"
        /\ opPC' = [opPC EXCEPT ![o] = "done"]
    BY <1>4 DEF AddInbound
  <2> QED
    BY <2>1, AskedElse DEF TypeOK, Ops
<1>5. ASSUME NEW o \in Deletes, NEW i \in Inbounds, DelInbound(o, i)
      PROVE  Asked' /\ Intends'
  <2>1. o \in Ops /\ o \notin Calls /\ opPC[o] = "idle" /\ UNCHANGED tick
    BY <1>5, OpsAssumption DEF Ops, Calls, DelInbound
  <2>2. CASE /\ Send(Request(o, "del", i, {}, Absent))
             /\ opPC' = [opPC EXCEPT ![o] = "await"]
             /\ opArg' = [opArg EXCEPT ![o].ib = i]
    <3>1. opPC'[o] = "await" /\ opArg'[o].ib = i
          /\ \A p \in Ops \ {o} : opPC'[p] = opPC[p] /\ opArg'[p] = opArg[p]
      BY <2>1, <2>2 DEF TypeOK, CallArgs
    <3>2. CallAsks(Request(o, "del", i, {}, Absent))'
      BY <2>1, <3>1 DEF CallAsks, Pushed, Request
    <3>3. Request(o, "del", i, {}, Absent).from = o
      BY DEF Request
    <3>4. opPC[o] # "await" /\ o \in Calls \cup Deletes
      BY <2>1
    <3> HIDE <2>2
    <3> QED
      BY <2>1, <2>2, <3>1, <3>2, <3>3, <3>4, AskedCommit
  <2>3. CASE opPC' = [opPC EXCEPT ![o] = "done"] /\ UNCHANGED <<netVars, opArg>>
    BY <2>1, <2>3, AskedElse DEF TypeOK
  <2> QED
    BY <1>5, <2>2, <2>3 DEF DelInbound
<1> QED
  BY <1>1, <1>2, <1>3, <1>4, <1>5 DEF AdminStep

LEMMA AskedCall ==
  ASSUME TypeOK, Asked, Intends, NEW o \in Ops, CallStep(o)
  PROVE  Asked' /\ Intends'
<1>1. ASSUME o \in Calls, opPC[o] = "read", UNCHANGED tick, NEW m, m.from = o,
             Pushed(o)' = m, Send(m), opPC' = [opPC EXCEPT ![o] = "await"],
             opArg' = [opArg EXCEPT ![o].next =
                         [opArg[o].base EXCEPT ![opArg[o].slot] = version + 1]]
      PROVE  Asked' /\ Intends'
  <2>1. /\ opArg[o].slot \in Slots /\ opArg[o].base \in Content /\ opPC[o] # "await"
        /\ version + 1 \in Nat
    BY <1>1 DEF TypeOK
  <2>2. /\ opArg'[o].slot = opArg[o].slot /\ opArg'[o].base = opArg[o].base
        /\ opArg'[o].next = [opArg[o].base EXCEPT ![opArg[o].slot] = version + 1]
        /\ opPC'[o] = "await"
        /\ \A p \in Ops \ {o} : opPC'[p] = opPC[p] /\ opArg'[p] = opArg[p]
    BY <1>1 DEF TypeOK, CallArgs
  <2>3. /\ opArg'[o].next \in Content
        /\ \A s \in Slots \ {opArg'[o].slot} : opArg'[o].next[s] = opArg'[o].base[s]
    BY <2>1, <2>2 DEF Content
  <2>4. CallAsks(m)'
    BY <1>1, <2>2 DEF CallAsks
  <2> QED
    BY <1>1, <2>1, <2>2, <2>3, <2>4, AskedCommit
<1>2. ASSUME opPC[o] = "read", opPC' = [opPC EXCEPT ![o] = "done"], UNCHANGED <<netVars, tick>>,
             opArg' = [opArg EXCEPT ![o] = NoArg]
      PROVE  Asked' /\ Intends'
  BY <1>2, AskedElse DEF TypeOK
<1>3. CASE o \in ClientEdits /\ CommitClients(o)
  <2>1. o \in Calls /\ o \notin Deletes /\ o \notin Toggles
    BY <1>3, OpsAssumption DEF Calls
  <2>2. UNCHANGED tick /\ opPC[o] = "read"
    BY <1>3 DEF CommitClients
  <2>3. CASE /\ Send(Request(o, "slots", opArg[o].ib, {opArg[o].slot},
                             [opArg[o].base EXCEPT ![opArg[o].slot] = version + 1]))
             /\ opPC' = [opPC EXCEPT ![o] = "await"]
             /\ opArg' = [opArg EXCEPT ![o].next =
                            [opArg[o].base EXCEPT ![opArg[o].slot] = version + 1]]
    <3>1. PICK m : m = Request(o, "slots", opArg[o].ib, {opArg[o].slot},
                              [opArg[o].base EXCEPT ![opArg[o].slot] = version + 1])
      OBVIOUS
    <3>2. Pushed(o)' = m /\ m.from = o
      BY <2>1, <2>3, <3>1 DEF Pushed, TypeOK, CallArgs, Request
    <3> QED
      BY <1>1, <2>1, <2>2, <2>3, <3>1, <3>2
  <2> QED
    BY <1>2, <1>3, <2>2, <2>3 DEF CommitClients
<1>4. CASE o \in Toggles /\ CommitToggle(o)
  <2>1. o \in Calls /\ o \notin Deletes /\ o \in Toggles
    BY <1>4, OpsAssumption DEF Calls
  <2>2. UNCHANGED tick /\ opPC[o] = "read"
    BY <1>4 DEF CommitToggle
  <2>3. CASE /\ Send(Request(o, "full", opArg[o].ib, {opArg[o].slot},
                             [opArg[o].base EXCEPT ![opArg[o].slot] = version + 1]))
             /\ opPC' = [opPC EXCEPT ![o] = "await"]
             /\ opArg' = [opArg EXCEPT ![o].next =
                            [opArg[o].base EXCEPT ![opArg[o].slot] = version + 1]]
    <3>1. PICK m : m = Request(o, "full", opArg[o].ib, {opArg[o].slot},
                              [opArg[o].base EXCEPT ![opArg[o].slot] = version + 1])
      OBVIOUS
    <3>2. Pushed(o)' = m /\ m.from = o
      BY <2>1, <2>3, <3>1 DEF Pushed, TypeOK, CallArgs, Request
    <3> QED
      BY <1>1, <2>1, <2>2, <2>3, <3>1, <3>2
  <2> QED
    BY <1>2, <1>4, <2>2, <2>3 DEF CommitToggle
<1>5. CASE PushDone(o)
  <2>1. \A m \in net : m.from # o
    <3>1. o \in answers /\ o # Absent
      BY <1>5, AbsentAssumption DEF PushDone
    <3> QED
      BY <3>1 DEF Asked
  <2> QED
    BY <1>5, <2>1, AskedEnds DEF PushDone
<1>6. CASE PushFailed(o)
  <2>1. \A m \in net : [m EXCEPT !.from = Absent].from = Absent
    BY DEF TypeOK, Requests
  <2>2. ASSUME NEW n \in net' PROVE (n \in net /\ n.from # o) \/ n.from = Absent
    BY <1>6, <2>1 DEF PushFailed, Abandon, Pending
  <2> QED
    BY <1>6, <2>2, AskedEnds DEF PushFailed
<1> QED
  BY <1>3, <1>4, <1>5, <1>6 DEF CallStep

LEMMA AskedStep ==
  ASSUME TypeOK, Asked, Intends, [Next]_vars
  PROVE  Asked' /\ Intends'
<1>1. CASE NodeStep
  <2>1. ASSUME NEW i, NEW s, NodeEdit(i, s) \/ NodeRemove(i)
        PROVE  Asked' /\ Intends'
    BY <2>1, AskedElse DEF NodeEdit, NodeRemove
  <2> QED
    BY <1>1, <2>1, AskedApply DEF NodeStep
<1>2. CASE Restart
  <2>1. \A m \in net : [m EXCEPT !.from = Absent].from = Absent
    BY DEF TypeOK, Requests
  <2>2. \A m \in net' : m.from = Absent
    BY <1>2, <2>1 DEF Restart, Abandon
  <2>3. answers' = {} /\ \A o \in Ops : opPC'[o] # "await"
    BY <1>2 DEF Restart
  <2> QED
    BY <2>2, <2>3 DEF Asked, Intends, Ops, Calls
<1>3. CASE UNCHANGED vars
  BY <1>3, AskedElse DEF vars
<1> QED
  BY <1>1, <1>2, <1>3, AskedAdmin, AskedCall, AskedTick DEF Next

-----------------------------------------------------------------------------
(* The reconcile works under a mark that is still set and no newer than the   *)
(* one in the row, because only the reconcile clears marks.                  *)
Clock == tick.pc = "read" \/ Begun => dirty /\ tick.at <= dirtyAt

(* What the master holds it has held, and so has it what it deleted.          *)
Known == /\ Present(central) \subseteq seen
         /\ \A i \in Inbounds : wish[i] = "gone" => i \in seen

(* The sweep is about inbounds the reconcile's read did not return.          *)
Sweeping == /\ tick.pc \in {"sweep", "sweepWait"} => tick.todo \cap Present(tick.plan) = {}
            /\ tick.pc = "sweepWait" => tick.plan[tick.cur] = Absent

(* Nothing clears a mark or takes one back, but the end of the reconcile.     *)
MarkStands == (dirty => dirty') /\ dirtyAt <= dirtyAt'

LEMMA MarkingStands == ASSUME TypeOK, MarkNodeDirty PROVE MarkStands /\ dirty'
  BY DEF TypeOK, MarkNodeDirty, MarkStands

LEMMA OthersMark ==
  ASSUME TypeOK, AdminStep \/ (\E o \in Ops : CallStep(o)) \/ NodeStep
  PROVE  MarkStands /\ tick' = tick
<1> USE DEF TypeOK
<1>1. CASE AdminStep
  <2>1. ASSUME NEW o, NEW i, NEW s, ReadClients(o, i, s) \/ ReadToggle(o, i, s)
        PROVE  MarkStands /\ tick' = tick
    BY <2>1 DEF ReadClients, ReadToggle, MarkStands
  <2>2. ASSUME NEW o, NEW i, NEW s, EditForm(o, i, s) \/ DelInbound(o, i)
        PROVE  MarkStands /\ tick' = tick
    BY <2>2, MarkingStands DEF EditForm, DelInbound
  <2>3. ASSUME NEW o, NEW i, AddInbound(o, i)
        PROVE  MarkStands /\ tick' = tick
    <3>1. CASE i \in Disabled
      BY <2>3, <3>1 DEF AddInbound, MarkStands
    <3>2. CASE i \notin Disabled
      BY <2>3, <3>2, MarkingStands DEF AddInbound
    <3> QED
      BY <3>1, <3>2
  <2> QED
    BY <1>1, <2>1, <2>2, <2>3 DEF AdminStep
<1>2. ASSUME NEW o \in Ops, CallStep(o) PROVE MarkStands /\ tick' = tick
  <2>1. CASE CommitClients(o) \/ CommitToggle(o)
    BY <2>1, MarkingStands DEF CommitClients, CommitToggle
  <2>2. CASE PushDone(o) \/ PushFailed(o)
    BY <2>2 DEF PushDone, PushFailed, MarkStands
  <2> QED
    BY <1>2, <2>1, <2>2 DEF CallStep
<1>3. CASE NodeStep
  BY <1>3 DEF NodeStep, NodeApply, NodeEdit, NodeRemove, MarkStands
<1> QED
  BY <1>1, <1>2, <1>3

LEMMA ClockStep ==
  ASSUME TypeOK, Clock, Sweeping, [Next]_vars
  PROVE  Clock' /\ Sweeping'
<1> USE DEF Clock, Sweeping, Begun, Becomes
<1>0. tick \in Ticks /\ dirtyAt \in Nat /\ dirty \in BOOLEAN
  BY DEF TypeOK
<1>1. CASE tick' = tick /\ MarkStands
  <2>1. dirtyAt' \in Nat
    BY TypeStep DEF TypeOK
  <2>2. Clock'
    BY <1>0, <1>1, <2>1 DEF MarkStands, Ticks
  <2>3. Sweeping'
    BY <1>1 DEF Present
  <2> QED
    BY <2>2, <2>3
<1>2. ASSUME tick'.pc \in {"idle", "fetch", "sample", "merge", "merging", "mark"}
      PROVE  Clock' /\ Sweeping'
  BY <1>2
<1>3. CASE TickStart
  <2>1. CASE dirty
    BY <1>0, <1>3, <2>1 DEF TickStart, IdleTick
  <2>2. CASE ~dirty
    BY <1>2, <1>3, <2>2 DEF TickStart, IdleTick
  <2> QED
    BY <2>1, <2>2
<1>4. CASE ReconcileRead
  BY <1>0, <1>4 DEF ReconcileRead, Ticks
<1>5. CASE ReconcileList
  <2>1. tick'.pc = "push" /\ tick'.at = tick.at
    BY <1>0, <1>5 DEF ReconcileList, Ticks
  <2> QED
    BY <1>5, <2>1 DEF ReconcileList
<1>6. CASE ReconcileSweep
  <2>1. /\ tick'.pc = "sweep" /\ tick'.at = tick.at /\ tick'.plan = tick.plan
        /\ tick'.todo \subseteq tick.listed \ Present(tick.plan)
    BY <1>0, <1>6 DEF ReconcileSweep, Ticks
  <2> QED
    BY <1>6, <2>1 DEF ReconcileSweep, Present
<1>7. ASSUME NEW i \in Inbounds, AdoptAlias(i) \/ ReconcileSkip(i) \/ ReconcilePush(i)
      PROVE  Clock' /\ Sweeping'
  BY <1>0, <1>7 DEF AdoptAlias, ReconcileSkip, ReconcilePush, Ticks
<1>8. ASSUME NEW i \in Inbounds, SweepDelete(i) \/ SweepSkipped(i)
      PROVE  Clock' /\ Sweeping'
  <2>1. /\ tick'.at = tick.at /\ tick'.plan = tick.plan /\ tick'.todo = tick.todo \ {i}
        /\ i \in tick.todo /\ tick.pc = "sweep"
        /\ \/ tick'.pc = "sweepWait" /\ tick'.cur = i
           \/ tick'.pc = "sweep"
        /\ UNCHANGED <<dirty, dirtyAt>>
    BY <1>0, <1>8 DEF SweepDelete, SweepSkipped, Ticks
  <2> QED
    BY <2>1 DEF Present
<1>9. CASE ReconcileAnswer \/ ReconcileFailed
  <2>1. /\ tick'.at = tick.at /\ tick'.plan = tick.plan /\ tick'.todo = tick.todo
        /\ tick'.pc = Resumed /\ tick.pc \in {"pushWait", "sweepWait"}
        /\ UNCHANGED <<dirty, dirtyAt>>
    <3>1. CASE ReconcileAnswer
      BY <1>0, <3>1 DEF ReconcileAnswer, Ticks
    <3>2. CASE ReconcileFailed
      BY <1>0, <3>2 DEF ReconcileFailed, Ticks
    <3> QED
      BY <1>9, <3>1, <3>2
  <2> QED
    BY <2>1 DEF Resumed, Present
<1>10. CASE \/ ListFailed \/ ClearNodeDirty \/ FetchSnapshot \/ FetchFailed \/ SampleDirty
            \/ MergeBegin \/ MergeCommit \/ MarkAdopted
  <2>1. CASE ListFailed \/ SampleDirty \/ MergeBegin
    BY <1>0, <1>2, <2>1 DEF ListFailed, SampleDirty, MergeBegin, Ticks
  <2>2. CASE ClearNodeDirty
    BY <1>2, <2>2 DEF ClearNodeDirty, IdleTick
  <2>3. CASE FetchSnapshot
    BY <1>2, <2>3 DEF FetchSnapshot, IdleTick
  <2>4. CASE FetchFailed \/ MarkAdopted
    BY <1>2, <2>4 DEF FetchFailed, MarkAdopted, IdleTick
  <2>5. CASE MergeCommit
    <3>1. tick'.pc = "mark"
      BY <2>5 DEF MergeCommit, IdleTick
    <3> QED
      BY <1>2, <3>1
  <2> QED
    BY <1>10, <2>1, <2>2, <2>3, <2>4, <2>5
<1>11. CASE TickStep
  BY <1>3, <1>4, <1>5, <1>6, <1>7, <1>8, <1>9, <1>10, <1>11 DEF TickStep
<1>12. CASE Restart
  BY <1>2, <1>12 DEF Restart, IdleTick
<1>13. CASE UNCHANGED vars
  BY <1>0, <1>1, <1>13 DEF vars, MarkStands
<1> QED
  BY <1>1, <1>11, <1>12, <1>13, OthersMark DEF Next

LEMMA KnownStep ==
  ASSUME TypeOK, Known, [Next]_vars
  PROVE  Known'
<1> USE DEF Known, Present, TypeOK
<1>1. ASSUME UNCHANGED <<central, wish, seen>> PROVE Known'
  BY <1>1
<1>2. ASSUME NEW i, i \in Inbounds, central[i] # Absent, NEW r,
             central' = [central EXCEPT ![i] = r], UNCHANGED <<wish, seen>>
      PROVE  Known'
  BY <1>2
<1>3. ASSUME NEW o \in Ops, CommitClients(o) \/ CommitToggle(o) PROVE Known'
  <2>1. opArg[o].ib \in Inbounds /\ UNCHANGED <<wish, seen>>
    BY <1>3 DEF CommitClients, CommitToggle
  <2>2. \/ central' = central
        \/ /\ central[opArg[o].ib] # Absent
           /\ central' = [central EXCEPT ![opArg[o].ib] =
                            [central[opArg[o].ib] EXCEPT ![opArg[o].slot] = version + 1]]
    BY <1>3 DEF CommitClients, CommitToggle
  <2> QED
    BY <1>1, <1>2, <2>1, <2>2
<1>4. ASSUME NEW o, NEW i \in Inbounds, NEW s, EditForm(o, i, s) PROVE Known'
  BY <1>4 DEF EditForm
<1>5. ASSUME NEW o, NEW i \in Inbounds, AddInbound(o, i) PROVE Known'
  <2>1. /\ central' = [central EXCEPT ![i] = Fresh(version + 1)]
        /\ wish' = [wish EXCEPT ![i] = "present"] /\ seen' = seen \cup {i}
    BY <1>5 DEF AddInbound
  <2>2. \A j \in Inbounds \ {i} : central'[j] = central[j] /\ wish'[j] = wish[j]
    BY <2>1
  <2>3. wish'[i] = "present"
    BY <2>1
  <2> QED
    BY <2>1, <2>2, <2>3
<1>6. ASSUME NEW o, NEW i \in Inbounds, DelInbound(o, i) PROVE Known'
  <2>1. /\ central' = [central EXCEPT ![i] = Absent] /\ i \in seen
        /\ wish' = [wish EXCEPT ![i] = "gone"] /\ seen' = seen
    BY <1>6 DEF DelInbound
  <2> QED
    BY <2>1
<1>7. ASSUME NEW i \in Inbounds, NodeRemove(i) PROVE Known'
  BY <1>7 DEF NodeRemove
<1>8. CASE MergeCommit
  BY <1>8 DEF MergeCommit
<1>9. CASE AdminStep
  BY <1>1, <1>4, <1>5, <1>6, <1>9 DEF AdminStep, ReadClients, ReadToggle
<1>10. ASSUME NEW o \in Ops, CallStep(o) PROVE Known'
  BY <1>1, <1>3, <1>10 DEF CallStep, PushDone, PushFailed
<1>11. CASE NodeStep
  BY <1>1, <1>7, <1>11 DEF NodeStep, NodeApply, NodeEdit
<1>12. CASE TickStep
  BY <1>1, <1>8, <1>12
  DEF TickStep, TickStart, ReconcileRead, ReconcileList, ReconcileSweep, AdoptAlias,
      ReconcileSkip, ReconcilePush, SweepDelete, SweepSkipped, ReconcileAnswer,
      ReconcileFailed, ListFailed, ClearNodeDirty, FetchSnapshot, FetchFailed,
      SampleDirty, MergeBegin, MarkAdopted
<1>13. CASE Restart
  BY <1>1, <1>13 DEF Restart
<1>14. CASE UNCHANGED vars
  BY <1>1, <1>14 DEF vars
<1> QED
  BY <1>9, <1>10, <1>11, <1>12, <1>13, <1>14 DEF Next

-----------------------------------------------------------------------------
(* No version anywhere is newer than the newest one handed out.              *)
Rows == Content \cup {Absent}

UpTo(x, n) == x # Absent => \A s \in Slots : x[s] <= n

Bounded == /\ \A i \in Inbounds : /\ UpTo(central[i], version) /\ UpTo(node[i], version)
                                  /\ UpTo(tick.snap[i], version)
                                  /\ UpTo(tick.plan[i], version)
           /\ \A o \in Ops : UpTo(opArg[o].base, version)
           /\ \A m \in net : UpTo(m.body, version)

LEMMA RowTypes ==
  ASSUME TypeOK
  PROVE  /\ \A i \in Inbounds : /\ central[i] \in Rows /\ node[i] \in Rows
                                /\ pushedFP[i] \in Rows /\ tick.snap[i] \in Rows
                                /\ tick.plan[i] \in Rows
         /\ \A o \in Ops : opArg[o].base \in Rows
         /\ \A m \in net : m.body \in Rows /\ m.ib \in Inbounds
  BY DEF TypeOK, Table, Ticks, CallArgs, Requests, Rows

LEMMA AbsentRow == Absent \notin Content
  BY AbsentAssumption DEF Content

LEMMA UpToMore ==
  ASSUME NEW x \in Rows, NEW n \in Nat, NEW k \in Nat, n <= k, UpTo(x, n)
  PROVE  UpTo(x, k)
  BY DEF UpTo, Rows, Content

LEMMA UpToFresh == ASSUME NEW n \in Nat PROVE UpTo(Fresh(n), n)
  BY DEF UpTo, Fresh

(* A row with one slot changed to the next version.                          *)
LEMMA UpToEdited ==
  ASSUME NEW x \in Content, NEW s \in Slots, NEW n \in Nat, UpTo(x, n)
  PROVE  /\ [x EXCEPT ![s] = n + 1] \in Content
         /\ UpTo([x EXCEPT ![s] = n + 1], n + 1)
  BY AbsentRow DEF UpTo, Content

(* The next rows are old ones, or new versions.                              *)
LEMMA BoundedRows ==
  ASSUME TypeOK, Bounded, version' \in Nat, version <= version',
         \A i \in Inbounds :
           /\ UpTo(central'[i], version') \/ central'[i] = central[i]
           /\ UpTo(node'[i], version') \/ node'[i] = node[i]
           /\ tick'.snap[i] \in {Absent, node[i], tick.snap[i]}
           /\ tick'.plan[i] \in {Absent, central[i], tick.plan[i]},
         \A o \in Ops : opArg'[o].base \in {Absent, opArg[o].base}
                                             \cup {central[i] : i \in Inbounds},
         \A m \in net' : \/ UpTo(m.body, version')
                         \/ \E n \in net : m.body = n.body
  PROVE  Bounded'
<1>1. version \in Nat
  BY DEF TypeOK
<1>2. \A x \in Rows : UpTo(x, version) => UpTo(x, version')
  BY <1>1, UpToMore
<1>3. /\ \A i \in Inbounds : /\ UpTo(central[i], version') /\ UpTo(node[i], version')
                             /\ UpTo(tick.snap[i], version') /\ UpTo(tick.plan[i], version')
      /\ \A o \in Ops : UpTo(opArg[o].base, version')
      /\ \A m \in net : UpTo(m.body, version')
  BY <1>2, RowTypes DEF Bounded
<1>4. UpTo(Absent, version')
  BY DEF UpTo
<1>5. \A i \in Inbounds : /\ UpTo(central'[i], version') /\ UpTo(node'[i], version')
                          /\ UpTo(tick'.snap[i], version') /\ UpTo(tick'.plan[i], version')
  BY <1>3, <1>4
<1>6. \A o \in Ops : UpTo(opArg'[o].base, version')
  BY <1>3, <1>4
<1>7. \A m \in net' : UpTo(m.body, version')
  BY <1>3
<1> QED
  BY <1>5, <1>6, <1>7 DEF Bounded

LEMMA BoundedAdmin ==
  ASSUME TypeOK, Bounded, AdminStep
  PROVE  Bounded'
<1>0. version \in Nat
  BY DEF TypeOK
<1>1. ASSUME NEW o, NEW i \in Inbounds, NEW s,
             ReadClients(o, i, s) \/ ReadToggle(o, i, s)
      PROVE  Bounded'
  <2>1. /\ UNCHANGED <<central, node, tick, net, version>>
        /\ \A p \in Ops : opArg'[p].base \in {opArg[p].base, central[i]}
    BY <1>1 DEF ReadClients, ReadToggle, TypeOK
  <2> QED
    BY <1>0, <2>1, BoundedRows
<1>2. ASSUME NEW o, NEW i \in Inbounds, NEW s \in Slots, EditForm(o, i, s)
      PROVE  Bounded'
  <2>1. /\ UNCHANGED <<node, tick, net, opArg>> /\ version' = version + 1
        /\ central' = [central EXCEPT ![i][s] = version + 1] /\ central[i] # Absent
    BY <1>2 DEF EditForm
  <2>2. central[i] \in Content /\ UpTo(central[i], version)
    BY <2>1, RowTypes DEF Rows, Bounded
  <2>3. UpTo(central'[i], version')
    BY <1>0, <2>1, <2>2, UpToEdited DEF TypeOK, Table
  <2>4. \A j \in Inbounds \ {i} : central'[j] = central[j]
    BY <2>1 DEF TypeOK, Table
  <2> QED
    BY <1>0, <2>1, <2>3, <2>4, BoundedRows
<1>3. ASSUME NEW o, NEW i \in Inbounds, AddInbound(o, i)
      PROVE  Bounded'
  <2>1. /\ UNCHANGED <<node, tick, net, opArg>> /\ version' = version + 1
        /\ central' = [central EXCEPT ![i] = Fresh(version + 1)]
    BY <1>3 DEF AddInbound
  <2>2. version + 1 \in Nat /\ version <= version + 1
    BY <1>0
  <2>3. UpTo(central'[i], version')
    BY <2>1, <2>2, UpToFresh DEF TypeOK, Table
  <2>4. \A j \in Inbounds \ {i} : central'[j] = central[j]
    BY <2>1 DEF TypeOK, Table
  <2> QED
    BY <2>1, <2>2, <2>3, <2>4, BoundedRows
<1>4. ASSUME NEW o, NEW i \in Inbounds, DelInbound(o, i)
      PROVE  Bounded'
  <2>1. /\ UNCHANGED <<node, tick, version>>
        /\ central' = [central EXCEPT ![i] = Absent]
        /\ \/ net' = net \cup {Request(o, "del", i, {}, Absent)}
           \/ net' = net
    BY <1>4 DEF DelInbound, Send
  <2>2. \A p \in Ops : opArg'[p].base = opArg[p].base
    BY <1>4 DEF DelInbound, TypeOK, CallArgs
  <2>3. \A j \in Inbounds : UpTo(central'[j], version') \/ central'[j] = central[j]
    BY <2>1 DEF TypeOK, Table, UpTo
  <2>4. UpTo(Request(o, "del", i, {}, Absent).body, version')
    BY DEF UpTo, Request
  <2> QED
    BY <1>0, <2>1, <2>2, <2>3, <2>4, BoundedRows
<1> QED
  BY <1>1, <1>2, <1>3, <1>4 DEF AdminStep

LEMMA BoundedCall ==
  ASSUME TypeOK, Bounded, NEW o \in Ops, CallStep(o)
  PROVE  Bounded'
<1> DEFINE i == opArg[o].ib
           s == opArg[o].slot
           pushed == [opArg[o].base EXCEPT ![s] = version + 1]
<1>0. version \in Nat
  BY DEF TypeOK
<1>1. CASE CommitClients(o) \/ CommitToggle(o)
  <2>1. /\ UNCHANGED <<node, tick>> /\ version' = version + 1
        /\ opPC[o] = "read"
        /\ \/ central' = central
           \/ central[i] # Absent /\ central' = [central EXCEPT ![i][s] = version + 1]
        /\ \/ net' = net
           \/ \E kind : net' = net \cup {Request(o, kind, i, {s}, pushed)}
    BY <1>1 DEF CommitClients, CommitToggle, Send
  <2>2. i \in Inbounds /\ s \in Slots /\ opArg[o].base \in Content
    BY <2>1 DEF TypeOK
  <2>3. central[i] # Absent => UpTo([central[i] EXCEPT ![s] = version + 1], version')
    <3>1. SUFFICES ASSUME central[i] # Absent
                   PROVE  UpTo([central[i] EXCEPT ![s] = version + 1], version')
      OBVIOUS
    <3>2. central[i] \in Content /\ UpTo(central[i], version)
      BY <2>2, <3>1, RowTypes DEF Rows, Bounded
    <3> QED
      BY <1>0, <2>1, <2>2, <3>2, UpToEdited
  <2>4. UpTo(pushed, version')
    BY <1>0, <2>1, <2>2, UpToEdited DEF Bounded
  <2>5. \A j \in Inbounds : UpTo(central'[j], version') \/ central'[j] = central[j]
    BY <2>1, <2>2, <2>3 DEF TypeOK, Table
  <2>6. \A p \in Ops : opArg'[p].base \in {Absent, opArg[p].base}
    <3>1. CASE opArg' = [opArg EXCEPT ![o].next = pushed]
      BY <3>1 DEF TypeOK, CallArgs
    <3>2. CASE opArg' = [opArg EXCEPT ![o] = NoArg]
      BY <3>2 DEF TypeOK, CallArgs, NoArg
    <3> QED
      BY <1>1, <3>1, <3>2 DEF CommitClients, CommitToggle
  <2>7. \A m \in net' : UpTo(m.body, version') \/ \E n \in net : m.body = n.body
    BY <2>1, <2>4 DEF Request
  <2> QED
    BY <1>0, <2>1, <2>5, <2>6, <2>7, BoundedRows
<1>2. CASE PushDone(o) \/ PushFailed(o)
  <2>1. /\ UNCHANGED <<central, node, tick, version>>
        /\ \A p \in Ops : opArg'[p].base \in {Absent, opArg[p].base}
    BY <1>2 DEF PushDone, PushFailed, TypeOK, CallArgs, NoArg
  <2>2. \A m \in net : [m EXCEPT !.from = Absent].body = m.body
    BY DEF TypeOK, Requests
  <2>3. \A m \in net' : \E n \in net : m.body = n.body
    <3>1. CASE PushDone(o)
      BY <3>1 DEF PushDone
    <3>2. CASE PushFailed(o)
      <4>1. \A m \in net' : \/ m \in net
                            \/ \E n \in net : m = [n EXCEPT !.from = Absent]
        BY <3>2 DEF PushFailed, Abandon, Pending
      <4> QED
        BY <2>2, <4>1
    <3> QED
      BY <1>2, <3>1, <3>2
  <2> QED
    BY <1>0, <2>1, <2>3, BoundedRows
<1> QED
  BY <1>1, <1>2 DEF CallStep

LEMMA BoundedNode ==
  ASSUME TypeOK, Bounded, NodeStep
  PROVE  Bounded'
<1>0. version \in Nat /\ \A i \in Inbounds : node[i] \in Rows
  BY RowTypes DEF TypeOK
<1>1. ASSUME NEW m \in net, NodeApply(m) PROVE Bounded'
  <2>1. /\ UNCHANGED <<central, tick, opArg, version>> /\ net' \subseteq net
        /\ node' = Applied(m)
    BY <1>1 DEF NodeApply
  <2>2. m.ib \in Inbounds /\ UpTo(m.body, version) /\ UpTo(Absent, version)
    BY RowTypes DEF Bounded, UpTo
  <2>3. ASSUME NEW i \in Inbounds PROVE UpTo(node'[i], version')
    <3>1. UpTo(node[i], version)
      BY DEF Bounded
    <3>2. CASE m.kind = "full" /\ i = m.ib
      BY <2>1, <2>2, <3>2 DEF Applied, TypeOK, Table
    <3>3. CASE m.kind = "del" /\ i = m.ib
      BY <2>1, <2>2, <3>3 DEF Applied, TypeOK, Table
    <3>4. CASE m.kind = "slots" /\ i = m.ib /\ node[i] # Absent
      <4>1. /\ m.body # Absent /\ node[i] # Absent
            /\ \A s \in Slots : m.body[s] <= version /\ node[i][s] <= version
        BY <2>2, <3>1, <3>4, AbsentRow DEF UpTo, TypeOK, Requests
      <4>2. node'[i] = [s \in Slots |-> IF s \in m.slots THEN m.body[s] ELSE node[i][s]]
        BY <2>1, <3>4 DEF Applied, TypeOK, Table
      <4> QED
        BY <2>1, <4>1, <4>2 DEF UpTo
    <3>5. CASE i # m.ib \/ (m.kind = "slots" /\ node[i] = Absent)
      BY <2>1, <3>1, <3>5 DEF Applied, TypeOK, Table, Requests
    <3> QED
      BY <3>2, <3>3, <3>4, <3>5 DEF TypeOK, Requests
  <2> QED
    BY <1>0, <2>1, <2>3, BoundedRows
<1>2. ASSUME NEW i \in Inbounds, NEW s \in Slots, NodeEdit(i, s) PROVE Bounded'
  <2>1. /\ UNCHANGED <<central, tick, net, opArg>> /\ version' = version + 1
        /\ node' = [node EXCEPT ![i][s] = version + 1] /\ node[i] # Absent
    BY <1>2 DEF NodeEdit
  <2>2. node[i] \in Content /\ UpTo(node[i], version)
    BY <2>1, RowTypes DEF Rows, Bounded
  <2>3. UpTo(node'[i], version')
    BY <1>0, <2>1, <2>2, UpToEdited DEF TypeOK, Table
  <2>4. \A j \in Inbounds \ {i} : node'[j] = node[j]
    BY <2>1 DEF TypeOK, Table
  <2> QED
    BY <1>0, <2>1, <2>3, <2>4, BoundedRows
<1>3. ASSUME NEW i \in Inbounds, NodeRemove(i) PROVE Bounded'
  <2>1. /\ UNCHANGED <<central, tick, net, opArg, version>>
        /\ node' = [node EXCEPT ![i] = Absent]
    BY <1>3 DEF NodeRemove
  <2>2. \A j \in Inbounds : UpTo(node'[j], version') \/ node'[j] = node[j]
    BY <2>1 DEF TypeOK, Table, UpTo
  <2> QED
    BY <1>0, <2>1, <2>2, BoundedRows
<1> QED
  BY <1>1, <1>2, <1>3 DEF NodeStep

(* What a tick step leaves of the tables it carries.                         *)
LEMMA TickCarries ==
  ASSUME TypeOK, TickStep, NEW i \in Inbounds
  PROVE  /\ tick'.snap[i] \in {Absent, node[i], tick.snap[i]}
         /\ tick'.plan[i] \in {Absent, central[i], tick.plan[i]}
<1> USE DEF Becomes
<1>0. tick \in Ticks
  BY DEF TypeOK
<1>1. CASE TickStart
  <2>1. tick'.snap[i] = Absent /\ tick'.plan[i] = Absent
    BY <1>1 DEF TickStart, IdleTick
  <2> QED
    BY <2>1
<1>2. CASE \/ FetchSnapshot \/ FetchFailed \/ MergeCommit \/ MarkAdopted \/ ClearNodeDirty
  <2>1. tick'.snap[i] \in {Absent, node[i]} /\ tick'.plan[i] = Absent
    <3>1. CASE FetchSnapshot
      BY <3>1 DEF FetchSnapshot, IdleTick
    <3>2. CASE FetchFailed \/ MarkAdopted
      BY <3>2 DEF FetchFailed, MarkAdopted, IdleTick
    <3>3. CASE ClearNodeDirty
      BY <3>3 DEF ClearNodeDirty, IdleTick
    <3>4. CASE MergeCommit
      <4>1. tick' = [IdleTick EXCEPT !.pc = "mark", !.adopted = tick.adopted,
                                     !.dirty = tick.dirty]
        BY <3>4 DEF MergeCommit
      <4> QED
        BY <4>1 DEF IdleTick
    <3> QED
      BY <1>2, <3>1, <3>2, <3>3, <3>4
  <2> QED
    BY <2>1
<1>3. CASE ReconcileRead \/ ReconcileList \/ ReconcileSweep
  <2>1. tick'.snap = tick.snap /\ tick'.plan \in {central, tick.plan}
    <3>1. CASE ReconcileRead
      BY <1>0, <3>1 DEF ReconcileRead, Ticks
    <3>2. CASE ReconcileList
      BY <1>0, <3>2 DEF ReconcileList, Ticks
    <3>3. CASE ReconcileSweep
      BY <1>0, <3>3 DEF ReconcileSweep, Ticks
    <3> QED
      BY <1>3, <3>1, <3>2, <3>3
  <2> QED
    BY <2>1
<1>4. CASE ReconcileAnswer \/ ReconcileFailed \/ ListFailed \/ SampleDirty \/ MergeBegin
  <2>1. tick'.snap = tick.snap /\ tick'.plan = tick.plan
    BY <1>0, <1>4 DEF ReconcileAnswer, ReconcileFailed, ListFailed, SampleDirty,
       MergeBegin, Ticks
  <2> QED
    BY <2>1
<1>5. ASSUME NEW j \in Inbounds, AdoptAlias(j) \/ ReconcileSkip(j) \/ ReconcilePush(j)
                                 \/ SweepDelete(j) \/ SweepSkipped(j)
      PROVE  tick'.snap = tick.snap /\ tick'.plan = tick.plan
  BY <1>0, <1>5 DEF AdoptAlias, ReconcileSkip, ReconcilePush, SweepDelete, SweepSkipped,
     Ticks
<1> QED
  BY <1>1, <1>2, <1>3, <1>4, <1>5 DEF TickStep

LEMMA BoundedStep ==
  ASSUME TypeOK, Bounded, [Next]_vars
  PROVE  Bounded'
<1>0. version \in Nat /\ UpTo(Absent, version)
  BY DEF TypeOK, UpTo
<1>1. CASE TickStep
  <2>1. UNCHANGED <<node, version, opArg>>
    BY <1>1
    DEF TickStep, TickStart, ReconcileRead, ReconcileList, ReconcileSweep, AdoptAlias,
        ReconcileSkip, ReconcilePush, SweepDelete, SweepSkipped, ReconcileAnswer,
        ReconcileFailed, ListFailed, ClearNodeDirty, FetchSnapshot, FetchFailed,
        SampleDirty, MergeBegin, MergeCommit, MarkAdopted
  <2>2. \A i \in Inbounds : UpTo(central'[i], version')
    <3>1. \A i \in Inbounds : central'[i] \in {Absent, central[i], tick.snap[i]}
      <4>1. CASE MergeCommit
        BY <4>1 DEF MergeCommit, Adopted
      <4>2. CASE ~MergeCommit
        BY <1>1, <4>2
        DEF TickStep, TickStart, ReconcileRead, ReconcileList, ReconcileSweep, AdoptAlias,
            ReconcileSkip, ReconcilePush, SweepDelete, SweepSkipped, ReconcileAnswer,
            ReconcileFailed, ListFailed, ClearNodeDirty, FetchSnapshot, FetchFailed,
            SampleDirty, MergeBegin, MarkAdopted
      <4> QED
        BY <4>1, <4>2
    <3> QED
      BY <1>0, <2>1, <3>1 DEF Bounded
  <2>3. \A m \in net' : UpTo(m.body, version') \/ \E n \in net : m.body = n.body
    <3>1. \A m \in net : [m EXCEPT !.from = Absent].body = m.body
      BY DEF TypeOK, Requests
    <3>2. ASSUME NEW i \in Inbounds, ReconcilePush(i) \/ SweepDelete(i), NEW m \in net'
          PROVE  m \in net \/ m.body \in {Absent, tick.plan[i]}
      BY <3>2 DEF ReconcilePush, SweepDelete, Send, Request
    <3>3. ASSUME ReconcileFailed, NEW m \in net'
          PROVE  m \in net \/ \E n \in net : m = [n EXCEPT !.from = Absent]
      BY <3>3 DEF ReconcileFailed, Abandon, Pending
    <3>4. \/ net' = net
          \/ ReconcileFailed
          \/ \E i \in Inbounds : ReconcilePush(i) \/ SweepDelete(i)
      BY <1>1
      DEF TickStep, TickStart, ReconcileRead, ReconcileList, ReconcileSweep, AdoptAlias,
          ReconcileSkip, SweepSkipped, ReconcileAnswer, ListFailed, ClearNodeDirty,
          FetchSnapshot, FetchFailed, SampleDirty, MergeBegin, MergeCommit, MarkAdopted
    <3>5. \A i \in Inbounds : UpTo(tick.plan[i], version')
      BY <2>1 DEF Bounded
    <3> QED
      BY <1>0, <2>1, <3>1, <3>2, <3>3, <3>4, <3>5
  <2> QED
    BY <1>0, <1>1, <2>1, <2>2, <2>3, BoundedRows, TickCarries
<1>2. CASE Restart
  <2>1. /\ UNCHANGED <<central, node, version>>
        /\ \A i \in Inbounds : tick'.snap[i] = Absent /\ tick'.plan[i] = Absent
        /\ \A o \in Ops : opArg'[o].base = Absent
    BY <1>2 DEF Restart, IdleTick, NoArg
  <2>2. \A m \in net : [m EXCEPT !.from = Absent].body = m.body
    BY DEF TypeOK, Requests
  <2>3. \A m \in net' : \/ m \in net
                        \/ \E n \in net : m = [n EXCEPT !.from = Absent]
    BY <1>2 DEF Restart, Abandon
  <2>4. \A m \in net' : \E n \in net : m.body = n.body
    BY <2>2, <2>3
  <2>5. \A o \in Ops : opArg'[o].base \in {Absent, opArg[o].base}
    BY <2>1
  <2>6. \A i \in Inbounds : /\ tick'.snap[i] \in {Absent, node[i], tick.snap[i]}
                           /\ tick'.plan[i] \in {Absent, central[i], tick.plan[i]}
    BY <2>1
  <2> QED
    BY <1>0, <2>1, <2>4, <2>5, <2>6, BoundedRows
<1>3. CASE UNCHANGED vars
  BY <1>3 DEF vars, Bounded
<1> QED
  BY <1>1, <1>2, <1>3, BoundedAdmin, BoundedCall, BoundedNode DEF Next

(* What holds of the books whichever races have happened.                    *)
Books == TypeOK /\ Asked /\ Intends /\ Clock /\ Sweeping /\ Known /\ Bounded

LEMMA BooksStep == Books /\ [Next]_vars => Books'
  BY TypeStep, AskedStep, ClockStep, KnownStep, BoundedStep DEF Books

LEMMA BooksInit == Init => Books
<1> SUFFICES ASSUME Init PROVE Books
  OBVIOUS
<1>1. TypeOK /\ Asked /\ Intends
  BY TypeInit, AskedInit
<1>2. Clock /\ Sweeping
  BY DEF Init, IdleTick, Clock, Begun, Sweeping
<1>3. Known
  BY ImportedAssumption DEF Init, Known, Present
<1>4. Bounded
  <2>1. UpTo(Fresh(1), 1) /\ UpTo(Absent, 1)
    BY DEF UpTo, Fresh
  <2>2. \A i \in Inbounds : central[i] \in {Absent, Fresh(1)} /\ node[i] \in {Absent, Fresh(1)}
                            /\ tick.snap[i] = Absent /\ tick.plan[i] = Absent
    BY DEF Init, IdleTick
  <2>3. net = {} /\ version = 1 /\ \A o \in Ops : opArg[o].base = Absent
    BY DEF Init, NoArg
  <2> QED
    BY <2>1, <2>2, <2>3 DEF Bounded
<1> QED
  BY <1>1, <1>2, <1>3, <1>4 DEF Books

(* A race that has happened at an inbound is not forgotten.                   *)
LEMMA CrossedGrows == [Next]_vars => crossed \subseteq crossed'
<1> SUFFICES ASSUME [Next]_vars PROVE crossed \subseteq crossed'
  OBVIOUS
<1>1. ASSUME NEW o, NEW i, NEW s,
             \/ ReadClients(o, i, s) \/ EditForm(o, i, s) \/ ReadToggle(o, i, s)
             \/ AddInbound(o, i) \/ DelInbound(o, i)
      PROVE  crossed \subseteq crossed'
  <2>1. CASE AddInbound(o, i)
    BY <2>1 DEF AddInbound
  <2> QED
    BY <1>1, <2>1 DEF ReadClients, EditForm, ReadToggle, DelInbound
<1>2. CASE \E o \in Ops : CallStep(o)
  BY <1>2 DEF CallStep, CommitClients, CommitToggle, PushDone, PushFailed
<1>3. CASE TickStep
  BY <1>3
  DEF TickStep, TickStart, ReconcileRead, ReconcileList, ReconcileSweep, AdoptAlias,
      ReconcileSkip, ReconcilePush, SweepDelete, SweepSkipped, ReconcileAnswer,
      ReconcileFailed, ListFailed, ClearNodeDirty, FetchSnapshot, FetchFailed,
      SampleDirty, MergeBegin, MergeCommit, MarkAdopted
<1>4. CASE NodeStep \/ Restart
  BY <1>4 DEF NodeStep, NodeApply, NodeEdit, NodeRemove, Restart
<1>5. CASE UNCHANGED vars
  BY <1>5 DEF vars
<1> QED
  BY <1>1, <1>2, <1>3, <1>4, <1>5 DEF Next, AdminStep

-----------------------------------------------------------------------------
(* What holds at an inbound at which no race has happened.                   *)
NotOlder(x, y) == x # Absent /\ y # Absent => \A s \in Slots : x[s] >= y[s]

Merging == {"sample", "merge", "merging"}
Working == {"push", "pushWait", "sweep", "sweepWait"}

\* The report will be taken over as it is, if nothing happens before the merge.
Trusted == tick.pc \in Merging /\ (~dirty \/ (tick.pc = "merging" /\ ~tick.frozen))

\* Inbounds the reconcile has yet to bring to the node, or to have confirmed.
Open == IF tick.pc = "push" THEN tick.todo
        ELSE IF tick.pc = "pushWait" THEN tick.todo \cup {tick.cur} ELSE {}

\* The tick's request at i has been answered and the answer not yet read.
Answered(pc, i) == tick.pc = pc /\ tick.cur = i /\ Tick \in answers

(* The node holds what a fingerprint, or an answered call, says it holds.     *)
PrintHeld(i) == NotOlder(node[i], pushedFP[i])

CallsHeld(i) ==
  \A o \in Calls \cap answers :
    opArg[o].ib = i /\ node[i] # Absent
      => \A s \in Delivered(o) : node[i][s] >= opArg[o].next[s]

(* The master's row follows the last word on the inbound's existence.        *)
LastWord(i) == /\ wish[i] = "present" => central[i] # Absent
               /\ wish[i] = "gone" => central[i] = Absent

(* A clean node holds what the master holds, or a newer payload.             *)
CleanHeld(i) ==
  ~dirty => /\ NotOlder(node[i], central[i])
            /\ wish[i] = "gone" => node[i] = Absent
            /\ wish[i] = "present" => node[i] # Absent \/ i \in Disabled

(* While the mark the reconcile has loaded stands, what it has read does.     *)
PlanStands(i) ==
  Begun /\ dirtyAt = tick.at
    => \/ central[i] = tick.plan[i]
       \/ i \in Disabled /\ tick.plan[i] = Absent /\ node[i] = Absent

(* An inbound the reconcile has dealt with is on the node as it was read...   *)
Settled(i) == tick.pc \in Working /\ ~tick.failed /\ i \notin Open

PlanHeld(i) == Settled(i) \/ Answered("pushWait", i) => NotOlder(node[i], tick.plan[i])

StillThere(i) ==
  /\ tick.pc \in Working /\ dirtyAt = tick.at
  /\ wish[i] = "present" /\ tick.plan[i] # Absent
  /\ i \in tick.listed \/ Settled(i) \/ Answered("pushWait", i)
  => node[i] # Absent

(* ...and one it did not find there has never been listed, or is swept away.  *)
Swept(i) == /\ tick.pc \in {"sweep", "sweepWait"} /\ ~tick.failed
            /\ i \notin tick.todo /\ ~(tick.pc = "sweepWait" /\ tick.cur = i)

SweptAway(i) ==
  tick.pc \in Working /\ tick.plan[i] = Absent
    => /\ i \notin tick.listed => node[i] = Absent
       /\ Swept(i) \/ Answered("sweepWait", i)
            => node[i] = Absent \/ i \notin seen \/ dirtyAt # tick.at

(* The node holds what it has reported, and a report to be taken over says    *)
(* all that the master knows.                                                *)
ReportHeld(i) == tick.pc \in Merging => NotOlder(node[i], tick.snap[i])

ReportFull(i) ==
  Trusted => /\ NotOlder(tick.snap[i], central[i])
             /\ wish[i] = "gone" => tick.snap[i] = Absent
             /\ wish[i] = "present" => tick.snap[i] # Absent \/ i \in Disabled

AtRest(i) == PrintHeld(i) /\ CallsHeld(i) /\ LastWord(i) /\ CleanHeld(i)
InReconcile(i) == PlanStands(i) /\ PlanHeld(i) /\ StillThere(i) /\ SweptAway(i)
InMerge(i) == ReportHeld(i) /\ ReportFull(i)

Sound(i) == AtRest(i) /\ InReconcile(i) /\ InMerge(i)

LEMMA OlderSame == ASSUME NEW x \in Rows PROVE NotOlder(x, x)
  BY DEF NotOlder, Rows, Content

LEMMA OlderThrough ==
  ASSUME NEW x \in Rows, NEW y \in Rows, NEW z \in Rows, y # Absent,
         NotOlder(x, y), NotOlder(y, z)
  PROVE  NotOlder(x, z)
  BY DEF NotOlder, Rows, Content

LEMMA OlderNot ==
  ASSUME NEW x \in Rows, NEW y \in Rows, ~Older(x, y)
  PROVE  NotOlder(x, y)
  BY DEF NotOlder, Older, Rows, Content

(* The node's inbound stays as it is or gets newer.                          *)
Grows(i) == \/ node'[i] = node[i]
            \/ node[i] # Absent /\ node'[i] # Absent /\ NotOlder(node'[i], node[i])

LEMMA GrownHolds ==
  ASSUME NEW i, NEW x, node[i] \in Rows, node'[i] \in Rows, x \in Rows,
         Grows(i), NotOlder(node[i], x)
  PROVE  NotOlder(node'[i], x)
  BY OlderThrough DEF Grows

(* What is the same at i: all but the node's copy and the fingerprint.        *)
SameAt(i) == /\ central'[i] = central[i] /\ wish'[i] = wish[i]
             /\ i \in seen' <=> i \in seen

(* No reply came in to what the tick asks about i.                           *)
TickUnanswered(i) == tick.cur = i /\ Tick \in answers' => Tick \in answers

LEMMA SoundGrows ==
  ASSUME Books, Books', NEW i \in Inbounds, Sound(i), SameAt(i), Grows(i), tick' = tick,
         MarkStands, TickUnanswered(i), PrintHeld(i)', CallsHeld(i)'
  PROVE  Sound(i)'
<1>1. /\ node[i] \in Rows /\ node'[i] \in Rows /\ central[i] \in Rows
      /\ tick.plan[i] \in Rows /\ tick.snap[i] \in Rows
      /\ tick.at \in Nat /\ dirtyAt \in Nat /\ dirtyAt' \in Nat
      /\ dirty \in BOOLEAN /\ dirty' \in BOOLEAN
  BY RowTypes DEF Books, TypeOK, Ticks, Rows, Table
<1>2. Begun /\ dirtyAt' = tick.at => dirtyAt = tick.at
  BY <1>1 DEF Books, Clock, MarkStands
<1>3. tick.pc \in Working => Begun
  BY DEF Working, Begun
<1>4. node'[i] = Absent <=> node[i] = Absent
  BY DEF Grows
<1>5. \A pc : Answered(pc, i)' => Answered(pc, i)
  BY DEF Answered, TickUnanswered
<1>6. Settled(i)' = Settled(i) /\ Swept(i)' = Swept(i) /\ (Trusted' => Trusted)
  BY DEF Settled, Swept, Trusted, Open, MarkStands
<1>7. LastWord(i)'
  BY DEF Sound, AtRest, LastWord, SameAt
<1>8. CleanHeld(i)'
  BY <1>1, <1>4, GrownHolds DEF Sound, AtRest, CleanHeld, SameAt, MarkStands
<1>9. PlanStands(i)'
  BY <1>2, <1>4 DEF Sound, InReconcile, PlanStands, SameAt, Begun
<1>10. PlanHeld(i)'
  BY <1>1, <1>5, <1>6, GrownHolds DEF Sound, InReconcile, PlanHeld
<1>11. StillThere(i)'
  BY <1>2, <1>3, <1>4, <1>5, <1>6 DEF Sound, InReconcile, StillThere, SameAt
<1>12. SweptAway(i)'
  BY <1>2, <1>3, <1>4, <1>5, <1>6 DEF Sound, InReconcile, SweptAway, SameAt
<1>13. ReportHeld(i)'
  BY <1>1, GrownHolds DEF Sound, InMerge, ReportHeld
<1>14. ReportFull(i)'
  BY <1>6 DEF Sound, InMerge, ReportFull, SameAt
<1> QED
  BY <1>7, <1>8, <1>9, <1>10, <1>11, <1>12, <1>13, <1>14
  DEF Sound, AtRest, InReconcile, InMerge

(* The node's inbound goes away: nobody wants it, or a reconcile that has not *)
(* read it is under way.                                                     *)
LEMMA SoundGone ==
  ASSUME Books, NEW i \in Inbounds, Sound(i), node'[i] = Absent,
         UNCHANGED <<central, pushedFP, seen, dirty, dirtyAt, tick>>,
         wish'[i] = wish[i] \/ wish'[i] = "free",
         wish'[i] = "present" => Begun /\ tick.plan[i] = Absent
  PROVE  Sound(i)'
<1>1. /\ tick.pc \in Working => Begun
      /\ Begun => dirty
  BY DEF Working, Begun, Books, Clock
<1>2. AtRest(i)'
  BY <1>1 DEF Sound, AtRest, PrintHeld, CallsHeld, LastWord, CleanHeld, NotOlder
<1>3. PlanStands(i)'
  BY DEF Sound, InReconcile, PlanStands, Begun
<1>4. PlanHeld(i)'
  BY DEF PlanHeld, NotOlder
<1>5. StillThere(i)'
  BY DEF StillThere
<1>6. SweptAway(i)'
  BY DEF SweptAway
<1>7. ReportHeld(i)'
  BY DEF ReportHeld, NotOlder
<1>8. ReportFull(i)'
  <2>1. Trusted' => Trusted
    BY DEF Trusted
  <2>2. wish'[i] = "present" => ~Trusted
    BY DEF Begun, Trusted, Merging
  <2> QED
    BY <2>1, <2>2 DEF Sound, InMerge, ReportFull
<1> QED
  BY <1>2, <1>3, <1>4, <1>5, <1>6, <1>7, <1>8 DEF Sound, InReconcile, InMerge

(* The reconcile's full push arrives, in turn.                               *)
LEMMA SoundDelivered ==
  ASSUME Books, NEW i \in Inbounds, Sound(i), tick.pc = "pushWait",
         tick.plan[i] # Absent, node'[i] = tick.plan[i],
         UNCHANGED <<central, pushedFP, seen, dirty, dirtyAt, tick, wish>>,
         ~Older(tick.plan[i], pushedFP[i]), CallsHeld(i)'
  PROVE  Sound(i)'
<1>1. Begun /\ dirty /\ tick.plan[i] \in Rows /\ pushedFP[i] \in Rows
  BY RowTypes DEF Begun, Books, Clock
<1>2. AtRest(i)'
  <2>1. PrintHeld(i)'
    BY <1>1, OlderNot DEF PrintHeld
  <2> QED
    BY <1>1, <2>1 DEF Sound, AtRest, LastWord, CleanHeld
<1>3. PlanStands(i)'
  BY DEF Sound, InReconcile, PlanStands, Begun
<1>4. PlanHeld(i)'
  BY <1>1, OlderSame DEF PlanHeld
<1>5. StillThere(i)' /\ SweptAway(i)'
  BY DEF StillThere, SweptAway
<1>6. InMerge(i)'
  BY DEF InMerge, ReportHeld, ReportFull, Merging, Trusted
<1> QED
  BY <1>2, <1>3, <1>4, <1>5, <1>6 DEF Sound, InReconcile

LEMMA SoundApply ==
  ASSUME Books, Books', NEW m \in net, NodeApply(m), NEW i \in Inbounds \ crossed', Sound(i)
  PROVE  Sound(i)'
<1> USE DEF Books
<1>0. /\ node' = Applied(m) /\ answers' = answers \cup ({m.from} \ {Absent})
      /\ UNCHANGED <<central, pushedFP, seen, dirty, dirtyAt, tick, wish, opArg, opPC>>
      /\ MarkStands /\ SameAt(i)
  BY DEF NodeApply, MarkStands, SameAt, TypeOK
<1>1. m \in Requests /\ m.ib \in Inbounds
  BY RowTypes DEF TypeOK
<1>2. \/ m.from = Absent
      \/ m.from = Tick /\ TickAsks(m)
      \/ m.from \in Ops /\ m.from # Tick /\ CallAsks(m)
  BY OpsAssumption DEF Asked, TickAsks, CallAsks, Request, Ops, Calls
<1>3. CASE i # m.ib
  <2>1. node'[i] = node[i]
    BY <1>0, <1>1, <1>3 DEF Applied, TypeOK, Table, Requests
  <2>2. CallsHeld(i)'
    <3>1. m.from \in Calls => opArg[m.from].ib = m.ib
      BY <1>2, OpsAssumption, AbsentAssumption DEF CallAsks, Pushed, Request, Calls, Ops
    <3> QED
      BY <1>0, <1>3, <2>1, <3>1 DEF Sound, AtRest, CallsHeld, Delivered
  <2>3. TickUnanswered(i)
    <3>1. m.from = Tick => tick.cur = m.ib
      BY <1>2, OpsAssumption, AbsentAssumption DEF TickAsks, Request
    <3> QED
      BY <1>0, <1>3, <3>1 DEF TickUnanswered
  <2>4. PrintHeld(i)'
    BY <1>0, <2>1 DEF Sound, AtRest, PrintHeld
  <2> QED
    BY <1>0, <2>1, <2>2, <2>3, <2>4, SoundGrows DEF Grows
<1>4. CASE i = m.ib
  <2>1. ~OutOfTurn(m)
    BY <1>4 DEF NodeApply
  <2>2. CASE m.from = Tick
    <3>0. TickAsks(m) /\ m.from \notin Calls
      BY <1>2, <2>2, OpsAssumption, AbsentAssumption DEF Calls, Ops
    <3>1. CASE tick.pc = "pushWait"
      <4>1. /\ m.kind = "full" /\ tick.cur = i /\ m.body = tick.plan[i]
        BY <1>4, <3>0, <3>1 DEF TickAsks, Request
      <4>2. node'[i] = tick.plan[i] /\ tick.plan[i] # Absent
        BY <1>0, <1>1, <1>4, <4>1, AbsentRow DEF Applied, TypeOK, Table, Requests
      <4>3. /\ ~Older(tick.plan[i], pushedFP[i])
            /\ \A o \in Calls \cap answers :
                 opArg[o].ib = i => \A s \in Delivered(o) : ~(m.body[s] < opArg[o].next[s])
        BY <1>4, <2>1, <2>2, <4>1, <4>2 DEF OutOfTurn, Calls
      <4>4. CallsHeld(i)'
        <5>1. \A o \in Calls \cap answers' : o \in answers
          BY <1>0, <2>2, <3>0
        <5>2. ASSUME NEW o \in Calls \cap answers, NEW s \in Delivered(o), opArg[o].ib = i
              PROVE  node'[i][s] >= opArg[o].next[s]
          <6>1. o \in Ops /\ opPC[o] = "await"
            BY DEF Calls, Ops, Asked
          <6>2. s \in Slots /\ opArg[o].next \in Content
            BY <6>1 DEF Intends, Delivered
          <6>3. tick.plan[i] \in Content
            BY <4>2, RowTypes DEF Rows
          <6> QED
            BY <4>1, <4>2, <4>3, <5>2, <6>2, <6>3 DEF Content
        <5> QED
          BY <1>0, <5>1, <5>2 DEF CallsHeld, Delivered
      <4> QED
        BY <1>0, <3>1, <4>2, <4>3, <4>4, SoundDelivered
    <3>2. CASE tick.pc = "sweepWait"
      <4>1. m.kind = "del" /\ tick.cur = i /\ tick.plan[i] = Absent
        BY <1>4, <3>0, <3>2 DEF TickAsks, Request, Sweeping
      <4>2. node'[i] = Absent
        BY <1>0, <1>1, <1>4, <4>1 DEF Applied, TypeOK, Table
      <4> QED
        BY <1>0, <3>2, <4>1, <4>2, SoundGone DEF Begun
    <3> QED
      BY <3>0, <3>1, <3>2 DEF TickAsks
  <2>3. CASE m.from # Tick /\ m.kind = "del"
    <3>1. node'[i] = Absent
      BY <1>0, <1>1, <1>4, <2>3 DEF Applied, TypeOK, Table
    <3>2. central[i] = Absent
      BY <1>4, <2>1, <2>3 DEF OutOfTurn
    <3>3. wish[i] # "present"
      BY <3>2 DEF Sound, AtRest, LastWord
    <3> QED
      BY <1>0, <3>1, <3>3, SoundGone
  <2>4. CASE m.from # Tick /\ m.kind \in {"slots", "full"}
    <3>1. m.body \in Content /\ node[i] \in Rows
      BY <1>1, <2>4, RowTypes DEF Requests
    <3>2. /\ m.kind = "full" => node'[i] = m.body
          /\ m.kind = "slots" => node'[i] =
               IF node[i] = Absent THEN Absent
               ELSE [s \in Slots |-> IF s \in m.slots THEN m.body[s] ELSE node[i][s]]
      BY <1>0, <1>1, <1>4 DEF Applied, TypeOK, Table
    <3>3. Grows(i)
      <4>1. CASE m.kind = "slots" /\ node[i] = Absent
        BY <3>2, <4>1 DEF Grows
      <4>2. CASE m.kind = "slots" /\ node[i] # Absent
        <5>1. node[i] \in Content /\ node'[i] \in Content
          BY <3>1, <3>2, <4>2 DEF Rows, Content
        <5>2. \A s \in m.slots : ~(m.body[s] < node[i][s])
          BY <1>4, <2>1, <2>4, <4>2 DEF OutOfTurn
        <5>3. NotOlder(node'[i], node[i])
          BY <3>1, <3>2, <4>2, <5>1, <5>2 DEF NotOlder, Content
        <5> QED
          BY <4>2, <5>1, <5>3, AbsentRow DEF Grows
      <4>3. CASE m.kind = "full"
        <5>1. node[i] # Absent /\ ~Older(m.body, node[i])
          BY <1>4, <2>1, <2>4, <4>3 DEF OutOfTurn
        <5> QED
          BY <3>1, <3>2, <4>3, <5>1, OlderNot, AbsentRow DEF Grows, Rows
      <4> QED
        BY <2>4, <4>1, <4>2, <4>3
    <3>4. CallsHeld(i)'
      <4>1. SUFFICES ASSUME NEW o \in Calls \cap answers', opArg[o].ib = i,
                            node'[i] # Absent, NEW s \in Delivered(o)
                     PROVE  node'[i][s] >= opArg[o].next[s]
        BY <1>0 DEF CallsHeld, Delivered
      <4>2. o \in Ops /\ opPC[o] = "await" /\ node[i] # Absent
        <5>1. o \in Ops /\ opPC'[o] = "await"
          BY DEF Calls, Ops, Asked
        <5> QED
          BY <1>0, <3>3, <4>1, <5>1 DEF Grows
      <4>3. s \in Slots /\ opArg[o].next \in Content
        BY <4>2 DEF Intends, Delivered
      <4>4. node[i] \in Content /\ node'[i] \in Content
        <5>1. node'[i] \in Rows
          BY DEF TypeOK, Table, Rows
        <5> QED
          BY <3>1, <4>1, <4>2, <5>1 DEF Rows
      <4>5. CASE o \in answers
        <5>1. node[i][s] >= opArg[o].next[s]
          BY <4>1, <4>2, <4>5 DEF Sound, AtRest, CallsHeld
        <5>2. node'[i][s] >= node[i][s]
          BY <3>3, <4>2, <4>3, <4>4 DEF Grows, NotOlder, Content
        <5> QED
          BY <4>3, <4>4, <5>1, <5>2 DEF Content
      <4>6. CASE o \notin answers
        <5>1. o = m.from /\ CallAsks(m) /\ o \notin Deletes
          BY <1>0, <1>2, <2>4, <4>2, <4>6, OpsAssumption, AbsentAssumption
          DEF Calls, Ops
        <5>2. /\ m.body = opArg[o].next /\ m.slots = {opArg[o].slot}
              /\ m.kind = IF o \in Toggles THEN "full" ELSE "slots"
          BY <5>1 DEF CallAsks, Pushed, Request
        <5>3. o \notin Toggles => s \in m.slots
          BY <5>1, <5>2 DEF Delivered, Calls
        <5>4. node'[i][s] = m.body[s]
          BY <3>2, <4>2, <4>3, <5>2, <5>3
        <5> QED
          BY <4>3, <5>2, <5>4 DEF Content
      <4> QED
        BY <4>5, <4>6
    <3>5. PrintHeld(i)'
      <4>1. node'[i] \in Rows /\ pushedFP[i] \in Rows
        BY DEF TypeOK, Table, Rows
      <4> QED
        BY <1>0, <3>1, <3>3, <4>1, GrownHolds DEF Sound, AtRest, PrintHeld
    <3>6. TickUnanswered(i)
      BY <1>0, <2>4 DEF TickUnanswered
    <3> QED
      BY <1>0, <3>3, <3>4, <3>5, <3>6, SoundGrows
  <2> QED
    BY <1>1, <2>2, <2>3, <2>4 DEF Requests
<1> QED
  BY <1>3, <1>4

LEMMA SoundNode ==
  ASSUME Books, Books', NodeStep, NEW i \in Inbounds \ crossed', Sound(i)
  PROVE  Sound(i)'
<1> USE DEF Books
<1>1. ASSUME NEW j \in Inbounds, NEW s \in Slots, NodeEdit(j, s)
      PROVE  Sound(i)'
  <2>1. /\ node' = [node EXCEPT ![j][s] = version + 1] /\ node[j] # Absent
        /\ UNCHANGED <<central, pushedFP, seen, wish, dirty, dirtyAt, tick, answers, opArg>>
        /\ MarkStands /\ SameAt(i) /\ TickUnanswered(i)
    BY <1>1 DEF NodeEdit, MarkStands, SameAt, TickUnanswered, TypeOK
  <2>2. /\ node[i] \in Rows /\ node'[i] \in Rows /\ pushedFP[i] \in Rows
        /\ version \in Nat /\ UpTo(node[i], version)
    BY DEF TypeOK, Table, Rows, Bounded
  <2>3. Grows(i)
    <3>1. CASE i # j
      BY <2>1, <3>1 DEF TypeOK, Table, Grows
    <3>2. CASE i = j
      <4>1. node[i] \in Content /\ node'[i] = [node[i] EXCEPT ![s] = version + 1]
        BY <2>1, <2>2, <3>2 DEF Rows, TypeOK, Table
      <4>2. node'[i] \in Content
        BY <2>2, <4>1 DEF Content
      <4>3. \A t \in Slots : node[i][t] <= version
        BY <2>1, <2>2, <3>2 DEF UpTo
      <4>4. NotOlder(node'[i], node[i])
        BY <2>2, <4>1, <4>2, <4>3 DEF NotOlder, Content
      <4> QED
        BY <2>1, <3>2, <4>2, <4>4, AbsentRow DEF Grows
    <3> QED
      BY <3>1, <3>2
  <2>4. PrintHeld(i)'
    BY <2>1, <2>2, <2>3, GrownHolds DEF Sound, AtRest, PrintHeld
  <2>5. CallsHeld(i)'
    <3>1. SUFFICES ASSUME NEW o \in Calls \cap answers, opArg[o].ib = i,
                          node'[i] # Absent, NEW t \in Delivered(o)
                   PROVE  node'[i][t] >= opArg[o].next[t]
      BY <2>1 DEF CallsHeld, Delivered
    <3>2. t \in Slots /\ opArg[o].next \in Content
      BY DEF Intends, Delivered, Asked, Calls, Ops
    <3>3. node[i] # Absent /\ node[i] \in Content /\ node'[i] \in Content
      BY <2>2, <2>3, <3>1 DEF Grows, Rows
    <3>4. node[i][t] >= opArg[o].next[t]
      BY <3>1, <3>3 DEF Sound, AtRest, CallsHeld
    <3>5. node'[i][t] >= node[i][t]
      BY <2>3, <3>2, <3>3 DEF Grows, NotOlder, Content
    <3> QED
      BY <3>2, <3>3, <3>4, <3>5 DEF Content
  <2> QED
    BY <2>1, <2>3, <2>4, <2>5, SoundGrows
<1>2. ASSUME NEW j \in Inbounds, NodeRemove(j)
      PROVE  Sound(i)'
  <2>1. /\ node' = [node EXCEPT ![j] = Absent] /\ wish' = [wish EXCEPT ![j] = "free"]
        /\ UNCHANGED <<central, pushedFP, seen, dirty, dirtyAt, tick, answers, opArg>>
    BY <1>2 DEF NodeRemove
  <2>2. CASE i = j
    <3>1. node'[i] = Absent /\ wish'[i] = "free"
      BY <2>1, <2>2 DEF TypeOK, Table
    <3> QED
      BY <2>1, <3>1, SoundGone
  <2>3. CASE i # j
    <3>1. node'[i] = node[i] /\ wish'[i] = wish[i]
      BY <2>1, <2>3 DEF TypeOK, Table
    <3>2. MarkStands /\ SameAt(i) /\ TickUnanswered(i) /\ Grows(i)
      BY <2>1, <3>1 DEF MarkStands, SameAt, TickUnanswered, Grows, TypeOK
    <3>3. PrintHeld(i)' /\ CallsHeld(i)'
      BY <2>1, <3>1 DEF Sound, AtRest, PrintHeld, CallsHeld, Delivered
    <3> QED
      BY <2>1, <3>2, <3>3, SoundGrows
  <2> QED
    BY <2>2, <2>3
<1> QED
  BY <1>1, <1>2, SoundApply DEF NodeStep

(* An edit at i: it marks the node after the reconcile's mark, and no merge   *)
(* is under way.                                                             *)
LEMMA SoundEdited ==
  ASSUME Books, Books', NEW i \in Inbounds, Sound(i), MarkNodeDirty, ~SharesMark,
         WriterFree, UNCHANGED <<tick, pushedFP, node, answers>>,
         LastWord(i)', CallsHeld(i)'
  PROVE  Sound(i)'
<1>1. Begun => dirtyAt' # tick.at
  BY DEF SharesMark
<1>2. dirty' /\ (tick.pc \in Working => Begun)
  BY DEF MarkNodeDirty, Working, Begun
<1>3. AtRest(i)'
  BY <1>2 DEF Sound, AtRest, PrintHeld, CleanHeld
<1>4. PlanStands(i)' /\ StillThere(i)'
  BY <1>1, <1>2 DEF PlanStands, StillThere, Begun
<1>5. PlanHeld(i)'
  BY DEF Sound, InReconcile, PlanHeld, Settled, Answered, Open
<1>6. SweptAway(i)'
  BY <1>1, <1>2 DEF Sound, InReconcile, SweptAway
<1>7. ReportHeld(i)' /\ ReportFull(i)'
  BY <1>2 DEF Sound, InMerge, ReportHeld, ReportFull, Trusted, WriterFree
<1> QED
  BY <1>3, <1>4, <1>5, <1>6, <1>7 DEF Sound, InReconcile, InMerge

(* A disabled inbound is added that the node neither has nor has reported.    *)
LEMMA SoundAdded ==
  ASSUME Books, NEW i \in Inbounds, Sound(i), i \in Disabled, central[i] = Absent,
         node[i] = Absent, tick.snap[i] = Absent, wish'[i] = "present",
         central'[i] # Absent,
         UNCHANGED <<dirty, dirtyAt, tick, pushedFP, node, answers, opArg>>
  PROVE  Sound(i)'
<1>1. tick.pc \in Working => Begun
  BY DEF Working, Begun
<1>2. AtRest(i)'
  BY DEF Sound, AtRest, PrintHeld, CallsHeld, LastWord, CleanHeld, NotOlder, Delivered
<1>3. PlanStands(i)'
  BY DEF Sound, InReconcile, PlanStands, Begun
<1>4. PlanHeld(i)' /\ SweptAway(i)'
  BY DEF PlanHeld, NotOlder, SweptAway
<1>5. StillThere(i)'
  BY <1>1 DEF Sound, InReconcile, PlanStands, StillThere
<1>6. ReportHeld(i)' /\ ReportFull(i)'
  BY DEF ReportHeld, ReportFull, NotOlder
<1> QED
  BY <1>2, <1>3, <1>4, <1>5, <1>6 DEF Sound, InReconcile, InMerge

(* A step somewhere else: nothing about i is touched.                        *)
LEMMA SoundElsewhere ==
  ASSUME Books, Books', NEW i \in Inbounds, Sound(i), SameAt(i), MarkStands,
         UNCHANGED <<tick, node>>, pushedFP'[i] = pushedFP[i], answers' \subseteq answers,
         \A o \in Calls \cap answers' : opArg'[o] = opArg[o]
  PROVE  Sound(i)'
<1>1. Grows(i) /\ TickUnanswered(i)
  BY DEF Grows, TickUnanswered
<1>2. PrintHeld(i)' /\ CallsHeld(i)'
  BY DEF Sound, AtRest, PrintHeld, CallsHeld, Delivered
<1> QED
  BY <1>1, <1>2, SoundGrows

LEMMA SoundAdmin ==
  ASSUME Books, Books', AdminStep, NEW i \in Inbounds \ crossed', Sound(i)
  PROVE  Sound(i)'
<1> USE DEF Books
<1>0. \A o \in Calls \cap answers : o \in Ops /\ opPC[o] = "await"
  BY DEF Asked, Calls, Ops
<1>1. ASSUME NEW o \in Ops, NEW j \in Inbounds, NEW s,
             ReadClients(o, j, s) \/ ReadToggle(o, j, s)
      PROVE  Sound(i)'
  <2>1. /\ UNCHANGED <<tick, node, pushedFP, answers, central, wish, seen, dirty, dirtyAt>>
        /\ opPC[o] = "idle" /\ \A p \in Ops \ {o} : opArg'[p] = opArg[p]
    BY <1>1 DEF ReadClients, ReadToggle, TypeOK
  <2>2. \A p \in Calls \cap answers' : opArg'[p] = opArg[p]
    BY <1>0, <2>1
  <2>3. SameAt(i) /\ MarkStands
    BY <2>1 DEF SameAt, MarkStands, TypeOK
  <2> QED
    BY <2>1, <2>2, <2>3, SoundElsewhere
<1>2. ASSUME NEW o, NEW j \in Inbounds, NEW s \in Slots, EditForm(o, j, s)
      PROVE  Sound(i)'
  <2>1. /\ MarkNodeDirty /\ WriterFree
        /\ UNCHANGED <<tick, pushedFP, node, answers, opArg, wish, seen>>
        /\ central[j] # Absent /\ central' = [central EXCEPT ![j][s] = version + 1]
        /\ i = j => ~SharesMark
    BY <1>2 DEF EditForm
  <2>2. CASE i = j
    <3>1. LastWord(i)'
      <4>1. central'[i] # Absent
        <5>1. /\ central'[i] = [central[i] EXCEPT ![s] = version + 1]
              /\ central[i] \in Content /\ version \in Nat
          BY <2>1, <2>2 DEF TypeOK, Table
        <5>2. central'[i] \in Content
          BY <5>1 DEF Content
        <5> QED
          BY <5>2, AbsentRow
      <4> QED
        BY <2>1, <2>2, <4>1 DEF Sound, AtRest, LastWord
    <3>2. CallsHeld(i)'
      BY <2>1 DEF Sound, AtRest, CallsHeld, Delivered
    <3> QED
      BY <2>1, <2>2, <3>1, <3>2, SoundEdited
  <2>3. CASE i # j
    <3>1. SameAt(i) /\ MarkStands
      BY <2>1, <2>3, MarkingStands DEF SameAt, TypeOK, Table
    <3> QED
      BY <2>1, <3>1, SoundElsewhere
  <2> QED
    BY <2>2, <2>3
<1>3. ASSUME NEW o, NEW j \in Inbounds, AddInbound(o, j)
      PROVE  Sound(i)'
  <2>1. /\ UNCHANGED <<tick, pushedFP, node, answers, opArg>> /\ WriterFree
        /\ central' = [central EXCEPT ![j] = Fresh(version + 1)] /\ central[j] = Absent
        /\ wish' = [wish EXCEPT ![j] = "present"] /\ seen' = seen \cup {j}
        /\ j \notin Disabled => MarkNodeDirty /\ (i = j => ~SharesMark)
        /\ j \in Disabled => UNCHANGED <<dirty, dirtyAt>>
                             /\ (i = j => node[i] = Absent /\ tick.snap[i] = Absent)
    BY <1>3 DEF AddInbound
  <2>2. version + 1 \in Nat
    BY DEF TypeOK
  <2>3. CASE i = j
    <3>1. wish'[i] = "present" /\ central'[i] # Absent
      BY <2>1, <2>2, <2>3, FreshType, AbsentRow DEF TypeOK, Table
    <3>2. CASE j \in Disabled
      BY <2>1, <2>3, <3>1, <3>2, SoundAdded
    <3>3. CASE j \notin Disabled
      <4>1. LastWord(i)' /\ CallsHeld(i)'
        BY <2>1, <3>1 DEF Sound, AtRest, LastWord, CallsHeld, Delivered
      <4> QED
        BY <2>1, <2>3, <3>3, <4>1, SoundEdited
    <3> QED
      BY <3>2, <3>3
  <2>4. CASE i # j
    <3>1. MarkStands
      BY <2>1, MarkingStands DEF MarkStands, TypeOK
    <3>2. SameAt(i)
      BY <2>1, <2>4 DEF SameAt, TypeOK, Table
    <3> QED
      BY <2>1, <3>1, <3>2, SoundElsewhere
  <2> QED
    BY <2>3, <2>4
<1>4. ASSUME NEW o \in Deletes, NEW j \in Inbounds, DelInbound(o, j)
      PROVE  Sound(i)'
  <2>1. /\ UNCHANGED <<tick, pushedFP, node, answers, seen>> /\ WriterFree
        /\ central' = [central EXCEPT ![j] = Absent] /\ MarkNodeDirty
        /\ wish' = [wish EXCEPT ![j] = "gone"] /\ (i = j => ~SharesMark)
    BY <1>4 DEF DelInbound, Send
  <2>2. \A p \in Calls \cap answers' : opArg'[p] = opArg[p]
    <3>1. \A p \in Calls \cap answers : p # o
      BY OpsAssumption DEF Calls
    <3>2. \A p \in Ops \ {o} : opArg'[p] = opArg[p]
      BY <1>4 DEF DelInbound, TypeOK
    <3> QED
      BY <1>0, <2>1, <3>1, <3>2
  <2>3. CASE i = j
    <3>1. LastWord(i)'
      BY <2>1, <2>3 DEF LastWord, TypeOK, Table
    <3>2. CallsHeld(i)'
      BY <2>1, <2>2 DEF Sound, AtRest, CallsHeld, Delivered
    <3> QED
      BY <2>1, <2>3, <3>1, <3>2, SoundEdited
  <2>4. CASE i # j
    <3>1. MarkStands /\ SameAt(i)
      BY <2>1, <2>4, MarkingStands DEF SameAt, TypeOK, Table
    <3> QED
      BY <2>1, <2>2, <3>1, SoundElsewhere
  <2> QED
    BY <2>3, <2>4
<1> QED
  BY <1>1, <1>2, <1>3, <1>4 DEF AdminStep, Ops

LEMMA ClientRecorded ==
  ASSUME NEW o \in ClientEdits
  PROVE  Recorded(o) = IF pushedFP[opArg[o].ib] = opArg[o].base THEN opArg[o].next
                       ELSE pushedFP[opArg[o].ib]
<1>1. o \notin Toggles
  BY OpsAssumption
<1> QED
  BY <1>1 DEF Recorded

LEMMA SoundCall ==
  ASSUME Books, Books', NEW o \in Ops, CallStep(o), NEW i \in Inbounds \ crossed', Sound(i)
  PROVE  Sound(i)'
<1> DEFINE j == opArg[o].ib
           s == opArg[o].slot
<1> USE DEF Books
<1>0. \A p \in Calls \cap answers : p \in Ops /\ opPC[p] = "await"
  BY DEF Asked, Calls, Ops
<1>1. CASE (o \in ClientEdits /\ CommitClients(o)) \/ (o \in Toggles /\ CommitToggle(o))
  <2>1. /\ UNCHANGED <<tick, pushedFP, node, answers, wish, seen>> /\ MarkNodeDirty
        /\ opPC[o] = "read" /\ (i = j => ~SharesMark /\ WriterFree)
        /\ \/ central' = central
           \/ central[j] # Absent /\ central' = [central EXCEPT ![j][s] = version + 1]
    BY <1>1 DEF CommitClients, CommitToggle, Send
  <2>2. \A p \in Calls \cap answers' : opArg'[p] = opArg[p]
    <3>1. \A p \in Ops \ {o} : opArg'[p] = opArg[p]
      BY <1>1 DEF CommitClients, CommitToggle, TypeOK
    <3> QED
      BY <1>0, <2>1, <3>1
  <2>3. j \in Inbounds /\ s \in Slots
    BY <2>1 DEF TypeOK
  <2>4. CASE i = j
    <3>1. LastWord(i)'
      <4>1. central[i] # Absent => central'[i] # Absent
        <5>1. SUFFICES ASSUME central[i] # Absent,
                              central' = [central EXCEPT ![i][s] = version + 1]
                       PROVE  central'[i] # Absent
          BY <2>1, <2>4
        <5>2. /\ central'[i] = [central[i] EXCEPT ![s] = version + 1]
              /\ central[i] \in Content /\ version \in Nat
          <6>1. central[i] \in Content /\ version \in Nat
            BY <5>1 DEF TypeOK, Table
          <6>2. central'[i] = [central[i] EXCEPT ![s] = version + 1]
            BY <5>1 DEF TypeOK, Table
          <6> QED
            BY <6>1, <6>2
        <5>3. central'[i] \in Content
          BY <2>3, <5>2 DEF Content
        <5> QED
          BY <5>3, AbsentRow
      <4>2. central[i] = Absent => central'[i] = Absent
        BY <2>1, <2>4
      <4> QED
        BY <2>1, <4>1, <4>2 DEF Sound, AtRest, LastWord
    <3>2. CallsHeld(i)'
      BY <2>1, <2>2 DEF Sound, AtRest, CallsHeld, Delivered
    <3> QED
      BY <2>1, <2>4, <3>1, <3>2, SoundEdited
  <2>5. CASE i # j
    <3>1. MarkStands /\ SameAt(i)
      BY <2>1, <2>3, <2>5, MarkingStands DEF SameAt, TypeOK, Table
    <3> QED
      BY <2>1, <2>2, <3>1, SoundElsewhere
  <2> QED
    BY <2>4, <2>5
<1>2. CASE PushDone(o)
  <2>1. /\ UNCHANGED <<tick, node, central, wish, seen, dirty, dirtyAt>>
        /\ answers' = answers \ {o} /\ o \in answers /\ opPC[o] = "await"
        /\ pushedFP' = [pushedFP EXCEPT ![j] = Recorded(o)]
        /\ \A p \in Ops \ {o} : opArg'[p] = opArg[p]
    BY <1>2 DEF PushDone, TypeOK
  <2>2. \A p \in Calls \cap answers' : opArg'[p] = opArg[p]
    BY <1>0, <2>1
  <2>3. SameAt(i) /\ MarkStands /\ Grows(i) /\ TickUnanswered(i)
    BY <2>1 DEF SameAt, MarkStands, Grows, TickUnanswered, TypeOK
  <2>4. CallsHeld(i)'
    BY <2>1, <2>2 DEF Sound, AtRest, CallsHeld, Delivered
  <2>5. PrintHeld(i)'
    <3>1. CASE i # j
      BY <2>1, <3>1 DEF Sound, AtRest, PrintHeld, TypeOK, Table
    <3>2. CASE i = j
      <4>0. pushedFP'[i] = Recorded(o)
        BY <2>1, <3>2 DEF TypeOK, Table
      <4>1. CASE o \notin Calls
        <5>1. Recorded(o) = Absent
          BY <4>1 DEF Recorded, Calls
        <5> QED
          BY <4>0, <5>1 DEF PrintHeld, NotOlder
      <4>2. CASE o \in Calls
        <5>1. /\ s \in Slots /\ opArg[o].base \in Content /\ opArg[o].next \in Content
              /\ \A t \in Slots \ {s} : opArg[o].next[t] = opArg[o].base[t]
          BY <2>1, <4>2 DEF Intends
        <5>2. node[i] # Absent => \A t \in Delivered(o) : node[i][t] >= opArg[o].next[t]
          BY <2>1, <3>2, <4>2 DEF Sound, AtRest, CallsHeld
        <5>3. NotOlder(node[i], pushedFP[i])
          BY DEF Sound, AtRest, PrintHeld
        <5>4. CASE o \in ClientEdits
          <6>1. Delivered(o) = {s}
            BY <5>4 DEF Delivered
          <6>2. CASE pushedFP[i] = opArg[o].base
            <7>1. Recorded(o) = opArg[o].next
              BY <3>2, <5>4, <6>2, ClientRecorded
            <7>2. NotOlder(node[i], opArg[o].next)
              <8>1. SUFFICES ASSUME node[i] # Absent, NEW t \in Slots
                             PROVE  node[i][t] >= opArg[o].next[t]
                BY DEF NotOlder
              <8>2. node[i][t] >= opArg[o].base[t]
                BY <5>1, <5>3, <6>2, <8>1, AbsentRow DEF NotOlder
              <8>3. CASE t = s
                BY <5>2, <6>1, <8>1, <8>3
              <8>4. CASE t # s
                BY <5>1, <8>2, <8>4
              <8> QED
                BY <8>3, <8>4
            <7> QED
              BY <2>1, <4>0, <7>1, <7>2 DEF PrintHeld
          <6>3. CASE pushedFP[i] # opArg[o].base
            <7>1. Recorded(o) = pushedFP[i]
              BY <3>2, <5>4, <6>3, ClientRecorded
            <7> QED
              BY <2>1, <4>0, <5>3, <7>1 DEF PrintHeld
          <6> QED
            BY <6>2, <6>3
        <5>5. CASE o \notin ClientEdits
          <6>1. Recorded(o) = opArg[o].next /\ Delivered(o) = Slots
            BY <4>2, <5>5 DEF Recorded, Calls, Delivered
          <6>2. NotOlder(node[i], opArg[o].next)
            BY <5>2, <6>1 DEF NotOlder
          <6> QED
            BY <2>1, <4>0, <6>1, <6>2 DEF PrintHeld
        <5> QED
          BY <5>4, <5>5
      <4> QED
        BY <4>1, <4>2
    <3> QED
      BY <3>1, <3>2
  <2> QED
    BY <2>1, <2>3, <2>4, <2>5, SoundGrows
<1>3. CASE PushFailed(o)
  <2>1. /\ UNCHANGED <<tick, node, pushedFP, central, wish, seen, dirty, dirtyAt>>
        /\ answers' = answers \ {o}
        /\ \A p \in Ops \ {o} : opArg'[p] = opArg[p]
    BY <1>3 DEF PushFailed, TypeOK
  <2>2. \A p \in Calls \cap answers' : opArg'[p] = opArg[p]
    BY <1>0, <2>1
  <2>3. SameAt(i) /\ MarkStands
    BY <2>1 DEF SameAt, MarkStands, TypeOK
  <2> QED
    BY <2>1, <2>2, <2>3, SoundElsewhere
<1> QED
  BY <1>1, <1>2, <1>3 DEF CallStep

-----------------------------------------------------------------------------
(* The tick's steps.                                                        *)
LEMMA RestKept ==
  ASSUME NEW i, Sound(i), UNCHANGED <<central, node, wish, opArg>>, dirty => dirty',
         answers' \subseteq answers, PrintHeld(i)'
  PROVE  AtRest(i)'
  BY DEF Sound, AtRest, CallsHeld, LastWord, CleanHeld, Delivered

LEMMA NotReconciling ==
  ASSUME NEW i, ~Begun'
  PROVE  InReconcile(i)'
<1>1. tick'.pc \notin Working
  BY DEF Begun, Working
<1> QED
  BY <1>1 DEF InReconcile, PlanStands, PlanHeld, StillThere, SweptAway, Settled, Swept,
     Answered, Working

LEMMA NotMerging ==
  ASSUME NEW i, tick'.pc \notin Merging
  PROVE  InMerge(i)'
  BY DEF InMerge, ReportHeld, ReportFull, Trusted

LEMMA SoundBetween ==
  ASSUME Books, TickStart \/ ListFailed \/ FetchFailed \/ MarkAdopted, NEW i, Sound(i)
  PROVE  Sound(i)'
<1> USE DEF Becomes
<1>1. tick'.pc \in {"idle", "read", "fetch"}
  <2>1. CASE TickStart
    BY <2>1, TickStartGoes DEF Books
  <2>2. CASE ListFailed
    BY <2>2 DEF ListFailed, Books, TypeOK, Ticks
  <2>3. CASE FetchFailed \/ MarkAdopted
    BY <2>3 DEF FetchFailed, MarkAdopted, IdleTick
  <2> QED
    BY <2>1, <2>2, <2>3
<1>2. /\ UNCHANGED <<central, node, wish, opArg, dirty, answers>>
      /\ pushedFP' = pushedFP
  BY DEF TickStart, ListFailed, FetchFailed, MarkAdopted
<1>3. PrintHeld(i)'
  BY <1>2 DEF Sound, AtRest, PrintHeld
<1>4. ~Begun' /\ tick'.pc \notin Merging
  BY <1>1 DEF Begun, Merging
<1> QED
  BY <1>2, <1>3, <1>4, RestKept, NotReconciling, NotMerging DEF Sound

(* The reconcile's two reads.                                               *)
LEMMA SoundReads ==
  ASSUME Books, ReconcileRead \/ ReconcileList, NEW i \in Inbounds, Sound(i)
  PROVE  Sound(i)'
<1> USE DEF Becomes
<1>0. tick \in Ticks /\ node \in Table
  BY DEF Books, TypeOK
<1>1. /\ UNCHANGED <<central, node, wish, opArg, dirty, dirtyAt, answers, pushedFP, seen>>
  BY DEF ReconcileRead, ReconcileList
<1>2. PrintHeld(i)'
  BY <1>1 DEF Sound, AtRest, PrintHeld
<1>3. CASE ReconcileRead
  <2>1. tick'.pc = "list" /\ tick'.plan = central
    BY <1>0, <1>3 DEF ReconcileRead, Ticks
  <2>2. InReconcile(i)'
    BY <1>1, <2>1 DEF InReconcile, PlanStands, PlanHeld, StillThere, SweptAway, Settled,
       Swept, Answered, Working
  <2>3. tick'.pc \notin Merging
    BY <2>1 DEF Merging
  <2> QED
    BY <1>1, <1>2, <2>2, <2>3, RestKept, NotMerging DEF Sound
<1>4. CASE ReconcileList
  <2>1. /\ tick'.pc = "push" /\ tick'.plan = tick.plan /\ tick'.at = tick.at
        /\ tick'.listed = Present(node) /\ tick'.todo = Present(tick.plan) /\ tick.pc = "list"
    BY <1>0, <1>4 DEF ReconcileList, Ticks
  <2>2. PlanStands(i)'
    BY <1>1, <2>1 DEF Sound, InReconcile, PlanStands, Begun
  <2>3. Settled(i)' => tick'.plan[i] = Absent
    BY <2>1 DEF Settled, Open, Present
  <2>4. PlanHeld(i)'
    BY <2>1, <2>3 DEF PlanHeld, Answered, NotOlder
  <2>5. StillThere(i)'
    BY <1>1, <2>1, <2>3 DEF StillThere, Answered, Present
  <2>6. SweptAway(i)'
    BY <1>1, <2>1 DEF SweptAway, Swept, Answered, Present
  <2>7. tick'.pc \notin Merging
    BY <2>1 DEF Merging
  <2> QED
    BY <1>1, <1>2, <2>2, <2>4, <2>5, <2>6, <2>7, RestKept, NotMerging
    DEF Sound, InReconcile
<1> QED
  BY <1>3, <1>4

(* A step of the reconcile that leaves the database, the node, and what it    *)
(* has read as they are.                                                     *)
LEMMA SoundWorks ==
  ASSUME Books, NEW i \in Inbounds, Sound(i),
         UNCHANGED <<central, node, wish, opArg, dirty, dirtyAt>>, answers' \subseteq answers,
         i \in seen' <=> i \in seen,
         Begun, tick'.pc \in Working, tick'.at = tick.at, tick'.plan = tick.plan,
         tick'.listed = tick.listed, tick.pc \in Working,
         PrintHeld(i)',
         Settled(i)' \/ Answered("pushWait", i)'
           => \/ Settled(i) \/ Answered("pushWait", i)
              \/ NotOlder(node[i], tick.plan[i]) /\ i \in tick.listed,
         Swept(i)' \/ Answered("sweepWait", i)'
           => \/ Swept(i) \/ Answered("sweepWait", i)
              \/ i \notin tick.listed \/ i \notin seen
  PROVE  Sound(i)'
<1>1. PlanStands(i)'
  BY DEF Sound, InReconcile, PlanStands, Begun
<1>2. PlanHeld(i)'
  BY DEF Sound, InReconcile, PlanHeld
<1>3. StillThere(i)'
  BY DEF Sound, InReconcile, StillThere
<1>4. SweptAway(i)'
  BY DEF Sound, InReconcile, SweptAway
<1>5. tick'.pc \notin Merging
  BY DEF Merging, Working
<1> QED
  BY <1>1, <1>2, <1>3, <1>4, <1>5, RestKept, NotMerging DEF Sound, InReconcile

LEMMA SoundOne ==
  ASSUME Books, NEW j \in Inbounds, NEW i \in Inbounds \ crossed', Sound(i),
         AdoptAlias(j) \/ ReconcileSkip(j) \/ ReconcilePush(j) \/ SweepDelete(j)
         \/ SweepSkipped(j)
  PROVE  Sound(i)'
<1> USE DEF Becomes
<1>0. tick \in Ticks /\ pushedFP \in Table /\ node[i] \in Rows /\ tick.plan[i] \in Rows
  BY RowTypes DEF Books, TypeOK
<1>1. CASE AdoptAlias(j) \/ ReconcileSkip(j)
  <2>1. /\ UNCHANGED <<central, node, wish, opArg, dirty, dirtyAt, answers, seen>>
        /\ tick.pc = "push" /\ tick'.pc = "push" /\ tick'.at = tick.at
        /\ tick'.plan = tick.plan /\ tick'.listed = tick.listed
        /\ tick'.failed = tick.failed /\ tick'.todo = tick.todo \ {j} /\ j \in tick.todo
        /\ j \in tick.listed
    BY <1>0, <1>1 DEF AdoptAlias, ReconcileSkip, UpToDate, Ticks
  <2>2. i = j => NotOlder(node[i], tick.plan[i])
    <3>1. CASE AdoptAlias(j)
      BY <1>0, <3>1, OlderNot DEF AdoptAlias
    <3>2. CASE ReconcileSkip(j)
      BY <3>2 DEF ReconcileSkip, UpToDate, Sound, AtRest, PrintHeld
    <3> QED
      BY <1>1, <3>1, <3>2
  <2>3. PrintHeld(i)'
    <3>1. pushedFP'[i] = pushedFP[i] \/ (i = j /\ pushedFP'[i] = tick.plan[i])
      BY <1>0, <1>1 DEF AdoptAlias, ReconcileSkip, Table
    <3> QED
      BY <2>1, <2>2, <3>1 DEF Sound, AtRest, PrintHeld
  <2>4. Settled(i)' => Settled(i) \/ i = j
    BY <2>1 DEF Settled, Open
  <2>5. ~Swept(i)' /\ \A pc \in {"pushWait", "sweepWait"} : ~Answered(pc, i)'
    BY <2>1 DEF Swept, Answered
  <2> QED
    BY <2>1, <2>2, <2>3, <2>4, <2>5, SoundWorks DEF Begun, Working
<1>2. CASE ReconcilePush(j)
  <2>1. /\ UNCHANGED <<central, node, wish, opArg, dirty, dirtyAt, answers, seen>>
        /\ tick.pc = "push" /\ tick'.pc = "pushWait" /\ tick'.at = tick.at
        /\ tick'.plan = tick.plan /\ tick'.listed = tick.listed
        /\ tick'.failed = tick.failed /\ tick'.todo = tick.todo \ {j} /\ j \in tick.todo
        /\ tick'.cur = j
    BY <1>0, <1>2 DEF ReconcilePush, Ticks, Send
  <2>2. PrintHeld(i)'
    <3>1. pushedFP'[i] = pushedFP[i] \/ pushedFP'[i] = Absent
      BY <1>0, <1>2 DEF ReconcilePush, Table
    <3> QED
      BY <2>1, <3>1 DEF Sound, AtRest, PrintHeld, NotOlder
  <2>3. Settled(i)' => Settled(i)
    BY <2>1 DEF Settled, Open, Working
  <2>4. ~Swept(i)' /\ \A pc \in {"pushWait", "sweepWait"} : ~Answered(pc, i)'
    BY <2>1 DEF Swept, Answered, Books, Asked
  <2> QED
    BY <2>1, <2>2, <2>3, <2>4, SoundWorks DEF Begun, Working
<1>3. CASE SweepDelete(j)
  <2>1. /\ UNCHANGED <<central, node, wish, opArg, dirty, dirtyAt, answers, seen, pushedFP>>
        /\ tick.pc = "sweep" /\ tick'.pc = "sweepWait" /\ tick'.at = tick.at
        /\ tick'.plan = tick.plan /\ tick'.listed = tick.listed
        /\ tick'.failed = tick.failed /\ tick'.todo = tick.todo \ {j} /\ j \in tick.todo
        /\ tick'.cur = j
    BY <1>0, <1>3 DEF SweepDelete, Ticks, Send
  <2>2. PrintHeld(i)'
    BY <2>1 DEF Sound, AtRest, PrintHeld
  <2>3. Settled(i)' => Settled(i)
    BY <2>1 DEF Settled, Open, Working
  <2>4. Swept(i)' => Swept(i)
    BY <2>1 DEF Swept
  <2>5. \A pc \in {"pushWait", "sweepWait"} : ~Answered(pc, i)'
    BY <2>1 DEF Answered, Books, Asked
  <2> QED
    BY <2>1, <2>2, <2>3, <2>4, <2>5, SoundWorks DEF Begun, Working
<1>4. CASE SweepSkipped(j)
  <2>1. /\ UNCHANGED <<central, node, wish, opArg, dirty, dirtyAt, answers, seen, pushedFP>>
        /\ tick.pc = "sweep" /\ tick'.pc = "sweep" /\ tick'.at = tick.at
        /\ tick'.plan = tick.plan /\ tick'.listed = tick.listed
        /\ tick'.failed = tick.failed /\ tick'.todo = tick.todo \ {j} /\ i # j
    BY <1>0, <1>4 DEF SweepSkipped, Ticks
  <2>2. PrintHeld(i)'
    BY <2>1 DEF Sound, AtRest, PrintHeld
  <2>3. Settled(i)' => Settled(i)
    BY <2>1 DEF Settled, Open, Working
  <2>4. Swept(i)' => Swept(i)
    BY <2>1 DEF Swept
  <2>5. \A pc \in {"pushWait", "sweepWait"} : ~Answered(pc, i)'
    BY <2>1 DEF Answered
  <2> QED
    BY <2>1, <2>2, <2>3, <2>4, <2>5, SoundWorks DEF Begun, Working
<1> QED
  BY <1>1, <1>2, <1>3, <1>4

LEMMA SoundSweep ==
  ASSUME Books, NEW i \in Inbounds \ crossed', Sound(i), ReconcileSweep
  PROVE  Sound(i)'
<1>1. /\ UNCHANGED <<central, node, wish, opArg, dirty, dirtyAt, answers, seen, pushedFP>>
      /\ tick.pc = "push" /\ tick'.pc = "sweep" /\ tick'.at = tick.at
      /\ tick'.plan = tick.plan /\ tick'.listed = tick.listed
      /\ tick'.failed = tick.failed /\ tick.todo = {}
      /\ tick'.todo = IF tick.adopted THEN tick.listed \ Present(tick.plan) ELSE {}
  BY DEF ReconcileSweep, Becomes, Books, TypeOK, Ticks
<1>2. PrintHeld(i)'
  BY <1>1 DEF Sound, AtRest, PrintHeld
<1>3. Settled(i)' => Settled(i)
  BY <1>1 DEF Settled, Open, Working
<1>4. \A pc \in {"pushWait", "sweepWait"} : ~Answered(pc, i)'
  BY <1>1 DEF Answered
<1>5. CASE tick.plan[i] = Absent
  <2>1. Swept(i)' => i \notin tick.listed \/ i \notin seen
    <3>1. CASE tick.adopted
      BY <1>1, <1>5, <3>1 DEF Swept, Present
    <3>2. CASE ~tick.adopted
      BY <1>5, <3>2 DEF ReconcileSweep, Present
    <3> QED
      BY <3>1, <3>2
  <2> QED
    BY <1>1, <1>2, <1>3, <1>4, <2>1, SoundWorks DEF Begun, Working
<1>6. CASE tick.plan[i] # Absent
  <2>1. PlanStands(i)'
    BY <1>1 DEF Sound, InReconcile, PlanStands, Begun
  <2>2. PlanHeld(i)' /\ StillThere(i)'
    BY <1>1, <1>3, <1>4 DEF Sound, InReconcile, PlanHeld, StillThere, Working
  <2>3. SweptAway(i)'
    BY <1>1, <1>6 DEF SweptAway
  <2>4. tick'.pc \notin Merging
    BY <1>1 DEF Merging
  <2> QED
    BY <1>1, <1>2, <2>1, <2>2, <2>3, <2>4, RestKept, NotMerging DEF Sound, InReconcile
<1> QED
  BY <1>5, <1>6

(* The node's reply to the reconcile, or its failure.                        *)
LEMMA SoundReply ==
  ASSUME Books, NEW i \in Inbounds, Sound(i), ReconcileAnswer \/ ReconcileFailed
  PROVE  Sound(i)'
<1> USE DEF Becomes
<1>0. tick \in Ticks /\ pushedFP \in Table /\ tick.cur \in Inbounds
  BY DEF Books, TypeOK, ReconcileAnswer, ReconcileFailed
<1>1. /\ UNCHANGED <<central, node, wish, opArg, dirty, dirtyAt, seen>>
      /\ answers' = answers \ {Tick}
      /\ tick.pc \in {"pushWait", "sweepWait"} /\ tick'.pc = Resumed /\ tick'.at = tick.at
      /\ tick'.plan = tick.plan /\ tick'.listed = tick.listed /\ tick'.todo = tick.todo
  BY <1>0 DEF ReconcileAnswer, ReconcileFailed, Ticks
<1>2. /\ \A pc : ~Answered(pc, i)' /\ tick'.pc \in {"push", "sweep"}
  BY <1>1 DEF Answered, Resumed
<1>3. CASE ReconcileAnswer
  <2>1. /\ tick'.failed = tick.failed /\ Tick \in answers
        /\ pushedFP' = [pushedFP EXCEPT ![tick.cur] =
                          IF tick.pc = "pushWait" THEN tick.plan[tick.cur] ELSE Absent]
    BY <1>0, <1>3 DEF ReconcileAnswer, Ticks
  <2>2. PrintHeld(i)'
    <3>1. CASE i # tick.cur
      BY <1>0, <1>1, <2>1, <3>1 DEF Sound, AtRest, PrintHeld, Table
    <3>2. CASE i = tick.cur /\ tick.pc = "pushWait"
      <4>1. Answered("pushWait", i)
        BY <2>1, <3>2 DEF Answered
      <4>2. NotOlder(node[i], tick.plan[i])
        BY <4>1 DEF Sound, InReconcile, PlanHeld
      <4> QED
        BY <1>0, <1>1, <2>1, <3>2, <4>2 DEF PrintHeld, Table
    <3>3. CASE i = tick.cur /\ tick.pc = "sweepWait"
      BY <1>0, <1>1, <2>1, <3>3 DEF PrintHeld, NotOlder, Table
    <3> QED
      BY <1>1, <3>1, <3>2, <3>3
  <2>3. Settled(i)' => Settled(i) \/ Answered("pushWait", i)
    BY <1>1, <2>1 DEF Settled, Answered, Open, Resumed, Working
  <2>4. Swept(i)' => Swept(i) \/ Answered("sweepWait", i)
    BY <1>1, <2>1 DEF Swept, Answered, Resumed
  <2> QED
    BY <1>1, <1>2, <2>2, <2>3, <2>4, SoundWorks DEF Begun, Working
<1>4. CASE ReconcileFailed
  <2>1. tick'.failed /\ pushedFP' = pushedFP
    BY <1>0, <1>4 DEF ReconcileFailed, Ticks
  <2>2. PrintHeld(i)' /\ ~Settled(i)' /\ ~Swept(i)'
    BY <1>1, <2>1 DEF Sound, AtRest, PrintHeld, Settled, Swept
  <2> QED
    BY <1>1, <1>2, <2>2, SoundWorks DEF Begun, Working
<1> QED
  BY <1>3, <1>4

(* The reconcile clears the mark only if nothing failed and nothing was       *)
(* marked since: then the node holds what the master holds.                  *)
LEMMA SoundClear ==
  ASSUME Books, NEW i \in Inbounds, Sound(i), ClearNodeDirty
  PROVE  Sound(i)'
<1>1. /\ UNCHANGED <<central, node, wish, opArg, dirtyAt, seen, answers, pushedFP>>
      /\ dirty' = IF ~tick.failed /\ dirtyAt = tick.at THEN FALSE ELSE dirty
      /\ tick.pc = "sweep" /\ tick.todo = {} /\ tick'.pc = "fetch"
  BY DEF ClearNodeDirty, Becomes, IdleTick
<1>2. CleanHeld(i)'
  <2>1. CASE dirty' = dirty
    <3>1. UNCHANGED <<central, node, wish>>
      BY <1>1
    <3> QED
      BY <2>1, <3>1 DEF Sound, AtRest, CleanHeld
  <2>2. CASE ~tick.failed /\ dirtyAt = tick.at
    <3>1. Settled(i) /\ Swept(i)
      BY <1>1, <2>2 DEF Settled, Swept, Open, Working
    <3>2. \/ central[i] = tick.plan[i]
          \/ i \in Disabled /\ tick.plan[i] = Absent /\ node[i] = Absent
      BY <1>1, <2>2 DEF Sound, InReconcile, PlanStands, Begun
    <3>3. NotOlder(node[i], tick.plan[i])
      BY <3>1 DEF Sound, InReconcile, PlanHeld
    <3>4. tick.plan[i] = Absent => node[i] = Absent \/ i \notin seen
      BY <1>1, <2>2, <3>1 DEF Sound, InReconcile, SweptAway, Working
    <3>5. wish[i] = "gone" => node[i] = Absent
      <4>1. wish[i] = "gone" => i \in seen /\ central[i] = Absent
        BY DEF Sound, AtRest, LastWord, Books, Known
      <4> QED
        BY <3>2, <3>4, <4>1
    <3>6. wish[i] = "present" => node[i] # Absent \/ i \in Disabled
      <4>1. wish[i] = "present" => central[i] # Absent
        BY DEF Sound, AtRest, LastWord
      <4>2. wish[i] = "present" /\ tick.plan[i] # Absent => node[i] # Absent
        BY <1>1, <2>2, <3>1 DEF Sound, InReconcile, StillThere, Working
      <4> QED
        BY <3>2, <4>1, <4>2
    <3>7. NotOlder(node[i], central[i])
      BY <3>2, <3>3 DEF NotOlder
    <3> QED
      BY <1>1, <3>5, <3>6, <3>7 DEF CleanHeld
  <2> QED
    BY <1>1, <2>1, <2>2
<1>3. PrintHeld(i)' /\ CallsHeld(i)' /\ LastWord(i)'
  BY <1>1 DEF Sound, AtRest, PrintHeld, CallsHeld, LastWord, Delivered
<1>4. ~Begun' /\ tick'.pc \notin Merging
  BY <1>1 DEF Begun, Merging
<1> QED
  BY <1>2, <1>3, <1>4, NotReconciling, NotMerging DEF Sound, AtRest

(* The snapshot, the sample of the flag and the merge's look at it.          *)
LEMMA SoundReport ==
  ASSUME Books, NEW i \in Inbounds, Sound(i), FetchSnapshot \/ SampleDirty \/ MergeBegin
  PROVE  Sound(i)'
<1> USE DEF Becomes
<1>0. tick \in Ticks /\ node[i] \in Rows
  BY RowTypes DEF Books, TypeOK
<1>1. /\ UNCHANGED <<central, node, wish, opArg, dirty, answers, pushedFP>>
      /\ tick'.pc \in Merging
  BY <1>0 DEF FetchSnapshot, SampleDirty, MergeBegin, Merging, Ticks, IdleTick
<1>2. AtRest(i)' /\ InReconcile(i)'
  <2>1. PrintHeld(i)'
    BY <1>1 DEF Sound, AtRest, PrintHeld
  <2>2. ~Begun'
    BY <1>1 DEF Begun, Merging
  <2> QED
    BY <1>1, <2>1, <2>2, RestKept, NotReconciling
<1>3. CASE FetchSnapshot
  <2>1. tick'.snap = node /\ tick'.pc = "sample"
    BY <1>3 DEF FetchSnapshot, IdleTick
  <2>2. ReportHeld(i)'
    BY <1>0, <1>1, <2>1, OlderSame DEF ReportHeld
  <2>3. ReportFull(i)'
    BY <1>1, <2>1 DEF ReportFull, Trusted, Sound, AtRest, CleanHeld
  <2> QED
    BY <1>2, <2>2, <2>3 DEF Sound, InMerge
<1>4. CASE SampleDirty \/ MergeBegin
  <2>1. /\ tick'.snap = tick.snap /\ tick.pc \in Merging
        /\ Trusted' => Trusted
    <3>1. CASE SampleDirty
      BY <1>0, <3>1 DEF SampleDirty, Ticks, Trusted, Merging
    <3>2. CASE MergeBegin
      BY <1>0, <3>2 DEF MergeBegin, Ticks, Trusted, Merging
    <3> QED
      BY <1>4, <3>1, <3>2
  <2>2. ReportHeld(i)' /\ ReportFull(i)'
    BY <1>1, <2>1 DEF Sound, InMerge, ReportHeld, ReportFull
  <2> QED
    BY <1>2, <2>2 DEF Sound, InMerge
<1> QED
  BY <1>3, <1>4

LEMMA SoundMerge ==
  ASSUME Books, NEW i \in Inbounds, Sound(i), MergeCommit
  PROVE  Sound(i)'
<1>1. /\ UNCHANGED <<node, wish, opArg, dirty, answers>> /\ tick.pc = "merging"
      /\ tick'.pc = "mark"
      /\ central'[i] = IF tick.frozen THEN central[i] ELSE Adopted(i)
      /\ pushedFP'[i] = pushedFP[i] \/ pushedFP'[i] = tick.snap[i]
  <2>1. tick' = [IdleTick EXCEPT !.pc = "mark", !.adopted = tick.adopted, !.dirty = tick.dirty]
    BY DEF MergeCommit, Becomes
  <2>2. tick'.pc = "mark"
    BY <2>1 DEF IdleTick
  <2> QED
    BY <2>2 DEF MergeCommit
<1>2. NotOlder(node[i], tick.snap[i])
  BY <1>1 DEF Sound, InMerge, ReportHeld, Merging
<1>3. PrintHeld(i)' /\ CallsHeld(i)'
  BY <1>1, <1>2 DEF Sound, AtRest, PrintHeld, CallsHeld, Delivered
<1>4. LastWord(i)' /\ CleanHeld(i)'
  <2>1. CASE tick.frozen
    BY <1>1, <2>1 DEF Sound, AtRest, LastWord, CleanHeld
  <2>2. CASE ~tick.frozen
    <3>1. Trusted
      BY <1>1, <2>2 DEF Trusted, Merging
    <3>2. /\ wish[i] = "gone" => tick.snap[i] = Absent
          /\ wish[i] = "present" => tick.snap[i] # Absent \/ i \in Disabled
      BY <3>1 DEF Sound, InMerge, ReportFull
    <3>3. /\ tick.snap[i] # Absent => central'[i] = tick.snap[i]
          /\ tick.snap[i] = Absent => central'[i] \in {Absent, central[i]}
          /\ tick.snap[i] = Absent /\ i \in Disabled => central'[i] = central[i]
      BY <1>1, <2>2 DEF Adopted
    <3>4. LastWord(i)'
      BY <1>1, <3>2, <3>3 DEF Sound, AtRest, LastWord
    <3>5. ~dirty => NotOlder(node[i], central'[i])
      BY <1>2, <3>3 DEF Sound, AtRest, CleanHeld, NotOlder
    <3> QED
      BY <1>1, <3>4, <3>5 DEF Sound, AtRest, CleanHeld
  <2> QED
    BY <2>1, <2>2
<1>5. ~Begun' /\ tick'.pc \notin Merging
  BY <1>1 DEF Begun, Merging
<1> QED
  BY <1>3, <1>4, <1>5, NotReconciling, NotMerging DEF Sound, AtRest

(* The invariant: the books, and what is sound wherever no race happened.     *)
SyncInv == Books /\ \A i \in Inbounds \ crossed : Sound(i)

LEMMA SyncInit == Init => SyncInv
<1> SUFFICES ASSUME Init, NEW i \in Inbounds PROVE Sound(i)
  BY BooksInit DEF SyncInv
<1>1. Fresh(1) \in Rows /\ pushedFP[i] = Absent /\ answers = {} /\ tick.pc = "idle"
  BY FreshType DEF Init, IdleTick, Rows
<1>2. AtRest(i)
  <2>1. LastWord(i)
    BY AbsentRow, FreshType DEF Init, LastWord
  <2>2. CleanHeld(i)
    <3>1. NotOlder(node[i], central[i])
      BY <1>1, OlderSame DEF Init, NotOlder
    <3>2. wish[i] # "gone" /\ (wish[i] = "present" => node[i] = Fresh(1))
      BY DEF Init
    <3> QED
      BY <3>1, <3>2, AbsentRow, FreshType DEF CleanHeld
  <2> QED
    BY <1>1, <2>1, <2>2 DEF AtRest, PrintHeld, CallsHeld, NotOlder
<1>3. InReconcile(i) /\ InMerge(i)
  BY <1>1 DEF InReconcile, PlanStands, PlanHeld, StillThere, SweptAway, Settled, Swept,
     Answered, Working, Begun, InMerge, ReportHeld, ReportFull, Trusted, Merging
<1> QED
  BY <1>2, <1>3 DEF Sound

LEMMA SyncStep == SyncInv /\ [Next]_vars => SyncInv'
<1> SUFFICES ASSUME SyncInv, [Next]_vars, NEW i \in Inbounds \ crossed'
             PROVE  Sound(i)'
  BY BooksStep DEF SyncInv
<1>1. Books /\ Books' /\ Sound(i)
  BY BooksStep, CrossedGrows DEF SyncInv
<1>2. CASE TickStep
  BY <1>1, <1>2, SoundBetween, SoundReads, SoundOne, SoundSweep, SoundReply, SoundClear,
     SoundReport, SoundMerge DEF TickStep
<1>3. CASE Restart
  <2>1. /\ UNCHANGED <<central, node, wish, dirty>> /\ answers' = {} /\ tick'.pc = "idle"
        /\ pushedFP'[i] = Absent
    BY <1>3 DEF Restart, IdleTick, Books
  <2>2. AtRest(i)'
    BY <1>1, <2>1 DEF Sound, AtRest, PrintHeld, CallsHeld, LastWord, CleanHeld, NotOlder
  <2>3. ~Begun' /\ tick'.pc \notin Merging
    BY <2>1 DEF Begun, Merging
  <2> QED
    BY <2>2, <2>3, NotReconciling, NotMerging DEF Sound
<1>4. CASE UNCHANGED vars
  <2>1. SameAt(i) /\ MarkStands /\ \A o \in Calls \cap answers' : opArg'[o] = opArg[o]
    BY <1>1, <1>4 DEF vars, SameAt, MarkStands, Books, TypeOK
  <2> QED
    BY <1>1, <1>4, <2>1, SoundElsewhere DEF vars
<1> QED
  BY <1>1, <1>2, <1>3, <1>4, SoundAdmin, SoundCall, SoundNode DEF Next

(* Whatever calls, reconciles, merges, requests, faults and restarts cross,   *)
(* the operator's last word on an inbound's existence stands at every inbound *)
(* at which none of the named races has happened.                            *)
THEOREM WishesStand == Spec => []WishKept
<1>1. SyncInv => WishKept
  BY DEF SyncInv, Sound, AtRest, LastWord, WishKept
<1> QED
  BY <1>1, SyncInit, SyncStep, PTL DEF Spec

-----------------------------------------------------------------------------
(* No row of the master goes back to an older version.                       *)
LEMMA RowForward ==
  ASSUME SyncInv, [Next]_vars, NEW i \in Inbounds \ crossed, central[i] # Absent,
         central'[i] # Absent
  PROVE  NotOlder(central'[i], central[i])
<1>0. /\ Books /\ Sound(i) /\ central[i] \in Content /\ version \in Nat
      /\ UpTo(central[i], version)
  BY RowTypes DEF SyncInv, Books, Rows, TypeOK, Bounded
<1>1. CASE central'[i] = central[i]
  BY <1>0, <1>1, OlderSame DEF Rows
<1>2. ASSUME NEW s \in Slots, central'[i] = [central[i] EXCEPT ![s] = version + 1]
      PROVE  NotOlder(central'[i], central[i])
  <2>1. \A t \in Slots : central[i][t] <= version
    BY <1>0 DEF UpTo
  <2> QED
    BY <1>0, <1>2, <2>1 DEF NotOlder, Content
<1>3. ASSUME NEW j \in Inbounds, NEW s \in Slots,
             central' = [central EXCEPT ![j][s] = version + 1]
      PROVE  NotOlder(central'[i], central[i])
  BY <1>0, <1>1, <1>2, <1>3 DEF Books, TypeOK, Table
<1>4. ASSUME NEW j \in Inbounds, NEW r, central' = [central EXCEPT ![j] = r],
             r = Absent \/ central[j] = Absent
      PROVE  NotOlder(central'[i], central[i])
  BY <1>0, <1>1, <1>4 DEF Books, TypeOK, Table
<1>5. CASE AdminStep
  BY <1>1, <1>3, <1>4, <1>5 DEF AdminStep, ReadClients, ReadToggle, EditForm, AddInbound,
     DelInbound
<1>6. ASSUME NEW o \in Ops, CallStep(o)
      PROVE  NotOlder(central'[i], central[i])
  <2>1. CASE CommitClients(o) \/ CommitToggle(o)
    <3>1. opArg[o].ib \in Inbounds /\ opArg[o].slot \in Slots
      BY <1>0, <2>1 DEF CommitClients, CommitToggle, Books, TypeOK
    <3>2. \/ central' = central
          \/ central' = [central EXCEPT ![opArg[o].ib][opArg[o].slot] = version + 1]
      BY <2>1 DEF CommitClients, CommitToggle
    <3> QED
      BY <1>1, <1>3, <3>1, <3>2
  <2> QED
    BY <1>1, <1>6, <2>1 DEF CallStep, PushDone, PushFailed
<1>7. CASE MergeCommit
  <2>1. CASE tick.frozen
    BY <1>1, <1>7, <2>1 DEF MergeCommit
  <2>2. CASE ~tick.frozen
    <3>1. NotOlder(tick.snap[i], central[i])
      BY <1>0, <1>7, <2>2 DEF MergeCommit, Trusted, Merging, Sound, InMerge, ReportFull
    <3>2. central'[i] \in {tick.snap[i], central[i], Absent}
      BY <1>7, <2>2 DEF MergeCommit, Adopted
    <3> QED
      BY <1>1, <3>1, <3>2
  <2> QED
    BY <2>1, <2>2
<1>8. CASE NodeStep \/ Restart \/ UNCHANGED vars
  BY <1>1, <1>8 DEF NodeStep, NodeApply, NodeEdit, NodeRemove, Restart, vars
<1>9. CASE TickStep
  BY <1>1, <1>7, <1>9
  DEF TickStep, TickStart, ReconcileRead, ReconcileList, ReconcileSweep, AdoptAlias,
      ReconcileSkip, ReconcilePush, SweepDelete, SweepSkipped, ReconcileAnswer,
      ReconcileFailed, ListFailed, ClearNodeDirty, FetchSnapshot, FetchFailed,
      SampleDirty, MergeBegin, MarkAdopted
<1> QED
  BY <1>5, <1>6, <1>8, <1>9 DEF Next

(* And no edit is ever rolled back there.                                     *)
THEOREM EditsAreKept == Spec => EditNotLost
<1>1. SyncInv /\ [Next]_vars
        => [\A i \in Inbounds \ crossed, s \in Slots :
              (central[i] # Absent /\ central'[i] # Absent)
                => central'[i][s] >= central[i][s]]_central
  BY RowForward DEF NotOlder
<1> QED
  BY <1>1, SyncInit, SyncStep, PTL DEF Spec, EditNotLost

=============================================================================
