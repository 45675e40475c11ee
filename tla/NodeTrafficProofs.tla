------------------------- MODULE NodeTrafficProofs -------------------------
(***************************************************************************)
(* NodeTraffic proved for every set of nodes and callers, every quota and    *)
(* every bound.                                                             *)
(***************************************************************************)
EXTENDS NodeTraffic, SumTheorems

USE DEF masterVars, threadVars, countVars, histVars
USE NodesAssumption, QuotaAssumption, BoundsAssumption

LEMMA StepTypes ==
  /\ Fresh \in Rows /\ FreshRow \in MasterRows
  /\ IdleDelivery \in DeliverSteps /\ IdleJob \in JobSteps
  BY DEF Fresh, FreshRow, Rows, MasterRows, IdleDelivery, DeliverSteps, IdleJob,
         JobSteps, NoReset

LEMMA MarkType ==
  ASSUME TypeOK, NEW ns \in SUBSET Nodes, MarkDirty(ns)
  PROVE  dirty' \in [Nodes -> BOOLEAN] /\ marked' \in [Nodes -> BOOLEAN]
<1>1. \A n \in Nodes : (n \in ns \/ dirty[n]) \in BOOLEAN
                      /\ (n \in ns \/ marked[n]) \in BOOLEAN
  OBVIOUS
<1> QED
  BY <1>1 DEF MarkDirty

LEMMA TypeInit == Init => TypeOK
<1> SUFFICES ASSUME Init PROVE TypeOK
  OBVIOUS
<1> USE DEF Init
<1>1. row \in MasterRows /\ node \in [Nodes -> Rows] /\ job \in [Nodes -> JobSteps]
  BY StepTypes
<1>2. deliver \in [Deliverers -> [Nodes -> DeliverSteps]]
  BY StepTypes
<1>3. base \in [Nodes -> Nat \cup {Unseen}] /\ queue \in [Nodes -> Nat]
  BY DEF NoReset
<1>4. dirty \in [Nodes -> BOOLEAN] /\ marked \in [Nodes -> BOOLEAN]
      /\ overtaken \in BOOLEAN /\ restore \subseteq Callers
  OBVIOUS
<1>5. asked \in [Nodes -> Nat] /\ heard \in [Nodes -> Nat]
      /\ since \in [Nodes -> Nat] /\ fetched \in [Nodes -> Nat]
      /\ resets \in Nat /\ uses \in Nat /\ faults \in Nat
  OBVIOUS
<1> QED
  BY <1>1, <1>2, <1>3, <1>4, <1>5 DEF TypeOK

LEMMA TypeZeroed ==
  ASSUME TypeOK, NEW c \in Callers, NEW ns \in SUBSET Nodes, NEW ms \in SUBSET Nodes,
         Zeroed(c, ns, ms)
  PROVE  TypeOK'
<1> USE DEF TypeOK, Zeroed
<1>1. base' \in [Nodes -> Nat \cup {Unseen}]
  BY DEF NoBaselines
<1>2. deliver' \in [Deliverers -> [Nodes -> DeliverSteps]]
  <2>1. [pc |-> "wait", at |-> NoReset] \in DeliverSteps
    BY DEF DeliverSteps, NoReset
  <2> QED
    BY <2>1
<1>3. row' \in MasterRows /\ queue' \in [Nodes -> Nat] /\ asked' \in [Nodes -> Nat]
  BY StepTypes
<1>4. since' \in [Nodes -> Nat]
  OBVIOUS
<1>5. dirty' \in [Nodes -> BOOLEAN] /\ marked' \in [Nodes -> BOOLEAN]
  BY MarkType
<1>6. restore' \subseteq Callers
  <2>1. restore \subseteq Callers
    OBVIOUS
  <2>2. restore' = restore \/ restore' = restore \cup {c}
    BY Zenon
  <2> QED
    BY <2>1, <2>2
<1>7. resets' \in Nat /\ overtaken' = FALSE /\ uses' = uses /\ faults' = faults
      /\ job' = job /\ node' = node /\ heard' = heard /\ fetched' = fetched
  OBVIOUS
<1> QED
  BY <1>1, <1>2, <1>3, <1>4, <1>5, <1>6, <1>7

LEMMA DeliverType ==
  ASSUME TypeOK, NEW d \in Deliverers, NEW n \in Nodes, NEW s \in DeliverSteps
  PROVE  [deliver EXCEPT ![d][n] = s] \in [Deliverers -> [Nodes -> DeliverSteps]]
<1>1. deliver \in [Deliverers -> [Nodes -> DeliverSteps]]
  BY DEF TypeOK
<1> QED
  BY <1>1

LEMMA EndedType ==
  ASSUME TypeOK, NEW d \in Deliverers, NEW n \in Nodes, Ended(d, n)
  PROVE  /\ deliver' \in [Deliverers -> [Nodes -> DeliverSteps]]
         /\ job' \in [Nodes -> JobSteps]
  BY StepTypes DEF TypeOK, Ended, JobSteps

LEMMA TypeDeliver ==
  ASSUME TypeOK, NEW d \in Deliverers, NEW n \in Nodes,
         Deliver(d, n) \/ CallFails(d, n)
  PROVE  TypeOK'
<1> USE DEF TypeOK
<1>1. CASE ReadQueue(d, n)
  <2>1. CASE queue[n] = NoReset
    BY <1>1, <2>1, EndedType DEF ReadQueue
  <2>2. CASE queue[n] # NoReset
    <3>1. [pc |-> "call", at |-> queue[n]] \in DeliverSteps
      BY DEF DeliverSteps
    <3>2. deliver' = [deliver EXCEPT ![d][n] = [pc |-> "call", at |-> queue[n]]]
      BY <1>1, <2>2 DEF ReadQueue
    <3>3. deliver' \in [Deliverers -> [Nodes -> DeliverSteps]]
      BY <3>1, <3>2, DeliverType
    <3> QED
      BY <1>1, <2>2, <3>3 DEF ReadQueue
  <2> QED
    BY <2>1, <2>2
<1>2. CASE CallReset(d, n)
  <2>1. deliver[d][n] \in DeliverSteps
    OBVIOUS
  <2>2. [deliver[d][n] EXCEPT !.pc = "drop"] \in DeliverSteps
    BY <2>1 DEF DeliverSteps
  <2>3. deliver' \in [Deliverers -> [Nodes -> DeliverSteps]]
    BY <1>2, <2>2, DeliverType DEF CallReset
  <2> QED
    BY <1>2, <2>3, StepTypes DEF CallReset, NodeObeys
<1>3. CASE CallFails(d, n)
  <2>1. node' \in [Nodes -> Rows] /\ heard' \in [Nodes -> Nat]
    BY <1>3, StepTypes DEF CallFails, NodeObeys
  <2>2. /\ deliver' \in [Deliverers -> [Nodes -> DeliverSteps]]
        /\ job' \in [Nodes -> JobSteps]
    BY <1>3, EndedType DEF CallFails
  <2> QED
    BY <1>3, <2>1, <2>2 DEF CallFails, Fault
<1>4. CASE DropRow(d, n)
  BY <1>4, EndedType DEF DropRow, NoReset
<1> QED
  BY <1>1, <1>2, <1>3, <1>4 DEF Deliver

LEMMA DeltaType ==
  ASSUME TypeOK, NEW n \in Nodes
  PROVE  Delta(n) \in Nat
  BY DEF TypeOK, Delta, JobSteps, Rows, Unseen

LEMMA TypeSync ==
  ASSUME TypeOK, NEW n \in Nodes,
         Sync(n) \/ ReconcileFails(n) \/ FetchFails(n)
  PROVE  TypeOK'
<1> USE DEF TypeOK
<1>1. CASE Reconcile(n)
  <2>1. node' \in [Nodes -> Rows]
    BY <1>1 DEF Reconcile, Rows, MasterRows
  <2>2. dirty' \in [Nodes -> BOOLEAN]
    BY <1>1 DEF Reconcile
  <2>3. job' \in [Nodes -> JobSteps]
    BY <1>1 DEF Reconcile, JobSteps
  <2> QED
    BY <1>1, <2>1, <2>2, <2>3 DEF Reconcile
<1>2. CASE JobDelivers(n)
  <2>1. Job \in Deliverers /\ [deliver[Job][n] EXCEPT !.pc = "wait"] \in DeliverSteps
    BY DEF Deliverers, DeliverSteps
  <2> QED
    BY <1>2, <2>1 DEF JobDelivers, JobSteps
<1>3. CASE Fetch(n)
  BY <1>3 DEF Fetch, JobSteps
<1>4. CASE Merge(n)
  <2>1. row' \in MasterRows
    BY <1>4, DeltaType DEF Merge, MasterRows, Latches, DisableIsStale, Frozen
  <2>2. base' \in [Nodes -> Nat \cup {Unseen}]
    BY <1>4 DEF Merge, JobSteps, Rows
  <2>3. dirty' \in [Nodes -> BOOLEAN] /\ marked' \in [Nodes -> BOOLEAN]
    BY <1>4, MarkType DEF Merge
  <2> QED
    BY <1>4, <2>1, <2>2, <2>3, StepTypes DEF Merge
<1>5. CASE ReconcileFails(n)
  <2>1. node' \in [Nodes -> Rows]
    <3>1. [node EXCEPT ![n].enable = row.enable] \in [Nodes -> Rows]
      BY DEF Rows, MasterRows
    <3> QED
      BY <1>5, <3>1 DEF ReconcileFails
  <2>2. job' \in [Nodes -> JobSteps]
    BY <1>5 DEF ReconcileFails, JobSteps
  <2> QED
    BY <1>5, <2>1, <2>2 DEF ReconcileFails, Fault
<1>6. CASE FetchFails(n)
  BY <1>6, StepTypes DEF FetchFails, Fault
<1> QED
  BY <1>1, <1>2, <1>3, <1>4, <1>5, <1>6 DEF Sync

LEMMA TypeNode ==
  ASSUME TypeOK, NEW n \in Nodes,
         Use(n) \/ NodeDepletes(n) \/ NodeRegresses(n)
  PROVE  TypeOK'
<1> USE DEF TypeOK
<1>1. CASE Use(n)
  BY <1>1 DEF Use, Rows
<1>2. CASE NodeDepletes(n)
  BY <1>2 DEF NodeDepletes, Rows
<1>3. CASE NodeRegresses(n)
  <2>1. \A u \in 0 .. node[n].used : [used |-> u, enable |-> TRUE] \in Rows
    BY DEF Rows
  <2> QED
    BY <1>3, <2>1 DEF NodeRegresses, Fault
<1> QED
  BY <1>1, <1>2, <1>3

LEMMA TypeRest ==
  ASSUME TypeOK,
         Deplete \/ Tick \/ MasterRestarts \/ \E c \in Callers : Restore(c)
  PROVE  TypeOK'
<1> USE DEF TypeOK
<1>1. CASE Deplete
  BY <1>1, MarkType DEF Deplete, MasterRows
<1>2. CASE Tick
  BY <1>2 DEF Tick, IdleJob, JobSteps, Rows, Fresh
<1>3. CASE MasterRestarts
  BY <1>3, StepTypes DEF MasterRestarts, Fault
<1>4. ASSUME NEW c \in Callers, Restore(c) PROVE TypeOK'
  BY <1>4, MarkType DEF Restore, MasterRows
<1> QED
  BY <1>1, <1>2, <1>3, <1>4

LEMMA TypeStep == TypeOK /\ [Next]_vars => TypeOK'
<1> SUFFICES ASSUME TypeOK, [Next]_vars PROVE TypeOK'
  OBVIOUS
<1>1. CASE UNCHANGED vars
  BY <1>1 DEF vars, TypeOK
<1>2. ASSUME NEW c \in Callers, BulkReset(c) PROVE TypeOK'
  BY <1>2, TypeZeroed DEF BulkReset
<1>3. ASSUME NEW c \in Callers, NEW n \in Nodes, SingleReset(c, n) PROVE TypeOK'
  BY <1>3, TypeZeroed DEF SingleReset
<1>4. ASSUME NEW d \in Deliverers, NEW n \in Nodes,
             Deliver(d, n) \/ CallFails(d, n) PROVE TypeOK'
  BY <1>4, TypeDeliver
<1>5. ASSUME NEW n \in Nodes, Sync(n) \/ ReconcileFails(n) \/ FetchFails(n)
      PROVE TypeOK'
  BY <1>5, TypeSync
<1>6. ASSUME NEW n \in Nodes, Use(n) \/ NodeDepletes(n) \/ NodeRegresses(n)
      PROVE TypeOK'
  BY <1>6, TypeNode
<1> QED
  BY <1>1, <1>2, <1>3, <1>4, <1>5, <1>6, TypeRest DEF Next

(* Every variable keeps its type.                                           *)
THEOREM TypeCorrect == Spec => []TypeOK
<1>1. Init => TypeOK
  BY TypeInit
<1>2. TypeOK /\ [Next]_vars => TypeOK'
  BY TypeStep
<1> QED
  BY <1>1, <1>2, PTL DEF Spec

-----------------------------------------------------------------------------
(* A reset stays queued until the node obeyed it.  Whoever is about to drop  *)
(* the row it read knows that the node obeyed no earlier reset than that.    *)

QueueInv ==
  /\ \A n \in Nodes : /\ asked[n] <= resets /\ heard[n] <= resets
                      /\ queue[n] # NoReset => queue[n] = asked[n]
                      /\ heard[n] < asked[n] => queue[n] = asked[n]
  /\ \A d \in Deliverers, n \in Nodes :
       /\ deliver[d][n].pc \in {"call", "drop"} => deliver[d][n].at <= resets
       /\ deliver[d][n].pc = "drop" => deliver[d][n].at <= heard[n]

LEMMA QueueInit == Init => QueueInv
  BY DEF Init, QueueInv, NoReset, IdleDelivery

LEMMA QueueZeroed ==
  ASSUME TypeOK, QueueInv, NEW c \in Callers, NEW ns \in SUBSET Nodes,
         NEW ms \in SUBSET Nodes, Zeroed(c, ns, ms)
  PROVE  QueueInv'
<1> USE DEF TypeOK, QueueInv
<1>1. \A n \in Nodes : /\ asked'[n] = resets' /\ queue'[n] = asked'[n]
                      /\ heard'[n] <= resets'
  BY DEF Zeroed
<1>2. ASSUME NEW d \in Deliverers, NEW n \in Nodes
      PROVE  \/ /\ deliver'[d][n].pc = deliver[d][n].pc
                /\ deliver'[d][n].at = deliver[d][n].at
             \/ deliver'[d][n].pc \notin {"call", "drop"}
  <2>1. CASE d = c
    BY <2>1 DEF Zeroed, NodesOf
  <2>2. CASE d # c
    BY <2>2 DEF Zeroed
  <2> QED
    BY <2>1, <2>2
<1>3. \A d \in Deliverers, n \in Nodes : deliver[d][n].at \in Nat
  BY DEF DeliverSteps
<1>4. resets' = resets + 1 /\ heard' = heard
  BY DEF Zeroed
<1> QED
  BY <1>1, <1>2, <1>3, <1>4

LEMMA QueueDeliver ==
  ASSUME TypeOK, QueueInv, NEW d \in Deliverers, NEW n \in Nodes,
         Deliver(d, n) \/ CallFails(d, n)
  PROVE  QueueInv'
<1> USE DEF TypeOK, QueueInv
<1>0. \A e \in Deliverers, m \in Nodes : /\ deliver[e][m] \in DeliverSteps
                                         /\ deliver[e][m].at \in Nat
                                         /\ heard[m] \in Nat
  BY DEF DeliverSteps
<1>1. CASE ReadQueue(d, n)
  <2>1. \A e \in Deliverers, m \in Nodes :
          deliver'[e][m] = IF e = d /\ m = n
                             THEN IF queue[n] = NoReset THEN IdleDelivery
                                    ELSE [pc |-> "call", at |-> queue[n]]
                             ELSE deliver[e][m]
    BY <1>1 DEF ReadQueue, Ended
  <2> QED
    BY <1>1, <2>1 DEF ReadQueue, IdleDelivery
<1>2. ASSUME NodeObeys(n), resets' = resets, asked' = asked, queue' = queue
      PROVE  /\ \A m \in Nodes : /\ heard'[m] \in Nat /\ heard[m] <= heard'[m]
                                /\ heard'[m] <= resets'
             /\ heard'[n] = resets
             /\ \A m \in Nodes : heard'[m] < asked'[m] => queue'[m] = asked'[m]
  BY <1>2 DEF NodeObeys
<1>3. CASE CallReset(d, n)
  <2>1. \A e \in Deliverers, m \in Nodes :
          deliver'[e][m] = IF e = d /\ m = n THEN [deliver[d][n] EXCEPT !.pc = "drop"]
                                            ELSE deliver[e][m]
    BY <1>3 DEF CallReset
  <2>2. deliver[d][n].at <= resets
    BY <1>3 DEF CallReset
  <2>3. resets' = resets /\ asked' = asked /\ queue' = queue /\ NodeObeys(n)
    BY <1>3 DEF CallReset
  <2>8. \A m \in Nodes : /\ asked'[m] <= resets' /\ heard'[m] <= resets'
                         /\ queue'[m] # NoReset => queue'[m] = asked'[m]
                         /\ heard'[m] < asked'[m] => queue'[m] = asked'[m]
    BY <1>2, <2>3
  <2>9. ASSUME NEW e \in Deliverers, NEW m \in Nodes
        PROVE  /\ deliver'[e][m].pc \in {"call", "drop"} => deliver'[e][m].at <= resets'
               /\ deliver'[e][m].pc = "drop" => deliver'[e][m].at <= heard'[m]
    <3>1. CASE e = d /\ m = n
      BY <3>1, <1>0, <1>2, <2>1, <2>2, <2>3 DEF DeliverSteps
    <3>2. CASE ~(e = d /\ m = n)
      <4>1. deliver'[e][m] = deliver[e][m]
        BY <3>2, <2>1
      <4>2. heard'[m] \in Nat /\ heard[m] <= heard'[m]
        BY <1>2, <2>3
      <4> QED
        BY <1>0, <4>1, <4>2, <2>3
    <3> QED
      BY <3>1, <3>2
  <2> QED
    BY <2>8, <2>9
<1>4. CASE CallFails(d, n)
  <2>1. \A e \in Deliverers, m \in Nodes :
          deliver'[e][m] = IF e = d /\ m = n THEN IdleDelivery ELSE deliver[e][m]
    BY <1>4 DEF CallFails, Ended
  <2>2. resets' = resets /\ asked' = asked /\ queue' = queue
        /\ (NodeObeys(n) \/ heard' = heard)
    BY <1>4 DEF CallFails
  <2>8. \A m \in Nodes : /\ asked'[m] <= resets' /\ heard'[m] <= resets'
                         /\ queue'[m] # NoReset => queue'[m] = asked'[m]
                         /\ heard'[m] < asked'[m] => queue'[m] = asked'[m]
    BY <1>2, <2>2
  <2>9. ASSUME NEW e \in Deliverers, NEW m \in Nodes
        PROVE  /\ deliver'[e][m].pc \in {"call", "drop"} => deliver'[e][m].at <= resets'
               /\ deliver'[e][m].pc = "drop" => deliver'[e][m].at <= heard'[m]
    <3>1. CASE e = d /\ m = n
      BY <3>1, <2>1 DEF IdleDelivery
    <3>2. CASE ~(e = d /\ m = n)
      <4>1. deliver'[e][m] = deliver[e][m]
        BY <3>2, <2>1
      <4>2. heard'[m] \in Nat /\ heard[m] <= heard'[m]
        BY <1>0, <1>2, <2>2
      <4> QED
        BY <1>0, <4>1, <4>2, <2>2
    <3> QED
      BY <3>1, <3>2
  <2> QED
    BY <2>8, <2>9
<1>5. CASE DropRow(d, n)
  <2>1. \A e \in Deliverers, m \in Nodes :
          deliver'[e][m] = IF e = d /\ m = n THEN IdleDelivery ELSE deliver[e][m]
    BY <1>5 DEF DropRow, Ended
  <2>2. resets' = resets /\ asked' = asked /\ heard' = heard
    BY <1>5 DEF DropRow
  <2>3. deliver[d][n].at <= heard[n]
    BY <1>5 DEF DropRow
  <2>4. \A m \in Nodes : \/ queue'[m] = queue[m]
                         \/ queue'[m] = NoReset /\ m = n /\ queue[n] = deliver[d][n].at
    BY <1>5 DEF DropRow, Unchanged
  <2>8. \A m \in Nodes : /\ asked'[m] <= resets' /\ heard'[m] <= resets'
                         /\ queue'[m] # NoReset => queue'[m] = asked'[m]
                         /\ heard'[m] < asked'[m] => queue'[m] = asked'[m]
    BY <1>0, <2>2, <2>3, <2>4 DEF DeliverSteps, NoReset
  <2>9. ASSUME NEW e \in Deliverers, NEW m \in Nodes
        PROVE  /\ deliver'[e][m].pc \in {"call", "drop"} => deliver'[e][m].at <= resets'
               /\ deliver'[e][m].pc = "drop" => deliver'[e][m].at <= heard'[m]
    <3>1. CASE e = d /\ m = n
      BY <3>1, <2>1 DEF IdleDelivery
    <3>2. CASE ~(e = d /\ m = n)
      BY <1>0, <2>1, <2>2, <3>2
    <3> QED
      BY <3>1, <3>2
  <2> QED
    BY <2>8, <2>9
<1> QED
  BY <1>1, <1>3, <1>4, <1>5 DEF Deliver

LEMMA QueueStep == TypeOK /\ QueueInv /\ [Next]_vars => QueueInv'
<1> SUFFICES ASSUME TypeOK, QueueInv, [Next]_vars PROVE QueueInv'
  OBVIOUS
<1>1. ASSUME UNCHANGED <<asked, heard, queue, resets, deliver>> PROVE QueueInv'
  BY <1>1 DEF QueueInv
<1>2. CASE UNCHANGED vars
  BY <1>1, <1>2 DEF vars
<1>3. ASSUME NEW c \in Callers, BulkReset(c) PROVE QueueInv'
  BY <1>3, QueueZeroed DEF BulkReset
<1>4. ASSUME NEW c \in Callers, NEW n \in Nodes, SingleReset(c, n) PROVE QueueInv'
  BY <1>4, QueueZeroed DEF SingleReset
<1>5. ASSUME NEW d \in Deliverers, NEW n \in Nodes,
             Deliver(d, n) \/ CallFails(d, n) PROVE QueueInv'
  BY <1>5, QueueDeliver
<1>6. ASSUME NEW n \in Nodes, JobDelivers(n) PROVE QueueInv'
  <2>1. \A e \in Deliverers, m \in Nodes :
          \/ deliver'[e][m] = deliver[e][m] \/ deliver'[e][m].pc = "wait"
    BY <1>6 DEF JobDelivers, TypeOK, DeliverSteps
  <2> QED
    BY <1>6, <2>1 DEF JobDelivers, QueueInv
<1>7. CASE MasterRestarts
  BY <1>7 DEF MasterRestarts, QueueInv, IdleDelivery
<1>8. ASSUME NEW c \in Callers, Restore(c) PROVE QueueInv'
  BY <1>1, <1>8 DEF Restore
<1>9. CASE Deplete \/ Tick
  BY <1>1, <1>9 DEF Deplete, Tick
<1>10. ASSUME NEW n \in Nodes, \/ Reconcile(n) \/ Fetch(n) \/ Merge(n) \/ Use(n)
                              \/ ReconcileFails(n) \/ FetchFails(n)
                              \/ NodeDepletes(n) \/ NodeRegresses(n)
       PROVE QueueInv'
  BY <1>1, <1>10 DEF Reconcile, Fetch, Merge, Use, ReconcileFails, FetchFails,
                     NodeDepletes, NodeRegresses
<1> QED
  BY <1>2, <1>3, <1>4, <1>5, <1>6, <1>7, <1>8, <1>9, <1>10 DEF Next, Sync

(* No reset is dropped before the node obeyed it, whoever delivers it and     *)
(* whatever fails.                                                          *)
THEOREM ResetsReach == Spec => []OwedUntilHeard
<1>1. Init => TypeOK /\ QueueInv
  BY TypeInit, QueueInit
<1>2. TypeOK /\ QueueInv /\ [Next]_vars => (TypeOK /\ QueueInv)'
  BY TypeStep, QueueStep
<1>3. QueueInv => OwedUntilHeard
  BY DEF QueueInv, OwedUntilHeard
<1> QED
  BY <1>1, <1>2, <1>3, PTL DEF Spec

-----------------------------------------------------------------------------
(* Nothing is charged twice.  What a node's counter stands above its baseline *)
(* may still be added to the row; what it has gained over a snapshot that is  *)
(* out will stand above the baseline that snapshot leaves.                   *)

Above(x, y) == IF x > y THEN x - y ELSE 0

Chargeable(n) ==
  /\ row.used[n] <= since[n]
  /\ base[n] # Unseen => row.used[n] + Above(node[n].used, base[n]) <= since[n]
  /\ job[n].pc = "merge" =>
       LET s == job[n].snap.used IN
       /\ Above(node[n].used, s) <= fetched[n]
       /\ row.used[n] + Above(node[n].used, s) <= since[n]
       /\ base[n] # Unseen =>
            row.used[n] + Above(s, base[n]) + Above(node[n].used, s) <= since[n]

ChargeInv == \A n \in Nodes : Chargeable(n)

LEMMA Numbers ==
  ASSUME TypeOK, NEW n \in Nodes
  PROVE  /\ row.used[n] \in Nat /\ node[n].used \in Nat /\ job[n].snap.used \in Nat
         /\ since[n] \in Nat /\ fetched[n] \in Nat
         /\ base[n] = Unseen \/ (base[n] \in Nat /\ base[n] # Unseen)
  BY DEF TypeOK, Rows, MasterRows, JobSteps, Unseen

LEMMA ChargeInit == Init => ChargeInv
  BY DEF Init, ChargeInv, Chargeable, Above, FreshRow, Fresh, IdleJob, Unseen

LEMMA ChargeZeroed ==
  ASSUME TypeOK, ChargeInv, NEW c \in Callers, NEW ns \in SUBSET Nodes,
         NEW ms \in SUBSET Nodes, Zeroed(c, ns, ms), NEW n \in Nodes
  PROVE  Chargeable(n)'
<1>1. row'.used[n] = 0 /\ base'[n] = Unseen
  BY DEF Zeroed, FreshRow, NoBaselines
<1>2. since'[n] = IF job[n].pc = "merge" THEN fetched[n] ELSE 0
  BY DEF Zeroed
<1>3. job' = job /\ node' = node /\ fetched' = fetched
  BY DEF Zeroed
<1> QED
  BY <1>1, <1>2, <1>3, Numbers DEF ChargeInv, Chargeable, Above

\* A step that only lowers the node's counter, or ends its tick.
LEMMA ChargeLower ==
  ASSUME TypeOK, ChargeInv, NEW n \in Nodes,
         row'.used[n] = row.used[n], base'[n] = base[n], since'[n] = since[n],
         fetched'[n] = fetched[n], node'[n].used \in 0 .. node[n].used,
         job'[n].pc = "merge" => job'[n] = job[n]
  PROVE  Chargeable(n)'
  BY Numbers DEF ChargeInv, Chargeable, Above

LEMMA ChargeUse ==
  ASSUME TypeOK, ChargeInv, NEW n \in Nodes, NEW m \in Nodes, Use(m)
  PROVE  Chargeable(n)'
<1>1. row' = row /\ base' = base /\ job' = job
  BY DEF Use
<1>2. CASE m = n
  <2>1. node'[n].used = node[n].used + 1 /\ since'[n] = since[n] + 1
        /\ fetched'[n] = fetched[n] + 1
    BY <1>2 DEF Use, TypeOK, Rows
  <2> QED
    BY <1>1, <2>1, Numbers DEF ChargeInv, Chargeable, Above
<1>3. CASE m # n
  <2>1. node'[n] = node[n] /\ since'[n] = since[n] /\ fetched'[n] = fetched[n]
    BY <1>3 DEF Use, TypeOK
  <2> QED
    BY <1>1, <2>1 DEF ChargeInv, Chargeable, Above
<1> QED
  BY <1>2, <1>3

LEMMA ChargeMerge ==
  ASSUME TypeOK, ChargeInv, NEW n \in Nodes, Merge(n)
  PROVE  Chargeable(n)'
<1> DEFINE s == job[n].snap.used
<1>1. job'[n].pc # "merge" /\ node' = node /\ since' = since /\ job[n].pc = "merge"
  BY DEF Merge, IdleJob, TypeOK
<1>2. row'.used[n] = row.used[n] + Delta(n)
  BY DEF Merge, TypeOK, MasterRows
<1>3. Delta(n) = IF base[n] = Unseen THEN 0 ELSE Above(s, base[n])
  BY Numbers DEF Delta, Above
<1>4. \/ base'[n] = s
      \/ base'[n] = base[n] /\ base[n] # Unseen /\ s < base[n]
  BY DEF Merge, TypeOK
<1> HIDE DEF s
<1>5. s \in Nat
  BY Numbers DEF s
<1>6. /\ row.used[n] + Above(node[n].used, s) <= since[n]
      /\ base[n] # Unseen =>
           /\ row.used[n] + Above(s, base[n]) + Above(node[n].used, s) <= since[n]
           /\ row.used[n] + Above(node[n].used, base[n]) <= since[n]
  BY <1>1 DEF ChargeInv, Chargeable, s
<1> QED
  BY <1>1, <1>2, <1>3, <1>4, <1>5, <1>6, Numbers DEF Chargeable, Above

LEMMA ChargeFetch ==
  ASSUME TypeOK, ChargeInv, NEW n \in Nodes, Fetch(n)
  PROVE  Chargeable(n)'
<1>1. job'[n].snap.used = node[n].used /\ fetched'[n] = 0
  BY DEF Fetch, TypeOK, JobSteps
<1>2. row' = row /\ base' = base /\ node' = node /\ since' = since
  BY DEF Fetch
<1> QED
  BY <1>1, <1>2, Numbers DEF ChargeInv, Chargeable, Above

LEMMA ChargeDeliver ==
  ASSUME TypeOK, ChargeInv, NEW n \in Nodes, NEW d \in Deliverers, NEW m \in Nodes,
         Deliver(d, m) \/ CallFails(d, m)
  PROVE  Chargeable(n)'
<1>1. row' = row /\ base' = base /\ since' = since /\ fetched' = fetched
  BY DEF Deliver, ReadQueue, CallReset, DropRow, CallFails
<1>2. job'[n].pc = "merge" => job'[n] = job[n]
  BY DEF Deliver, ReadQueue, CallReset, DropRow, CallFails, Ended, TypeOK, JobSteps
<1>3. node'[n] = node[n] \/ node'[n] = Fresh
  BY DEF Deliver, ReadQueue, CallReset, DropRow, CallFails, NodeObeys, TypeOK
<1>4. node'[n].used \in 0 .. node[n].used
  BY <1>3, Numbers DEF Fresh
<1> QED
  BY <1>1, <1>2, <1>4, ChargeLower

LEMMA ChargeStep == TypeOK /\ ChargeInv /\ [Next]_vars => ChargeInv'
<1> SUFFICES ASSUME TypeOK, ChargeInv, [Next]_vars, NEW n \in Nodes
             PROVE  Chargeable(n)'
  BY DEF ChargeInv
<1>0. node[n].used \in 0 .. node[n].used
  BY Numbers
<1>1. ASSUME UNCHANGED <<base, since, fetched>>, row'.used = row.used,
             node'[n].used = node[n].used, job'[n].pc = "merge" => job'[n] = job[n]
      PROVE  Chargeable(n)'
  BY <1>0, <1>1, ChargeLower
<1>2. CASE UNCHANGED vars
  BY <1>1, <1>2 DEF vars
<1>3. ASSUME NEW c \in Callers, BulkReset(c) PROVE Chargeable(n)'
  BY <1>3, ChargeZeroed DEF BulkReset
<1>4. ASSUME NEW c \in Callers, NEW m \in Nodes, SingleReset(c, m)
      PROVE  Chargeable(n)'
  BY <1>4, ChargeZeroed DEF SingleReset
<1>5. ASSUME NEW d \in Deliverers, NEW m \in Nodes,
             Deliver(d, m) \/ CallFails(d, m) PROVE Chargeable(n)'
  BY <1>5, ChargeDeliver
<1>6. ASSUME NEW c \in Callers, Restore(c) PROVE Chargeable(n)'
  BY <1>1, <1>6 DEF Restore, TypeOK, MasterRows
<1>7. CASE Deplete
  BY <1>1, <1>7 DEF Deplete, TypeOK, MasterRows
<1>8. CASE Tick \/ MasterRestarts
  BY <1>1, <1>8 DEF Tick, MasterRestarts, IdleJob
<1>9. ASSUME NEW m \in Nodes, Use(m) PROVE Chargeable(n)'
  BY <1>9, ChargeUse
<1>10. ASSUME NEW m \in Nodes, \/ Reconcile(m) \/ ReconcileFails(m)
                              \/ JobDelivers(m) \/ FetchFails(m) \/ NodeDepletes(m)
       PROVE  Chargeable(n)'
  <2>1. row' = row /\ base' = base /\ since' = since /\ fetched' = fetched
    BY <1>10 DEF Reconcile, ReconcileFails, JobDelivers, FetchFails, NodeDepletes
  <2>2. job'[n].pc = "merge" => job'[n] = job[n]
    BY <1>10 DEF Reconcile, ReconcileFails, JobDelivers, FetchFails, NodeDepletes,
                 IdleJob, TypeOK, JobSteps
  <2>3. node'[n].used = node[n].used
    BY <1>10 DEF Reconcile, ReconcileFails, JobDelivers, FetchFails, NodeDepletes,
                 TypeOK, Rows
  <2> QED
    BY <1>1, <2>1, <2>2, <2>3
<1>11. ASSUME NEW m \in Nodes, NodeRegresses(m) PROVE Chargeable(n)'
  <2>1. row' = row /\ base' = base /\ since' = since /\ fetched' = fetched /\ job' = job
    BY <1>11 DEF NodeRegresses
  <2>2. node'[n].used \in 0 .. node[n].used
    BY <1>0, <1>11 DEF NodeRegresses, TypeOK
  <2> QED
    BY <2>1, <2>2, ChargeLower
<1>12. ASSUME NEW m \in Nodes, Fetch(m) PROVE Chargeable(n)'
  <2>1. CASE m = n
    BY <1>12, <2>1, ChargeFetch
  <2>2. CASE m # n
    BY <1>12, <2>2, <1>0, ChargeLower DEF Fetch, TypeOK
  <2> QED
    BY <2>1, <2>2
<1>13. ASSUME NEW m \in Nodes, Merge(m) PROVE Chargeable(n)'
  <2>1. CASE m = n
    BY <1>13, <2>1, ChargeMerge
  <2>2. CASE m # n
    <3>1. row'.used[n] = row.used[n] /\ base'[n] = base[n] /\ job'[n] = job[n]
      BY <1>13, <2>2 DEF Merge, TypeOK, MasterRows
    <3>2. since' = since /\ fetched' = fetched /\ node' = node
      BY <1>13 DEF Merge
    <3> QED
      BY <1>0, <3>1, <3>2, ChargeLower
  <2> QED
    BY <2>1, <2>2
<1> QED
  BY <1>2, <1>3, <1>4, <1>5, <1>6, <1>7, <1>8, <1>9, <1>10, <1>11, <1>12, <1>13
     DEF Next, Sync

(* The master's row never holds more than was used since the reset.          *)
THEOREM NothingOvercounted == Spec => []NeverOvercounts
<1>1. Init => TypeOK /\ ChargeInv
  BY TypeInit, ChargeInit
<1>2. TypeOK /\ ChargeInv /\ [Next]_vars => (TypeOK /\ ChargeInv)'
  BY TypeStep, ChargeStep
<1>3. ChargeInv => NeverOvercounts
  BY DEF ChargeInv, Chargeable, NeverOvercounts
<1> QED
  BY <1>1, <1>2, <1>3, PTL DEF Spec

-----------------------------------------------------------------------------
(* A reset stands.  A node that owes no reset has counted no more than was    *)
(* used since the last one, and neither has a snapshot that may still switch  *)
(* the client off: one that was out when its node took a reset is either held *)
(* back by the node's mark or counted as overtaken.                          *)

Latchable(n) ==
  /\ queue[n] = NoReset => node[n].used <= since[n]
  /\ \A d \in Deliverers :
       deliver[d][n].pc = "drop" /\ deliver[d][n].at = queue[n] => node[n].used <= since[n]
  /\ job[n].pc = "merge" /\ queue[n] = NoReset /\ ~dirty[n] /\ ~overtaken =>
       job[n].snap.used <= since[n]

LatchInv == \A n \in Nodes : Latchable(n)

LEMMA LatchInit == Init => LatchInv
  BY DEF Init, LatchInv, Latchable, Fresh, IdleDelivery, IdleJob

LEMMA LatchZeroed ==
  ASSUME TypeOK, QueueInv, LatchInv, NEW c \in Callers, NEW ns \in SUBSET Nodes,
         NEW ms \in SUBSET Nodes, Zeroed(c, ns, ms), NEW n \in Nodes
  PROVE  Latchable(n)'
<1>1. queue'[n] = resets + 1 /\ resets \in Nat
  BY DEF Zeroed, TypeOK
<1>2. ASSUME NEW d \in Deliverers, deliver'[d][n].pc = "drop"
      PROVE  deliver'[d][n].at # queue'[n]
  <2>1. deliver'[d][n] = deliver[d][n]
    BY <1>2 DEF Zeroed, NodesOf, TypeOK
  <2>2. deliver[d][n].at <= resets /\ deliver[d][n].at \in Nat
    BY <1>2, <2>1 DEF QueueInv, TypeOK, DeliverSteps
  <2> QED
    BY <1>1, <2>1, <2>2
<1> QED
  BY <1>1, <1>2 DEF Latchable, NoReset

\* A step that leaves the queue and the deliveries, only lowers the node's
\* counter, and marks the node or ends its tick if anything.
LEMMA LatchLower ==
  ASSUME TypeOK, LatchInv, NEW n \in Nodes,
         queue'[n] = queue[n], since'[n] = since[n], overtaken' = overtaken,
         node'[n].used \in 0 .. node[n].used,
         \A d \in Deliverers : deliver'[d][n].pc = "drop" => deliver'[d][n] = deliver[d][n],
         job'[n].pc = "merge" => job'[n] = job[n] /\ (dirty[n] => dirty'[n])
  PROVE  Latchable(n)'
  BY Numbers DEF LatchInv, Latchable

LEMMA LatchUse ==
  ASSUME TypeOK, LatchInv, NEW n \in Nodes, NEW m \in Nodes, Use(m)
  PROVE  Latchable(n)'
<1>1. queue' = queue /\ dirty' = dirty /\ job' = job /\ deliver' = deliver
      /\ overtaken' = overtaken
  BY DEF Use
<1>2. \/ node'[n].used = node[n].used + 1 /\ since'[n] = since[n] + 1
      \/ node'[n].used = node[n].used /\ since'[n] = since[n]
  BY DEF Use, TypeOK, Rows
<1> QED
  BY <1>1, <1>2, Numbers DEF LatchInv, Latchable

LEMMA LatchDeliver ==
  ASSUME TypeOK, LatchInv, NEW n \in Nodes, NEW d \in Deliverers, NEW m \in Nodes,
         Deliver(d, m) \/ CallFails(d, m)
  PROVE  Latchable(n)'
<1>1. since' = since /\ dirty' = dirty
  BY DEF Deliver, ReadQueue, CallReset, DropRow, CallFails
<1>2. job'[n].pc = "merge" => job'[n] = job[n]
  BY DEF Deliver, ReadQueue, CallReset, DropRow, CallFails, Ended, TypeOK, JobSteps
<1>3. node'[n] = node[n] \/ node'[n] = Fresh
  BY DEF Deliver, ReadQueue, CallReset, DropRow, CallFails, NodeObeys, TypeOK
<1>4. node'[n].used \in 0 .. node[n].used
  BY <1>3, Numbers DEF Fresh
<1>5. CASE ReadQueue(d, m) \/ CallFails(d, m)
  <2>1. queue' = queue /\ overtaken' = overtaken
    BY <1>5 DEF ReadQueue, CallFails
  <2>2. \A e \in Deliverers : deliver'[e][n].pc = "drop" => deliver'[e][n] = deliver[e][n]
    BY <1>5 DEF ReadQueue, CallFails, Ended, IdleDelivery, TypeOK
  <2> QED
    BY <1>1, <1>2, <1>4, <2>1, <2>2, LatchLower
<1>6. CASE CallReset(d, m)
  <2>1. queue' = queue /\ overtaken' = overtaken
    BY <1>6 DEF CallReset
  <2>2. CASE m = n
    <3>1. node'[n].used = 0
      BY <1>6, <2>2 DEF CallReset, NodeObeys, Fresh, TypeOK
    <3> QED
      BY <1>1, <1>2, <2>1, <3>1, Numbers DEF LatchInv, Latchable
  <2>3. CASE m # n
    <3>1. \A e \in Deliverers : deliver'[e][n] = deliver[e][n]
      BY <1>6, <2>3 DEF CallReset, TypeOK
    <3> QED
      BY <1>1, <1>2, <1>4, <2>1, <3>1, LatchLower
  <2> QED
    BY <2>2, <2>3
<1>7. CASE DropRow(d, m)
  <2>1. node' = node /\ deliver[d][m].pc = "drop"
    BY <1>7 DEF DropRow
  <2>2. \A e \in Deliverers : deliver'[e][n].pc = "drop" => deliver'[e][n] = deliver[e][n]
    BY <1>7 DEF DropRow, Ended, IdleDelivery, TypeOK
  <2>3. overtaken' = (overtaken \/ (job[m].pc = "merge" /\ ~dirty[m]))
    BY <1>7 DEF DropRow
  <2>4. CASE queue'[n] = queue[n]
    BY <1>1, <1>2, <2>1, <2>2, <2>3, <2>4, Numbers DEF LatchInv, Latchable
  <2>5. CASE queue'[n] # queue[n]
    <3>1. m = n /\ queue[n] = deliver[d][n].at
      BY <1>7, <2>5 DEF DropRow, Unchanged, TypeOK
    <3>2. node'[n].used <= since'[n]
      BY <1>1, <2>1, <3>1 DEF LatchInv, Latchable
    <3>3. job'[n].pc = "merge" /\ ~dirty'[n] => overtaken'
      BY <1>1, <1>2, <2>3, <3>1
    <3> QED
      BY <3>2, <3>3 DEF Latchable
  <2> QED
    BY <2>4, <2>5
<1> QED
  BY <1>5, <1>6, <1>7 DEF Deliver

LEMMA LatchStep == TypeOK /\ QueueInv /\ LatchInv /\ [Next]_vars => LatchInv'
<1> SUFFICES ASSUME TypeOK, QueueInv, LatchInv, [Next]_vars, NEW n \in Nodes
             PROVE  Latchable(n)'
  BY DEF LatchInv
<1>0. node[n].used \in 0 .. node[n].used
  BY Numbers
<1>1. ASSUME UNCHANGED <<queue, since, overtaken, deliver>>,
             node'[n].used \in 0 .. node[n].used,
             job'[n].pc = "merge" => job'[n] = job[n] /\ (dirty[n] => dirty'[n])
      PROVE  Latchable(n)'
  BY <1>1, LatchLower
<1>2. CASE UNCHANGED vars
  BY <1>0, <1>1, <1>2 DEF vars
<1>3. ASSUME NEW c \in Callers, BulkReset(c) PROVE Latchable(n)'
  BY <1>3, LatchZeroed DEF BulkReset
<1>4. ASSUME NEW c \in Callers, NEW m \in Nodes, SingleReset(c, m)
      PROVE  Latchable(n)'
  BY <1>4, LatchZeroed DEF SingleReset
<1>5. ASSUME NEW d \in Deliverers, NEW m \in Nodes,
             Deliver(d, m) \/ CallFails(d, m) PROVE Latchable(n)'
  BY <1>5, LatchDeliver
<1>6. ASSUME NEW ns, MarkDirty(ns) PROVE dirty[n] => dirty'[n]
  BY <1>6 DEF MarkDirty
<1>7. CASE Deplete \/ \E c \in Callers : Restore(c)
  BY <1>0, <1>1, <1>6, <1>7 DEF Deplete, Restore
<1>8. CASE Tick
  BY <1>0, <1>1, <1>8 DEF Tick, IdleJob
<1>9. CASE MasterRestarts
  <2>1. \A e \in Deliverers : deliver'[e][n].pc # "drop"
    BY <1>9 DEF MasterRestarts, IdleDelivery
  <2>2. job'[n].pc # "merge" /\ node' = node /\ queue' = queue /\ since' = since
        /\ overtaken' = overtaken
    BY <1>9 DEF MasterRestarts, IdleJob
  <2> QED
    BY <1>0, <2>1, <2>2, LatchLower
<1>10. ASSUME NEW m \in Nodes, Use(m) PROVE Latchable(n)'
  BY <1>10, LatchUse
<1>11. ASSUME NEW m \in Nodes, \/ Reconcile(m) \/ ReconcileFails(m)
                              \/ FetchFails(m) \/ NodeDepletes(m)
       PROVE  Latchable(n)'
  <2>1. UNCHANGED <<queue, since, overtaken, deliver>>
    BY <1>11 DEF Reconcile, ReconcileFails, FetchFails, NodeDepletes
  <2>2. job'[n].pc = "merge" => job'[n] = job[n] /\ dirty'[n] = dirty[n]
    BY <1>11 DEF Reconcile, ReconcileFails, FetchFails, NodeDepletes, IdleJob, TypeOK,
                 JobSteps
  <2>3. node'[n].used = node[n].used
    BY <1>11 DEF Reconcile, ReconcileFails, FetchFails, NodeDepletes, TypeOK, Rows
  <2> QED
    BY <1>0, <1>1, <2>1, <2>2, <2>3
<1>12. ASSUME NEW m \in Nodes, JobDelivers(m) PROVE Latchable(n)'
  <2>1. UNCHANGED <<queue, since, overtaken, dirty, node>>
    BY <1>12 DEF JobDelivers
  <2>2. job'[n].pc = "merge" => job'[n] = job[n]
    BY <1>12 DEF JobDelivers, TypeOK, JobSteps
  <2>3. \A e \in Deliverers : deliver'[e][n].pc = "drop" => deliver'[e][n] = deliver[e][n]
    BY <1>12 DEF JobDelivers, TypeOK, DeliverSteps
  <2> QED
    BY <1>0, <2>1, <2>2, <2>3, LatchLower
<1>13. ASSUME NEW m \in Nodes, NodeRegresses(m) PROVE Latchable(n)'
  <2>1. UNCHANGED <<queue, since, overtaken, deliver, job, dirty>>
    BY <1>13 DEF NodeRegresses
  <2>2. node'[n].used \in 0 .. node[n].used
    BY <1>0, <1>13 DEF NodeRegresses, TypeOK
  <2> QED
    BY <1>1, <2>1, <2>2
<1>14. ASSUME NEW m \in Nodes, Fetch(m) PROVE Latchable(n)'
  <2>1. UNCHANGED <<queue, since, overtaken, deliver, dirty, node>>
    BY <1>14 DEF Fetch
  <2>2. CASE m = n
    <3>1. job'[n].snap.used = node[n].used
      BY <1>14, <2>2 DEF Fetch, TypeOK, JobSteps
    <3> QED
      BY <2>1, <3>1 DEF LatchInv, Latchable
  <2>3. CASE m # n
    <3>1. job'[n] = job[n]
      BY <1>14, <2>3 DEF Fetch, TypeOK
    <3> QED
      BY <1>0, <1>1, <2>1, <3>1
  <2> QED
    BY <2>2, <2>3
<1>15. ASSUME NEW m \in Nodes, Merge(m) PROVE Latchable(n)'
  <2>1. UNCHANGED <<queue, since, overtaken, deliver, node>>
    BY <1>15 DEF Merge
  <2>2. dirty[n] => dirty'[n]
    BY <1>6, <1>15 DEF Merge
  <2>3. job'[n].pc = "merge" => job'[n] = job[n]
    BY <1>15 DEF Merge, IdleJob, TypeOK
  <2> QED
    BY <1>0, <1>1, <2>1, <2>2, <2>3
<1> QED
  BY <1>2, <1>3, <1>4, <1>5, <1>7, <1>8, <1>9, <1>10, <1>11, <1>12, <1>13, <1>14, <1>15
     DEF Next, Sync

\* Totals over the nodes.
LEMMA TotalIs ==
  ASSUME NEW f \in [Nodes -> Nat]
  PROVE  Total(f) = SumFunctionOnSet(f, Nodes) /\ Total(f) \in Nat
<1>1. Total(f) = SumFunctionOnSet(f, DOMAIN f)
  BY DEF Total, FoldFunction, SumFunctionOnSet
<1>2. DOMAIN f = Nodes /\ \A n \in Nodes : f[n] \in Nat
  OBVIOUS
<1> QED
  BY <1>1, <1>2, SumType

LEMMA TotalMonotone ==
  ASSUME NEW f \in [Nodes -> Nat], NEW g \in [Nodes -> Nat], \A n \in Nodes : f[n] <= g[n]
  PROVE  Total(f) <= Total(g)
<1>1. \A n \in Nodes : f[n] \in Nat /\ g[n] \in Nat /\ f[n] <= g[n]
  OBVIOUS
<1> QED
  BY <1>1, TotalIs, SumMonotone

LEMMA TotalOneUp ==
  ASSUME NEW f \in [Nodes -> Nat], NEW n \in Nodes, NEW d \in Nat
  PROVE  Total([f EXCEPT ![n] = @ + d]) = Total(f) + d
<1> DEFINE g == [f EXCEPT ![n] = @ + d]
<1>1. g \in [Nodes -> Nat]
  OBVIOUS
<1>2. /\ \A m \in Nodes : f[m] \in Nat
      /\ \A m \in Nodes : g[m] = IF m = n THEN f[m] + d ELSE f[m]
  OBVIOUS
<1> HIDE DEF g
<1>3. SumFunctionOnSet(g, Nodes) = SumFunctionOnSet(f, Nodes) + d
  BY <1>2, SumChanges
<1>4. Total(g) = Total(f) + d
  BY <1>1, <1>3, TotalIs
<1> QED
  BY <1>4 DEF g

LEMMA TotalAtLeast ==
  ASSUME NEW f \in [Nodes -> Nat], NEW n \in Nodes
  PROVE  f[n] <= Total(f)
<1>1. \A m \in Nodes : f[m] \in Nat
  OBVIOUS
<1>2. SumFunctionOnSet(f, Nodes) = f[n] + SumFunctionOnSet(f, Nodes \ {n})
  BY <1>1, SumTakesOut
<1>3. SumFunctionOnSet(f, Nodes \ {n}) \in Nat /\ f[n] \in Nat
  <2>1. IsFiniteSet(Nodes \ {n})
    BY FS_Subset
  <2> QED
    BY <1>1, <2>1, SumType
<1> QED
  BY <1>2, <1>3, TotalIs

\* What is charged is at most what was used, node by node and so in all.
LEMMA ChargedAtMostUsed ==
  ASSUME TypeOK, ChargeInv
  PROVE  /\ row.used \in [Nodes -> Nat] /\ since \in [Nodes -> Nat]
         /\ Total(row.used) \in Nat /\ Total(since) \in Nat
         /\ Total(row.used) <= Total(since)
<1>1. row.used \in [Nodes -> Nat] /\ since \in [Nodes -> Nat]
  BY DEF TypeOK, MasterRows
<1>2. \A n \in Nodes : row.used[n] <= since[n]
  BY DEF ChargeInv, Chargeable
<1> QED
  BY <1>1, <1>2, TotalIs, TotalMonotone

\* The verdict of a node that the merge takes over is one the usage bears out.
LEMMA VerdictMerge ==
  ASSUME TypeOK, ChargeInv, LatchInv, ChargeInv', TypeOK', ResetStandsUnlessOvertaken,
         NEW n \in Nodes, Merge(n)
  PROVE  ResetStandsUnlessOvertaken'
<1>1. overtaken' = overtaken /\ since' = since /\ job[n].pc = "merge"
      /\ row' = [used |-> [row.used EXCEPT ![n] = @ + Delta(n)],
                 enable |-> row.enable /\ ~Latches(n)]
  BY DEF Merge
<1>2. CASE ~Latches(n)
  BY <1>1, <1>2 DEF ResetStandsUnlessOvertaken, ResetStands
<1>3. CASE Latches(n) /\ ~overtaken
  <2>1. ~DisableIsStale(n) /\ queue[n] = NoReset /\ ~dirty[n]
    BY <1>3 DEF Latches, Frozen
  <2>2. CASE job[n].snap.used >= Quota
    <3>1. job[n].snap.used <= since[n]
      BY <1>1, <1>3, <2>1 DEF LatchInv, Latchable
    <3>2. since[n] <= Total(since) /\ Total(since) \in Nat
      BY ChargedAtMostUsed, TotalAtLeast
    <3>3. Total(since) >= Quota
      BY <2>2, <3>1, <3>2, Numbers
    <3> QED
      BY <1>1, <3>3 DEF ResetStandsUnlessOvertaken, ResetStands
  <2>3. CASE job[n].snap.used < Quota
    <3>1. ~(Total(row.used) + Delta(n) < Quota)
      BY <2>1, <2>3 DEF DisableIsStale
    <3>2. Total(row'.used) = Total(row.used) + Delta(n)
      BY <1>1, ChargedAtMostUsed, DeltaType, TotalOneUp
    <3>3. Total(row'.used) <= Total(since') /\ Total(row'.used) \in Nat
          /\ Total(since') \in Nat
      <4>1. row'.used \in [Nodes -> Nat] /\ since' \in [Nodes -> Nat]
        BY DEF TypeOK, MasterRows
      <4>2. \A m \in Nodes : row'.used[m] <= since'[m]
        BY DEF ChargeInv, Chargeable
      <4> QED
        BY <4>1, <4>2, TotalIs, TotalMonotone
    <3>4. Total(since') >= Quota
      BY <3>1, <3>2, <3>3
    <3> QED
      BY <3>4 DEF ResetStandsUnlessOvertaken, ResetStands
  <2> QED
    BY <2>2, <2>3, Numbers
<1>4. CASE overtaken
  BY <1>1, <1>4 DEF ResetStandsUnlessOvertaken
<1> QED
  BY <1>2, <1>3, <1>4

LEMMA VerdictStep ==
  TypeOK /\ ChargeInv /\ LatchInv /\ ResetStandsUnlessOvertaken
    /\ (TypeOK /\ ChargeInv)' /\ [Next]_vars => ResetStandsUnlessOvertaken'
<1> SUFFICES ASSUME TypeOK, ChargeInv, LatchInv, ResetStandsUnlessOvertaken,
                    TypeOK', ChargeInv', [Next]_vars
             PROVE  ResetStandsUnlessOvertaken'
  OBVIOUS
<1> USE DEF ResetStandsUnlessOvertaken, ResetStands
<1>1. ASSUME row'.enable = row.enable \/ row'.enable = TRUE, since' = since,
             overtaken => overtaken'
      PROVE  ResetStandsUnlessOvertaken'
  BY <1>1
<1>2. CASE UNCHANGED vars
  BY <1>1, <1>2 DEF vars
<1>3. ASSUME NEW c \in Callers, NEW ns, NEW ms, Zeroed(c, ns, ms)
      PROVE ResetStandsUnlessOvertaken'
  BY <1>3 DEF Zeroed, FreshRow
<1>4. ASSUME NEW c \in Callers, Restore(c) PROVE ResetStandsUnlessOvertaken'
  BY <1>1, <1>4 DEF Restore, TypeOK, MasterRows
<1>5. CASE Deplete
  <2>1. Total(row.used) >= Quota /\ since' = since
    BY <1>5 DEF Deplete
  <2>2. Total(since) >= Quota
    BY <2>1, ChargedAtMostUsed
  <2> QED
    BY <2>1, <2>2
<1>6. ASSUME NEW d \in Deliverers, NEW m \in Nodes,
             Deliver(d, m) \/ CallFails(d, m) PROVE ResetStandsUnlessOvertaken'
  BY <1>1, <1>6 DEF Deliver, ReadQueue, CallReset, DropRow, CallFails
<1>7. CASE Tick \/ MasterRestarts
  BY <1>1, <1>7 DEF Tick, MasterRestarts
<1>8. ASSUME NEW m \in Nodes, \/ Reconcile(m) \/ ReconcileFails(m) \/ JobDelivers(m)
                             \/ Fetch(m) \/ FetchFails(m) \/ NodeDepletes(m)
                             \/ NodeRegresses(m)
      PROVE  ResetStandsUnlessOvertaken'
  BY <1>1, <1>8 DEF Reconcile, ReconcileFails, JobDelivers, Fetch, FetchFails,
                    NodeDepletes, NodeRegresses
<1>9. ASSUME NEW m \in Nodes, Use(m) PROVE ResetStandsUnlessOvertaken'
  <2>1. row' = row /\ overtaken' = overtaken /\ since' = [since EXCEPT ![m] = @ + 1]
    BY <1>9 DEF Use
  <2>2. Total(since') = Total(since) + 1
    BY <2>1, ChargedAtMostUsed, TotalOneUp
  <2> QED
    BY <2>1, <2>2, ChargedAtMostUsed
<1>10. ASSUME NEW m \in Nodes, Merge(m) PROVE ResetStandsUnlessOvertaken'
  BY <1>10, VerdictMerge
<1>11. ASSUME NEW c \in Callers, BulkReset(c) \/ \E n \in Nodes : SingleReset(c, n)
       PROVE  ResetStandsUnlessOvertaken'
  BY <1>3, <1>11 DEF BulkReset, SingleReset
<1> QED
  BY <1>2, <1>4, <1>5, <1>6, <1>7, <1>8, <1>9, <1>10, <1>11 DEF Next, Sync

(* A client is off on the master only if it used up its quota since the reset, *)
(* unless a reset was delivered between a node's snapshot and its merge while  *)
(* the node was not dirty.                                                   *)
THEOREM VerdictsBorneOut == Spec => []ResetStandsUnlessOvertaken
<1> DEFINE IInv == TypeOK /\ QueueInv /\ ChargeInv /\ LatchInv /\ ResetStandsUnlessOvertaken
<1>1. Init => IInv
  <2>1. Init => ResetStandsUnlessOvertaken
    BY DEF Init, FreshRow, ResetStandsUnlessOvertaken, ResetStands
  <2> QED
    BY <2>1, TypeInit, QueueInit, ChargeInit, LatchInit
<1>2. IInv /\ [Next]_vars => IInv'
  <2>1. IInv /\ [Next]_vars => (TypeOK /\ QueueInv /\ ChargeInv /\ LatchInv)'
    BY TypeStep, QueueStep, ChargeStep, LatchStep
  <2> QED
    BY <2>1, VerdictStep
<1>3. IInv => ResetStandsUnlessOvertaken
  OBVIOUS
<1> HIDE DEF IInv
<1> QED
  BY <1>1, <1>2, <1>3, PTL DEF Spec
=============================================================================
