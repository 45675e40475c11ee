---------------------------- MODULE NodeTraffic ----------------------------
(***************************************************************************)
(* How a master panel counts one client's traffic over the child nodes that *)
(* host it, and how a counter reset reaches those nodes                      *)
(* (internal/web/service/node_reset_queue.go, inbound_node.go,               *)
(* inbound_traffic.go, client_traffic.go, job/node_traffic_sync_job.go).     *)
(*                                                                          *)
(* The client has one row on the master and one on every node.  The sync job *)
(* adds to the master's row what a node's counter grew by since the baseline *)
(* kept for that node, and takes over a node's verdict that the quota is     *)
(* spent.  A reset zeroes the master's row, forgets the baselines and queues *)
(* one reset per node, delivered by the caller at once and by every later    *)
(* tick of the job until the node took it.                                   *)
(*                                                                          *)
(* Upload and download are one counter; the master's row is split into what  *)
(* came from each node, of which the code keeps the sum.  A node's row and its settings agree *)
(* on whether the client is enabled; so do the master's.  Expiry and renewal *)
(* do not occur.  What a push carries besides the client is NodeConfigSync's *)
(* subject.  A call that reaches the node after its caller gave up is a      *)
(* NodeRegresses.                                                            *)
(***************************************************************************)
EXTENDS Integers, FiniteSets, Functions

CONSTANTS
  Nodes,         \* nodes with an inbound the client is attached to
  Callers,       \* API calls that reset the client's traffic
  Job,           \* the sync job, as a deliverer of resets
  Quota,         \* the client's traffic limit
  MaxUses,       \* bound: units of traffic the client uses
  MaxResets,     \* bound: resets
  MaxFaults      \* bound: failed calls, lost counters, restarts of the master

ASSUME NodesAssumption == IsFiniteSet(Nodes) /\ Job \notin Callers
ASSUME QuotaAssumption == Quota \in Nat \ {0}
ASSUME BoundsAssumption == MaxUses \in Nat /\ MaxResets \in Nat /\ MaxFaults \in Nat

Deliverers == Callers \cup {Job}
Unseen == -1     \* no baseline row
NoReset == 0     \* no row in the reset queue

VARIABLES
  row,       \* client_traffics on the master: usage by node, enable
  base,      \* node_client_traffics: the counter last merged, per node
  queue,     \* node_pending_resets: queued_at per node
  dirty,     \* nodes.config_dirty
  marked,    \* nodes.config_dirty_at moved since the tick read it
  restore,   \* API calls that have a disabled client to enable again
  deliver,   \* DeliverNodeResets per caller and node: its step, queued_at read
  job,       \* syncOne per node: its step, whether it just pushed, its snapshot
  node,      \* client_traffics on each node
  resets,    \* resets so far; the clock queued_at is read from
  uses, faults,
  asked,     \* history: the latest reset queued for each node
  heard,     \* history: resets so far when the node last obeyed one
  since,     \* history: usage since the reset (since the fetch, if one was out)
  fetched,   \* history: usage since the node's latest snapshot
  overtaken  \* history: a delivery since the reset overtook a snapshot

masterVars == <<row, base, queue, dirty, marked>>
threadVars == <<restore, deliver, job>>
countVars == <<resets, uses, faults>>
histVars == <<asked, heard, since, fetched, overtaken>>
vars == <<masterVars, threadVars, node, countVars, histVars>>

Rows == [used : Nat, enable : BOOLEAN]
MasterRows == [used : [Nodes -> Nat], enable : BOOLEAN]
DeliverSteps == [pc : {"idle", "wait", "call", "drop"}, at : Nat]
JobSteps == [pc : {"idle", "reconcile", "resets", "deliver", "fetch", "merge"},
             pushed : BOOLEAN, snap : Rows]

Fresh == [used |-> 0, enable |-> TRUE]
FreshRow == [used |-> [n \in Nodes |-> 0], enable |-> TRUE]
IdleDelivery == [pc |-> "idle", at |-> NoReset]
IdleJob == [pc |-> "idle", pushed |-> FALSE, snap |-> Fresh]

TypeOK ==
  /\ row \in MasterRows
  /\ base \in [Nodes -> Nat \cup {Unseen}]
  /\ queue \in [Nodes -> Nat]
  /\ dirty \in [Nodes -> BOOLEAN]
  /\ marked \in [Nodes -> BOOLEAN]
  /\ restore \subseteq Callers
  /\ deliver \in [Deliverers -> [Nodes -> DeliverSteps]]
  /\ job \in [Nodes -> JobSteps]
  /\ node \in [Nodes -> Rows]
  /\ resets \in Nat /\ uses \in Nat /\ faults \in Nat
  /\ asked \in [Nodes -> Nat] /\ heard \in [Nodes -> Nat]
  /\ since \in [Nodes -> Nat] /\ fetched \in [Nodes -> Nat]
  /\ overtaken \in BOOLEAN

(* A client both panels know, whose counters were merged once at zero.      *)
Init ==
  /\ row = FreshRow
  /\ base = [n \in Nodes |-> 0]
  /\ queue = [n \in Nodes |-> NoReset]
  /\ dirty = [n \in Nodes |-> FALSE]
  /\ marked = [n \in Nodes |-> FALSE]
  /\ restore = {}
  /\ deliver = [d \in Deliverers |-> [n \in Nodes |-> IdleDelivery]]
  /\ job = [n \in Nodes |-> IdleJob]
  /\ node = [n \in Nodes |-> Fresh]
  /\ resets = 0 /\ uses = 0 /\ faults = 0
  /\ asked = [n \in Nodes |-> 0] /\ heard = [n \in Nodes |-> 0]
  /\ since = [n \in Nodes |-> 0] /\ fetched = [n \in Nodes |-> 0]
  /\ overtaken = FALSE

Total(f) == FoldFunction(+, 0, f)

Fault == faults < MaxFaults /\ faults' = faults + 1

MarkDirty(ns) ==
  /\ dirty' = [n \in Nodes |-> n \in ns \/ dirty[n]]
  /\ marked' = [n \in Nodes |-> n \in ns \/ marked[n]]

-----------------------------------------------------------------------------
(* Resets.  The row, the baselines and the queue change in one transaction  *)
(* on the serial writer; delivery follows outside it.                       *)

NodesOf(c) == {n \in Nodes : deliver[c][n].pc # "idle"}

\* Faulty variant: the baselines stay.
KeptBaselines == base

NoBaselines == [n \in Nodes |-> Unseen]

Zeroed(c, ns, ms) ==
  /\ c \notin restore /\ NodesOf(c) = {}
  /\ resets < MaxResets
  /\ resets' = resets + 1
  /\ row' = FreshRow
  /\ base' = NoBaselines
  /\ queue' = [n \in Nodes |-> resets + 1]
  /\ MarkDirty(ms)
  /\ restore' = IF row.enable THEN restore ELSE restore \cup {c}
  /\ deliver' = [deliver EXCEPT ![c] =
       [n \in Nodes |-> IF n \in ns THEN [pc |-> "wait", at |-> NoReset] ELSE @[n]]]
  /\ asked' = [n \in Nodes |-> resets + 1]
  /\ since' = [n \in Nodes |-> IF job[n].pc = "merge" THEN fetched[n] ELSE 0]
  /\ overtaken' = FALSE
  /\ UNCHANGED <<job, node, uses, faults, heard, fetched>>

(* ResetClientTraffic of the inbound on node n: marks that node dirty.      *)
SingleReset(c, n) == Zeroed(c, {n}, {n})

(* BulkResetTraffic, ResetAllClientTraffics, ResetAllTraffics.              *)
BulkReset(c) == Zeroed(c, Nodes, {})

(* After the delivery: a client that was off is saved again as enabled.     *)
Restore(c) ==
  /\ c \in restore /\ NodesOf(c) = {}
  /\ restore' = restore \ {c}
  /\ row' = [row EXCEPT !.enable = TRUE]
  /\ MarkDirty(Nodes)
  /\ UNCHANGED <<base, queue, deliver, job, node, countVars, histVars>>

(* disableInvalidClients, on the master.                                    *)
Deplete ==
  /\ row.enable /\ Total(row.used) >= Quota
  /\ row' = [row EXCEPT !.enable = FALSE]
  /\ MarkDirty(Nodes)
  /\ UNCHANGED <<base, queue, threadVars, node, countVars, histVars>>

-----------------------------------------------------------------------------
(* DeliverNodeResets: one caller per node at a time.                        *)

Holds(d, n) == deliver[d][n].pc \in {"call", "drop"}

\* What a delivery that ends leaves: the job goes on to the snapshot.
Ended(d, n) ==
  /\ deliver' = [deliver EXCEPT ![d][n] = IdleDelivery]
  /\ job' = IF d = Job THEN [job EXCEPT ![n].pc = "fetch"] ELSE job

ReadQueue(d, n) ==
  /\ deliver[d][n].pc = "wait"
  /\ \A e \in Deliverers : ~Holds(e, n)
  /\ IF queue[n] = NoReset
       THEN Ended(d, n)
       ELSE /\ deliver' = [deliver EXCEPT ![d][n] = [pc |-> "call", at |-> queue[n]]]
            /\ job' = job
  /\ UNCHANGED <<masterVars, restore, node, countVars, histVars>>

NodeObeys(n) ==
  /\ node' = [node EXCEPT ![n] = Fresh]
  /\ heard' = [heard EXCEPT ![n] = resets]

CallReset(d, n) ==
  /\ deliver[d][n].pc = "call"
  /\ NodeObeys(n)
  /\ deliver' = [deliver EXCEPT ![d][n].pc = "drop"]
  /\ UNCHANGED <<masterVars, restore, job, countVars, asked, since, fetched, overtaken>>

\* Refused or lost, or obeyed with the answer lost.
CallFails(d, n) ==
  /\ deliver[d][n].pc = "call"
  /\ Fault
  /\ \/ NodeObeys(n)
     \/ UNCHANGED <<node, heard>>
  /\ Ended(d, n)
  /\ UNCHANGED <<masterVars, restore, resets, uses, asked, since, fetched, overtaken>>

\* Faulty variant: the row goes whatever it says now.
AnyRow(d, n) == TRUE

Unchanged(d, n) == queue[n] = deliver[d][n].at

DropRow(d, n) ==
  /\ deliver[d][n].pc = "drop"
  /\ queue' = IF Unchanged(d, n) THEN [queue EXCEPT ![n] = NoReset] ELSE queue
  /\ Ended(d, n)
  /\ overtaken' = (overtaken \/ (job[n].pc = "merge" /\ ~dirty[n]))
  /\ UNCHANGED <<row, base, dirty, marked, restore, node, countVars,
                 asked, heard, since, fetched>>

-----------------------------------------------------------------------------
(* The sync job: every node in parallel, the next tick when all are done.   *)

Tick ==
  /\ \A n \in Nodes : job[n].pc = "idle"
  /\ job' = [n \in Nodes |->
       [IdleJob EXCEPT !.pc = IF dirty[n] THEN "reconcile" ELSE "resets"]]
  /\ marked' = [n \in Nodes |-> FALSE]
  /\ UNCHANGED <<row, base, queue, dirty, restore, deliver, node, countVars, histVars>>

\* ClearNodeDirty clears the mark the tick started from, not a later one.
Reconcile(n) ==
  /\ job[n].pc = "reconcile"
  /\ node' = [node EXCEPT ![n].enable = row.enable]
  /\ dirty' = [dirty EXCEPT ![n] = marked[n]]
  /\ job' = [job EXCEPT ![n].pc = "resets", ![n].pushed = TRUE]
  /\ UNCHANGED <<row, base, queue, marked, restore, deliver, countVars, histVars>>

ReconcileFails(n) ==
  /\ job[n].pc = "reconcile"
  /\ Fault
  /\ \/ node' = [node EXCEPT ![n].enable = row.enable]
     \/ UNCHANGED node
  /\ job' = [job EXCEPT ![n].pc = "resets"]
  /\ UNCHANGED <<masterVars, restore, deliver, resets, uses, histVars>>

JobDelivers(n) ==
  /\ job[n].pc = "resets"
  /\ deliver' = [deliver EXCEPT ![Job][n].pc = "wait"]
  /\ job' = [job EXCEPT ![n].pc = "deliver"]
  /\ UNCHANGED <<masterVars, restore, node, countVars, histVars>>

Fetch(n) ==
  /\ job[n].pc = "fetch"
  /\ job' = [job EXCEPT ![n].pc = "merge", ![n].snap = node[n]]
  /\ fetched' = [fetched EXCEPT ![n] = 0]
  /\ UNCHANGED <<masterVars, restore, deliver, node, countVars, asked, heard, since, overtaken>>

FetchFails(n) ==
  /\ job[n].pc = "fetch"
  /\ Fault
  /\ job' = [job EXCEPT ![n] = IdleJob]
  /\ UNCHANGED <<masterVars, restore, deliver, node, resets, uses, histVars>>

\* Until the node has the pushed configuration and the resets it owes, only
\* usage may move.
Frozen(n) == dirty[n] \/ job[n].pushed \/ queue[n] # NoReset

\* Faulty variant: a counter that fell is taken off the row.
DeltaUnclamped(n) == LET s == job[n].snap IN
  IF base[n] # Unseen THEN s.used - base[n] ELSE 0

Delta(n) == LET s == job[n].snap IN
  IF base[n] # Unseen /\ s.used > base[n] THEN s.used - base[n] ELSE 0

\* A node's "disabled" neither its own usage nor the master's accounts for.
DisableIsStale(n) == job[n].snap.used < Quota /\ Total(row.used) + Delta(n) < Quota

\* Faulty variant: a reset still owed does not hold the verdict back.
LatchesOwed(n) ==
  /\ ~dirty[n] /\ ~job[n].pushed
  /\ ~job[n].snap.enable /\ ~DisableIsStale(n)

Latches(n) == ~Frozen(n) /\ ~job[n].snap.enable /\ ~DisableIsStale(n)

\* Faulty variant: a node that let a disabled client in again is not corrected.
LiftsOn(n, enable) == ~job[n].snap.enable /\ enable

\* liftClientLifecycleInSettings: the master's row decides, in both directions.
Lifts(n, enable) == job[n].snap.enable # enable

(* setRemoteTrafficLocked, one transaction on the serial writer.  A snapshot *)
(* whose settings disagree with the merged row is corrected and pushed back. *)
Merge(n) ==
  LET s == job[n].snap
      enable == row.enable /\ ~Latches(n)
      dips == base[n] # Unseen /\ s.used < base[n]
  IN /\ job[n].pc = "merge"
     /\ row' = [used |-> [row.used EXCEPT ![n] = @ + Delta(n)], enable |-> enable]
     /\ base' = IF Frozen(n) /\ dips THEN base ELSE [base EXCEPT ![n] = s.used]
     /\ MarkDirty(IF ~dirty[n] /\ Lifts(n, enable) THEN {n} ELSE {})
     /\ job' = [job EXCEPT ![n] = IdleJob]
     /\ UNCHANGED <<queue, restore, deliver, node, countVars, histVars>>

-----------------------------------------------------------------------------
(* The nodes, and what goes wrong.                                          *)

Use(n) ==
  /\ node[n].enable
  /\ uses < MaxUses
  /\ uses' = uses + 1
  /\ node' = [node EXCEPT ![n].used = @ + 1]
  /\ since' = [since EXCEPT ![n] = @ + 1]
  /\ fetched' = [fetched EXCEPT ![n] = @ + 1]
  /\ UNCHANGED <<masterVars, threadVars, resets, faults, asked, heard, overtaken>>

NodeDepletes(n) ==
  /\ node[n].enable /\ node[n].used >= Quota
  /\ node' = [node EXCEPT ![n].enable = FALSE]
  /\ UNCHANGED <<masterVars, threadVars, countVars, histVars>>

\* A reset on the node itself or one that arrives late, a restored backup.
NodeRegresses(n) ==
  /\ Fault
  /\ \E u \in 0 .. node[n].used :
       node' = [node EXCEPT ![n] = [used |-> u, enable |-> TRUE]]
  /\ UNCHANGED <<masterVars, threadVars, resets, uses, histVars>>

MasterRestarts ==
  /\ Fault
  /\ restore' = {}
  /\ deliver' = [d \in Deliverers |-> [n \in Nodes |-> IdleDelivery]]
  /\ job' = [n \in Nodes |-> IdleJob]
  /\ UNCHANGED <<masterVars, node, resets, uses, histVars>>

Deliver(d, n) == ReadQueue(d, n) \/ CallReset(d, n) \/ DropRow(d, n)
Sync(n) == Reconcile(n) \/ JobDelivers(n) \/ Fetch(n) \/ Merge(n)

Next ==
  \/ \E c \in Callers : BulkReset(c) \/ Restore(c) \/ \E n \in Nodes : SingleReset(c, n)
  \/ Deplete \/ Tick \/ MasterRestarts
  \/ \E d \in Deliverers, n \in Nodes : Deliver(d, n) \/ CallFails(d, n)
  \/ \E n \in Nodes : \/ Sync(n) \/ ReconcileFails(n) \/ FetchFails(n)
                      \/ Use(n) \/ NodeDepletes(n) \/ NodeRegresses(n)

Spec == Init /\ [][Next]_vars

(* The scheduler runs every tick, both panels' traffic polls come around,    *)
(* and an API call that got this far runs to its end.                        *)
Fairness ==
  /\ WF_vars(Tick) /\ WF_vars(Deplete)
  /\ \A c \in Callers : WF_vars(Restore(c))
  /\ \A d \in Deliverers, n \in Nodes : WF_vars(Deliver(d, n))
  /\ \A n \in Nodes : WF_vars(Sync(n)) /\ WF_vars(NodeDepletes(n))

FairSpec == Spec /\ Fairness

-----------------------------------------------------------------------------
(* Properties.                                                              *)

(* A reset the node has not obeyed since it was last asked for is still in   *)
(* the queue, whoever delivers it, whatever call fails and whenever the      *)
(* master restarts (DeliverNodeResets drops a row only if it was not queued  *)
(* again since it was read).                                                *)
OwedUntilHeard == \A n \in Nodes : heard[n] < asked[n] => queue[n] = asked[n]

(* The master never charges the client more than it used on a node since the *)
(* reset, except what the node's snapshot that was out at the reset had not  *)
(* yet seen.                                                                *)
NeverOvercounts == \A n \in Nodes : row.used[n] <= since[n]

(* A client is off on the master only if it used up its quota since its      *)
(* counters were reset (setRemoteTrafficLocked: until the node applies a     *)
(* reset it owes, only usage may move).                                     *)
ResetStands == ~row.enable => Total(since) >= Quota

(* So it is unless a reset was delivered between a node's snapshot and its   *)
(* merge while the node was not dirty: a reset still owed, a mark that came   *)
(* with it and a push all hold a late verdict back.                         *)
ResetStandsUnlessOvertaken == overtaken \/ ResetStands

(* No reset stays undelivered and no disagreement lasts: again and again a   *)
(* node has taken its resets and agrees with the master on whether the client *)
(* may connect.  (For good would be too much: a node that undid every push   *)
(* before the same tick's snapshot would be pushed to for ever.)             *)
AgreesAgain == \A n \in Nodes :
                 []<>(queue[n] = NoReset /\ node[n].enable = row.enable)
=============================================================================
