--------------------------- MODULE NodeConfigSync ---------------------------
(***************************************************************************)
(* How a master panel keeps the inbounds of one child node in step with its *)
(* own database: edits mark the node dirty and may be pushed live, the      *)
(* every-5s sync tick reconciles a dirty node, fetches a snapshot and merges *)
(* it back (internal/web/service/inbound_node.go, runtime/remote.go,        *)
(* job/node_traffic_sync_job.go, service/node.go).                          *)
(*                                                                          *)
(* An inbound's wire payload is a function from Slots (a client, the enable *)
(* switch, the listen address...) to version numbers; every edit, on the    *)
(* master or by the node's own operator, writes a version newer than all    *)
(* others, so "older" and "newer" say which edit came first.  An inbound is *)
(* identified by its tag.  The node's API calls are requests in `net`: they *)
(* are applied at any later moment and answered, and a caller may give up   *)
(* on one that was or was not applied.  Which remote ids a Remote has cached *)
(* is not modelled: to resolve one may always take a list call.             *)
(***************************************************************************)
EXTENDS Integers, FiniteSets

CONSTANTS
  Inbounds,      \* inbound tags
  Slots,         \* independently editable parts of an inbound
  Imported,      \* inbounds both panels hold in the initial state
  Unimported,    \* inbounds only the node holds, before the first adoption
  Aliased,       \* imported inbounds the node lists under another tag
  Disabled,      \* inbounds whose enable switch stays off
  ClientEdits,   \* client add/update/delete calls (pushed live, one slot)
  FormEdits,     \* UpdateInbound calls on a node inbound (never pushed live)
  Toggles,       \* SetInboundEnable calls (off the writer, full live push)
  Adds,          \* AddInbound calls
  Deletes,       \* DelInbound calls
  Tick,          \* the sync job, as a sender of requests
  Absent,        \* no such inbound / no fingerprint
  FineClock,     \* TRUE: no two dirty marks fall into one millisecond
  LateCalls,     \* TRUE: the node may apply a call after its caller gave up
  MaxNodeEdits,  \* bound: edits made on the node itself
  MaxFaults,     \* bound: calls to the node that fail
  MaxRestarts    \* bound: restarts of the master panel

Ops == ClientEdits \cup FormEdits \cup Toggles \cup Adds \cup Deletes

ASSUME ImportedAssumption ==
  Imported \subseteq Inbounds /\ Unimported \subseteq Inbounds \ Imported
  /\ Aliased \subseteq Imported /\ Disabled \subseteq Inbounds
ASSUME OpsAssumption ==
  /\ Tick \notin Ops
  /\ Toggles \cap (ClientEdits \cup FormEdits \cup Adds \cup Deletes) = {}
  /\ ClientEdits \cap (FormEdits \cup Adds \cup Deletes) = {}
  /\ FormEdits \cap (Adds \cup Deletes) = {} /\ Adds \cap Deletes = {}
ASSUME FlagsAssumption == FineClock \in BOOLEAN /\ LateCalls \in BOOLEAN
ASSUME BoundsAssumption == MaxNodeEdits \in Nat /\ MaxFaults \in Nat
                           /\ MaxRestarts \in Nat
ASSUME AbsentAssumption == Absent \notin [Slots -> Nat] \cup Ops \cup {Tick}

VARIABLES
  central,     \* the master's inbounds table for this node
  node,        \* the node's own inbounds table
  foreign,     \* inbounds the node lists under a tag that is not the master's
  dirty,       \* nodes.config_dirty
  dirtyAt,     \* nodes.config_dirty_at
  adopted,     \* nodes.inbounds_adopted_at # 0
  pushedFP,    \* Remote.pushedFP: the payload a fingerprint was taken of
  aliases,     \* Remote.adoptedAliases
  opPC, opArg, \* the admin calls
  net,         \* requests not yet applied by the node
  answers,     \* senders whose request was applied and answered
  tick,        \* the sync job: program counter and locals
  version,     \* the newest version handed out
  nodeEdits, faults, restarts,
  wish,        \* history: what the last word on an inbound's existence was
  seen,        \* history: inbounds the master has ever held
  unseenEdit,  \* history: a writer edit committed since the tick's snapshot
  crossed      \* history: inbounds at which an edit, a request or a reconcile met
               \* another one in a way the code has no answer to

dbVars     == <<central, dirty, dirtyAt, adopted>>
remoteVars == <<pushedFP, aliases>>
nodeVars   == <<node, foreign>>
netVars    == <<net, answers>>
opVars     == <<opPC, opArg>>
countVars  == <<version, nodeEdits, faults, restarts>>
histVars   == <<wish, seen, unseenEdit, crossed>>
vars == <<dbVars, remoteVars, nodeVars, netVars, opVars, tick, countVars, histVars>>

Content == [Slots -> Nat]
Fresh(v) == [s \in Slots |-> v]
Present(table) == {i \in Inbounds : table[i] # Absent}

NoArg == [ib |-> Absent, slot |-> Absent, base |-> Absent, next |-> Absent]

IdleTick == [pc |-> "idle", at |-> 0, adopted |-> FALSE,
             plan |-> [i \in Inbounds |-> Absent], listed |-> {}, strange |-> {},
             todo |-> {}, cur |-> Absent, failed |-> FALSE,
             snap |-> [i \in Inbounds |-> Absent], dirty |-> FALSE,
             frozen |-> FALSE,
             base |-> [i \in Inbounds |-> Absent]]

Init ==
  /\ central = [i \in Inbounds |-> IF i \in Imported THEN Fresh(1) ELSE Absent]
  /\ node = [i \in Inbounds |->
               IF i \in Imported \cup Unimported THEN Fresh(1) ELSE Absent]
  /\ foreign \in SUBSET Aliased
  /\ dirty \in BOOLEAN
  /\ dirtyAt = 0
  /\ adopted = (Unimported = {})
  /\ pushedFP = [i \in Inbounds |-> Absent]
  /\ aliases = {}
  /\ opPC = [o \in Ops |-> "idle"]
  /\ opArg = [o \in Ops |-> NoArg]
  /\ net = {} /\ answers = {}
  /\ tick = IdleTick
  /\ version = 1 /\ nodeEdits = 0 /\ faults = 0 /\ restarts = 0
  /\ wish = [i \in Inbounds |-> IF i \in Imported THEN "present" ELSE "free"]
  /\ seen = Imported
  /\ unseenEdit = FALSE
  /\ crossed = {}

-----------------------------------------------------------------------------
(* Shared steps.                                                            *)

(* The serial traffic writer runs one closure at a time; the tick's merge    *)
(* holds it between reading the dirty flag and committing.                  *)
WriterFree == tick.pc # "merging"

(* MarkNodeDirtyTx: the flag and a wall-clock millisecond, in the edit's tx. *)
MarkNodeDirty == /\ dirty' = TRUE
                 /\ dirtyAt' \in IF FineClock THEN {dirtyAt + 1}
                                              ELSE {dirtyAt, dirtyAt + 1}

(* resolveRemoteID: the node lists the tag, or an adopted alias maps to it.  *)
Resolvable(i) == i \notin foreign \/ i \in aliases

Request(from, kind, i, slots, body) ==
  [from |-> from, kind |-> kind, ib |-> i, slots |-> slots, body |-> body]

Send(m) == net' = net \cup {m} /\ UNCHANGED answers

\* The race whose condition is c happens to inbound i.
Crosses(i, c) == crossed' = IF c THEN crossed \cup {i} ELSE crossed

\* The reconcile has read the inbounds and not yet cleared the mark.
Begun == tick.pc \in {"list", "push", "pushWait", "sweep", "sweepWait"}

\* An edit that falls into the millisecond of the mark the reconcile has loaded.
SharesMark == Begun /\ dirtyAt' = tick.at

\* One payload holds an older version than another of the same inbound.
Older(body, than) == body # Absent /\ than # Absent /\ \E s \in Slots : body[s] < than[s]

Pending(o) == {m \in net : m.from = o}

(* The requests ms lose their callers: they are dropped, or applied late.    *)
Abandon(ms) == net' = (net \ ms) \cup
                 (IF LateCalls THEN {[m EXCEPT !.from = Absent] : m \in ms} ELSE {})

-----------------------------------------------------------------------------
(* Client edits: read under lockInbound, commit on the writer with the       *)
(* change rebased onto what is stored by then, then push the one slot live.  *)

Locked(i) == \E o \in ClientEdits :
               opPC[o] \in {"read", "await"} /\ opArg[o].ib = i

ReadClients(o, i, s) ==
  /\ opPC[o] = "idle"
  /\ central[i] # Absent
  /\ ~Locked(i)
  /\ opPC' = [opPC EXCEPT ![o] = "read"]
  /\ opArg' = [opArg EXCEPT ![o] =
                 [ib |-> i, slot |-> s, base |-> central[i], next |-> Absent]]
  /\ UNCHANGED <<dbVars, remoteVars, nodeVars, netVars, tick, countVars, histVars>>

CommitClients(o) ==
  LET i == opArg[o].ib
      s == opArg[o].slot
      v == version + 1
      pushed == [opArg[o].base EXCEPT ![s] = v]
  IN /\ opPC[o] = "read"
     /\ WriterFree
     /\ MarkNodeDirty
     /\ central' = IF central[i] = Absent THEN central
                                          ELSE [central EXCEPT ![i][s] = v]
     /\ version' = v
     /\ unseenEdit' = TRUE
     \* Online and resolvable: push; otherwise the reconcile delivers the edit.
     /\ \/ /\ Resolvable(i)
           /\ Send(Request(o, "slots", i, {s}, pushed))
           /\ opPC' = [opPC EXCEPT ![o] = "await"]
           /\ opArg' = [opArg EXCEPT ![o].next = pushed]
        \/ /\ opPC' = [opPC EXCEPT ![o] = "done"]
           /\ opArg' = [opArg EXCEPT ![o] = NoArg]
           /\ UNCHANGED netVars
     /\ Crosses(i, SharesMark)
     /\ UNCHANGED <<adopted, remoteVars, nodeVars, tick, nodeEdits, faults,
                    restarts, wish, seen>>

-----------------------------------------------------------------------------
(* Edits that are never pushed live: the inbound form and a new inbound.     *)

EditForm(o, i, s) ==
  /\ opPC[o] = "idle"
  /\ central[i] # Absent
  /\ WriterFree
  /\ central' = [central EXCEPT ![i][s] = version + 1]
  /\ version' = version + 1
  /\ MarkNodeDirty
  /\ opPC' = [opPC EXCEPT ![o] = "done"]
  /\ unseenEdit' = TRUE
  /\ Crosses(i, SharesMark)
  /\ UNCHANGED <<adopted, remoteVars, nodeVars, netVars, opArg, tick, nodeEdits,
                 faults, restarts, wish, seen>>

\* A disabled one does not mark the node: it stays the master's, unless the node
\* has, or has just reported, an inbound of this tag.
AddInbound(o, i) ==
  /\ opPC[o] = "idle"
  /\ central[i] = Absent
  /\ WriterFree
  /\ central' = [central EXCEPT ![i] = Fresh(version + 1)]
  /\ version' = version + 1
  /\ IF i \in Disabled
       THEN /\ Crosses(i, node[i] # Absent \/ tick.snap[i] # Absent)
            /\ UNCHANGED <<dirty, dirtyAt, unseenEdit>>
       ELSE /\ MarkNodeDirty
            /\ Crosses(i, SharesMark)
            /\ unseenEdit' = TRUE
  /\ opPC' = [opPC EXCEPT ![o] = "done"]
  /\ wish' = [wish EXCEPT ![i] = "present"]
  /\ seen' = seen \cup {i}
  /\ UNCHANGED <<adopted, remoteVars, nodeVars, netVars, opArg, tick, nodeEdits,
                 faults, restarts>>

(* DelInbound: the row goes on the writer, the node push follows the commit. *)
DelInbound(o, i) ==
  /\ opPC[o] = "idle"
  /\ central[i] # Absent
  /\ WriterFree
  /\ central' = [central EXCEPT ![i] = Absent]
  /\ MarkNodeDirty
  /\ wish' = [wish EXCEPT ![i] = "gone"]
  /\ unseenEdit' = TRUE
  /\ Crosses(i, SharesMark)
  /\ \/ /\ Resolvable(i)
        /\ Send(Request(o, "del", i, {}, Absent))
        /\ opPC' = [opPC EXCEPT ![o] = "await"]
        /\ opArg' = [opArg EXCEPT ![o].ib = i]
     \/ /\ opPC' = [opPC EXCEPT ![o] = "done"]
        /\ UNCHANGED <<netVars, opArg>>
  /\ UNCHANGED <<adopted, remoteVars, nodeVars, tick, countVars, seen>>

-----------------------------------------------------------------------------
(* SetInboundEnable: the row is read first, the switch is written in a       *)
(* transaction of its own (not on the writer), then the inbound as read,     *)
(* switch flipped, is pushed in full.                                       *)

ReadToggle(o, i, s) ==
  /\ opPC[o] = "idle"
  /\ central[i] # Absent
  /\ opPC' = [opPC EXCEPT ![o] = "read"]
  /\ opArg' = [opArg EXCEPT ![o] =
                 [ib |-> i, slot |-> s, base |-> central[i], next |-> Absent]]
  /\ UNCHANGED <<dbVars, remoteVars, nodeVars, netVars, tick, countVars, histVars>>

CommitToggle(o) ==
  LET i == opArg[o].ib
      s == opArg[o].slot
      v == version + 1
      pushed == [opArg[o].base EXCEPT ![s] = v]
  IN /\ opPC[o] = "read"
     /\ central' = IF central[i] = Absent THEN central
                                          ELSE [central EXCEPT ![i][s] = v]
     /\ version' = v
     /\ MarkNodeDirty
     /\ \/ /\ Resolvable(i)
           /\ Send(Request(o, "full", i, {s}, pushed))
           /\ opPC' = [opPC EXCEPT ![o] = "await"]
           /\ opArg' = [opArg EXCEPT ![o].next = pushed]
        \/ /\ opPC' = [opPC EXCEPT ![o] = "done"]
           /\ opArg' = [opArg EXCEPT ![o] = NoArg]
           /\ UNCHANGED netVars
     /\ Crosses(i, SharesMark \/ ~WriterFree)
     /\ UNCHANGED <<adopted, remoteVars, nodeVars, tick, nodeEdits, faults,
                    restarts, wish, seen, unseenEdit>>

-----------------------------------------------------------------------------
(* The node: requests are applied in any order; a slot update or a delete of *)
(* an inbound the node does not have changes nothing.                       *)

Applied(m) ==
  CASE m.kind = "full"  -> [node EXCEPT ![m.ib] = m.body]
    [] m.kind = "del"   -> [node EXCEPT ![m.ib] = Absent]
    [] m.kind = "slots" /\ node[m.ib] # Absent ->
         [node EXCEPT ![m.ib] = [s \in Slots |->
                                   IF s \in m.slots THEN m.body[s] ELSE @[s]]]
    [] OTHER -> node

\* What the answered call o has put on the node.
Delivered(o) == IF o \in ClientEdits THEN {opArg[o].slot} ELSE Slots

\* A request arrives out of turn.  The reconcile's own: it takes back what a
\* fingerprint, or a live push just answered, says the node holds.  Another one:
\* it takes back what the node holds, deletes what the master has, or re-creates
\* what the node has not.
OutOfTurn(m) ==
  IF m.from = Tick
    THEN \/ Older(m.body, pushedFP[m.ib])
         \/ \E o \in (ClientEdits \cup Toggles) \cap answers :
              /\ opArg[o].ib = m.ib /\ m.body # Absent
              /\ \E s \in Delivered(o) : m.body[s] < opArg[o].next[s]
    ELSE CASE m.kind = "slots" -> /\ node[m.ib] # Absent
                                  /\ \E s \in m.slots : m.body[s] < node[m.ib][s]
           [] m.kind = "full"  -> node[m.ib] = Absent \/ Older(m.body, node[m.ib])
           [] m.kind = "del"   -> central[m.ib] # Absent

\* Faulty variant: a call whose caller has given up is answered all the same.
NodeApplyAnswersAll(m) ==
  /\ m \in net
  /\ net' = net \ {m}
  /\ answers' = answers \cup {m.from}
  /\ node' = Applied(m)
  /\ foreign' = IF m.kind = "slots" THEN foreign ELSE foreign \ {m.ib}
  /\ Crosses(m.ib, OutOfTurn(m))
  /\ UNCHANGED <<dbVars, remoteVars, opVars, tick, countVars, wish, seen, unseenEdit>>

NodeApply(m) ==
  /\ m \in net
  /\ net' = net \ {m}
  /\ answers' = answers \cup ({m.from} \ {Absent})
  /\ node' = Applied(m)
  \* A full payload carries the master's tag; a deleted row has none.
  /\ foreign' = IF m.kind = "slots" THEN foreign ELSE foreign \ {m.ib}
  /\ Crosses(m.ib, OutOfTurn(m))
  /\ UNCHANGED <<dbVars, remoteVars, opVars, tick, countVars, wish, seen, unseenEdit>>

(* The node's own operator edits or removes an inbound.                     *)
NodeEdit(i, s) ==
  /\ node[i] # Absent
  /\ nodeEdits < MaxNodeEdits
  /\ nodeEdits' = nodeEdits + 1
  /\ version' = version + 1
  /\ node' = [node EXCEPT ![i][s] = version + 1]
  /\ UNCHANGED <<dbVars, remoteVars, foreign, netVars, opVars, tick, faults,
                 restarts, histVars>>

NodeRemove(i) ==
  /\ node[i] # Absent
  /\ nodeEdits < MaxNodeEdits
  /\ nodeEdits' = nodeEdits + 1
  /\ node' = [node EXCEPT ![i] = Absent]
  /\ foreign' = foreign \ {i}
  /\ wish' = [wish EXCEPT ![i] = "free"]
  /\ UNCHANGED <<dbVars, remoteVars, netVars, opVars, tick, version, faults,
                 restarts, seen, unseenEdit, crossed>>

-----------------------------------------------------------------------------
(* What a live push leaves behind on the master.                            *)

\* Faulty variant: a per-client push is recorded whatever the node held before.
RecordedAlways(o) == IF o \in Deletes THEN Absent ELSE opArg[o].next

(* AdvancePushedInbound after a per-client push, recordPushedInbound after   *)
(* the toggle's full push, cacheDel after a delete.                         *)
Recorded(o) ==
  LET fp == pushedFP[opArg[o].ib] IN
  CASE o \in ClientEdits -> IF fp = opArg[o].base THEN opArg[o].next ELSE fp
    [] o \in Toggles     -> opArg[o].next
    [] OTHER             -> Absent

PushDone(o) ==
  /\ opPC[o] = "await"
  /\ o \in answers
  /\ answers' = answers \ {o}
  /\ pushedFP' = [pushedFP EXCEPT ![opArg[o].ib] = Recorded(o)]
  /\ opPC' = [opPC EXCEPT ![o] = "done"]
  /\ opArg' = [opArg EXCEPT ![o] = NoArg]
  /\ UNCHANGED <<dbVars, aliases, nodeVars, net, tick, countVars, histVars>>

(* The call fails: refused, lost, or its answer lost.                        *)
PushFailed(o) ==
  /\ opPC[o] = "await"
  /\ faults < MaxFaults
  /\ faults' = faults + 1
  /\ Abandon(Pending(o))
  /\ answers' = answers \ {o}
  /\ opPC' = [opPC EXCEPT ![o] = "done"]
  /\ opArg' = [opArg EXCEPT ![o] = NoArg]
  /\ UNCHANGED <<dbVars, remoteVars, nodeVars, tick, version, nodeEdits,
                 restarts, histVars>>

-----------------------------------------------------------------------------
(* The sync tick.  It works on the node row loaded at its start (Run loads   *)
(* all rows at once), so flags it uses later may be stale.                  *)

Becomes(t) == tick' = t

TickStart ==
  /\ tick.pc = "idle"
  /\ Becomes([IdleTick EXCEPT !.pc = IF dirty THEN "read" ELSE "fetch",
                              !.at = dirtyAt, !.adopted = adopted])
  /\ UNCHANGED <<dbVars, remoteVars, nodeVars, netVars, opVars, countVars, histVars>>

(* ReconcileNode reads the master's inbounds once...                        *)
ReconcileRead ==
  /\ tick.pc = "read"
  /\ Becomes([tick EXCEPT !.pc = "list", !.plan = central])
  /\ UNCHANGED <<dbVars, remoteVars, nodeVars, netVars, opVars, countVars, histVars>>

(* ...and lists the node's.                                                 *)
ReconcileList ==
  /\ tick.pc = "list"
  /\ Becomes([tick EXCEPT !.pc = "push", !.listed = Present(node),
                          !.strange = foreign, !.todo = Present(tick.plan)])
  /\ UNCHANGED <<dbVars, remoteVars, nodeVars, netVars, opVars, countVars, histVars>>

(* Not listed under its own tag, but one compatible inbound is: adopted as   *)
(* an alias, and stamped as if its payload had been pushed, old as it may be. *)
AdoptAlias(i) ==
  /\ tick.pc = "push"
  /\ i \in tick.todo \cap tick.listed \cap tick.strange
  /\ aliases' = aliases \cup {i}
  /\ pushedFP' = [pushedFP EXCEPT ![i] = tick.plan[i]]
  /\ Becomes([tick EXCEPT !.todo = @ \ {i}])
  /\ Crosses(i, Older(node[i], tick.plan[i]))
  /\ UNCHANGED <<dbVars, nodeVars, netVars, opVars, countVars, wish, seen, unseenEdit>>

UpToDate(i) == i \in tick.listed /\ pushedFP[i] = tick.plan[i]

ReconcileSkip(i) ==
  /\ tick.pc = "push"
  /\ i \in tick.todo \ (tick.listed \cap tick.strange)
  /\ UpToDate(i)
  /\ Becomes([tick EXCEPT !.todo = @ \ {i}])
  /\ UNCHANGED <<dbVars, remoteVars, nodeVars, netVars, opVars, countVars, histVars>>

(* ReconcileInbound: update, or create what the node does not report.       *)
ReconcilePush(i) ==
  /\ tick.pc = "push"
  /\ i \in tick.todo \ (tick.listed \cap tick.strange)
  /\ ~UpToDate(i)
  /\ pushedFP' = IF i \in tick.listed THEN pushedFP
                                      ELSE [pushedFP EXCEPT ![i] = Absent]
  /\ Send(Request(Tick, "full", i, Slots, tick.plan[i]))
  /\ Becomes([tick EXCEPT !.pc = "pushWait", !.cur = i, !.todo = @ \ {i}])
  /\ UNCHANGED <<dbVars, aliases, nodeVars, opVars, countVars, histVars>>

(* All inbounds done: sweep what the node lists and the master does not      *)
(* have, but only once the node's own inbounds have been adopted (until then *)
(* what was deleted here comes back).                                       *)
ReconcileSweep ==
  LET unwanted == tick.listed \ Present(tick.plan) IN
  /\ tick.pc = "push" /\ tick.todo = {}
  /\ Becomes([tick EXCEPT !.pc = "sweep", !.todo = IF tick.adopted THEN unwanted ELSE {}])
  /\ crossed' = IF tick.adopted THEN crossed ELSE crossed \cup (unwanted \cap seen)
  /\ UNCHANGED <<dbVars, remoteVars, nodeVars, netVars, opVars, countVars, wish, seen,
                 unseenEdit>>

SweepDelete(i) ==
  /\ tick.pc = "sweep" /\ i \in tick.todo
  /\ Send(Request(Tick, "del", i, {}, Absent))
  /\ Becomes([tick EXCEPT !.pc = "sweepWait", !.cur = i, !.todo = @ \ {i}])
  /\ UNCHANGED <<dbVars, remoteVars, nodeVars, opVars, countVars, histVars>>

(* Remote.DelInbound: if the list call fails that should resolve the id, it   *)
(* sends nothing and reports no error.                                      *)
SweepSkipped(i) ==
  /\ tick.pc = "sweep" /\ i \in tick.todo
  /\ faults < MaxFaults /\ faults' = faults + 1
  /\ Becomes([tick EXCEPT !.todo = @ \ {i}])
  /\ Crosses(i, TRUE)
  /\ UNCHANGED <<dbVars, remoteVars, nodeVars, netVars, opVars, version, nodeEdits,
                 restarts, wish, seen, unseenEdit>>

Resumed == IF tick.pc = "pushWait" THEN "push" ELSE "sweep"

ReconcileAnswer ==
  /\ tick.pc \in {"pushWait", "sweepWait"}
  /\ Tick \in answers
  /\ answers' = answers \ {Tick}
  /\ pushedFP' = [pushedFP EXCEPT ![tick.cur] =
                    IF tick.pc = "pushWait" THEN tick.plan[tick.cur] ELSE Absent]
  /\ Becomes([tick EXCEPT !.pc = Resumed, !.cur = Absent])
  /\ UNCHANGED <<dbVars, aliases, nodeVars, net, opVars, countVars, histVars>>

\* Faulty variant: the error of one inbound is logged and forgotten.
ReconcileFailedForgotten ==
  /\ tick.pc \in {"pushWait", "sweepWait"}
  /\ faults < MaxFaults
  /\ faults' = faults + 1
  /\ Abandon(Pending(Tick))
  /\ answers' = answers \ {Tick}
  /\ Becomes([tick EXCEPT !.pc = Resumed, !.cur = Absent])
  /\ UNCHANGED <<dbVars, remoteVars, nodeVars, opVars, version, nodeEdits,
                 restarts, histVars>>

(* One inbound the node rejects does not stop the others, but the error     *)
(* keeps the node dirty.                                                    *)
ReconcileFailed ==
  /\ tick.pc \in {"pushWait", "sweepWait"}
  /\ faults < MaxFaults
  /\ faults' = faults + 1
  /\ Abandon(Pending(Tick))
  /\ answers' = answers \ {Tick}
  /\ Becomes([tick EXCEPT !.pc = Resumed, !.cur = Absent, !.failed = TRUE])
  /\ UNCHANGED <<dbVars, remoteVars, nodeVars, opVars, version, nodeEdits,
                 restarts, histVars>>

ListFailed ==
  /\ tick.pc = "list"
  /\ faults < MaxFaults
  /\ faults' = faults + 1
  /\ Becomes([tick EXCEPT !.pc = "fetch"])
  /\ UNCHANGED <<dbVars, remoteVars, nodeVars, netVars, opVars, version,
                 nodeEdits, restarts, histVars>>

\* Faulty variants: the flag is cleared whatever was marked since the tick
\* loaded the node, or only for a mark older than the one it loaded.
ClearNodeDirtyAlways ==
  /\ tick.pc = "sweep" /\ tick.todo = {}
  /\ dirty' = (dirty /\ tick.failed)
  /\ Becomes([IdleTick EXCEPT !.pc = "fetch", !.adopted = tick.adopted])
  /\ UNCHANGED <<central, dirtyAt, adopted, remoteVars, nodeVars, netVars, opVars,
                 countVars, histVars>>

ClearNodeDirtyOlder ==
  /\ tick.pc = "sweep" /\ tick.todo = {}
  /\ dirty' = (dirty /\ (tick.failed \/ dirtyAt >= tick.at))
  /\ Becomes([IdleTick EXCEPT !.pc = "fetch", !.adopted = tick.adopted])
  /\ UNCHANGED <<central, dirtyAt, adopted, remoteVars, nodeVars, netVars, opVars,
                 countVars, histVars>>

(* ClearNodeDirty: a compare-and-swap on the mark loaded with the node row.  *)
ClearNodeDirty ==
  /\ tick.pc = "sweep" /\ tick.todo = {}
  /\ dirty' = IF ~tick.failed /\ dirtyAt = tick.at THEN FALSE ELSE dirty
  /\ Becomes([IdleTick EXCEPT !.pc = "fetch", !.adopted = tick.adopted])
  /\ UNCHANGED <<central, dirtyAt, adopted, remoteVars, nodeVars, netVars, opVars,
                 countVars, histVars>>

FetchSnapshot ==
  /\ tick.pc = "fetch"
  /\ Becomes([IdleTick EXCEPT !.pc = "sample", !.adopted = tick.adopted,
                              !.snap = node])
  /\ unseenEdit' = FALSE
  /\ UNCHANGED <<dbVars, remoteVars, nodeVars, netVars, opVars, countVars,
                 wish, seen, crossed>>

FetchFailed ==
  /\ tick.pc = "fetch"
  /\ faults < MaxFaults
  /\ faults' = faults + 1
  /\ Becomes(IdleTick)
  /\ UNCHANGED <<dbVars, remoteVars, nodeVars, netVars, opVars, version,
                 nodeEdits, restarts, histVars>>

SampleDirty ==
  /\ tick.pc = "sample"
  /\ Becomes([tick EXCEPT !.pc = "merge", !.dirty = dirty])
  /\ UNCHANGED <<dbVars, remoteVars, nodeVars, netVars, opVars, countVars, histVars>>

\* Faulty variant: the merge trusts the flag sampled before it was queued.
MergeBeginSampled ==
  /\ tick.pc = "merge"
  /\ Becomes([tick EXCEPT !.pc = "merging", !.frozen = tick.dirty,
                          !.base = central])
  /\ UNCHANGED <<dbVars, remoteVars, nodeVars, netVars, opVars, countVars, histVars>>

(* setRemoteTrafficLocked, on the writer: re-read the flag and the rows...   *)
MergeBegin ==
  /\ tick.pc = "merge"
  /\ Becomes([tick EXCEPT !.pc = "merging", !.frozen = tick.dirty \/ dirty,
                          !.base = central])
  /\ UNCHANGED <<dbVars, remoteVars, nodeVars, netVars, opVars, countVars, histVars>>

(* ...then, unless dirty, take over what the node reports: known inbounds    *)
(* are adopted, unknown ones imported, unreported ones removed (an empty     *)
(* report, or one without a disabled inbound, says nothing).  Changed        *)
(* payloads are stamped as held by the node.                                *)
Adopted(i) ==
  IF tick.snap[i] # Absent THEN tick.snap[i]
  ELSE IF Present(tick.snap) = {} \/ i \in Disabled THEN central[i] ELSE Absent

MergeCommit ==
  /\ tick.pc = "merging"
  /\ central' = IF tick.frozen THEN central
                               ELSE [i \in Inbounds |-> Adopted(i)]
  /\ pushedFP' = [i \in Inbounds |->
       IF /\ ~tick.frozen
          /\ tick.snap[i] # Absent /\ tick.base[i] # Absent
          /\ tick.snap[i] # tick.base[i]
         THEN tick.snap[i] ELSE pushedFP[i]]
  /\ seen' = seen \cup Present(central')
  /\ Becomes([IdleTick EXCEPT !.pc = "mark", !.adopted = tick.adopted,
                              !.dirty = tick.dirty])
  /\ UNCHANGED <<dirty, dirtyAt, adopted, aliases, nodeVars, netVars, opVars,
                 countVars, wish, unseenEdit, crossed>>

(* MarkNodeInboundsAdopted goes by the flag syncOne sampled.                *)
MarkAdopted ==
  /\ tick.pc = "mark"
  /\ adopted' = (adopted \/ (~tick.dirty /\ ~tick.adopted))
  /\ Becomes(IdleTick)
  /\ UNCHANGED <<central, dirty, dirtyAt, remoteVars, nodeVars, netVars, opVars,
                 countVars, histVars>>

-----------------------------------------------------------------------------
(* The master panel restarts: calls, the tick and the Remote's caches are    *)
(* gone, the database stays.                                                *)
Restart ==
  /\ restarts < MaxRestarts
  /\ restarts' = restarts + 1
  /\ opPC' = [o \in Ops |-> IF opPC[o] = "idle" THEN "idle" ELSE "done"]
  /\ opArg' = [o \in Ops |-> NoArg]
  /\ tick' = IdleTick
  /\ pushedFP' = [i \in Inbounds |-> Absent]
  /\ aliases' = {}
  /\ Abandon(net) /\ answers' = {}
  /\ UNCHANGED <<dbVars, nodeVars, version, nodeEdits, faults, histVars>>

AdminStep ==
  \/ \E o \in ClientEdits, i \in Inbounds, s \in Slots : ReadClients(o, i, s)
  \/ \E o \in FormEdits, i \in Inbounds, s \in Slots : EditForm(o, i, s)
  \/ \E o \in Toggles, i \in Inbounds, s \in Slots : ReadToggle(o, i, s)
  \/ \E o \in Adds, i \in Inbounds : AddInbound(o, i)
  \/ \E o \in Deletes, i \in Inbounds : DelInbound(o, i)

CallStep(o) == \/ o \in ClientEdits /\ CommitClients(o)
               \/ o \in Toggles /\ CommitToggle(o)
               \/ PushDone(o)
               \/ PushFailed(o)

TickStep ==
  \/ TickStart \/ ReconcileRead \/ ReconcileList \/ ReconcileSweep
  \/ \E i \in Inbounds : \/ AdoptAlias(i) \/ ReconcileSkip(i)
                         \/ ReconcilePush(i)
                         \/ SweepDelete(i) \/ SweepSkipped(i)
  \/ ReconcileAnswer \/ ReconcileFailed \/ ListFailed \/ ClearNodeDirty
  \/ FetchSnapshot \/ FetchFailed \/ SampleDirty
  \/ MergeBegin \/ MergeCommit \/ MarkAdopted

NodeStep == \/ \E m \in net : NodeApply(m)
            \/ \E i \in Inbounds, s \in Slots : NodeEdit(i, s)
            \/ \E i \in Inbounds : NodeRemove(i)

Next == AdminStep \/ (\E o \in Ops : CallStep(o)) \/ TickStep \/ NodeStep \/ Restart

Spec == Init /\ [][Next]_vars

(* The cron keeps starting ticks, a started call returns, and the node      *)
(* answers what it is asked; calls to it fail at most MaxFaults times.      *)
Fairness == /\ WF_vars(TickStep)
            /\ \A o \in Ops : WF_vars(CallStep(o))
            /\ WF_vars(\E m \in net : NodeApply(m))

FairSpec == Spec /\ Fairness

-----------------------------------------------------------------------------
Table == [Inbounds -> Content \cup {Absent}]

CallArgs == [ib : Inbounds \cup {Absent}, slot : Slots \cup {Absent},
             base : Content \cup {Absent}, next : Content \cup {Absent}]

Requests ==
  [from : Ops \cup {Tick, Absent}, kind : {"slots", "full"}, ib : Inbounds,
   slots : SUBSET Slots, body : Content]
  \cup [from : Ops \cup {Tick, Absent}, kind : {"del"}, ib : Inbounds,
        slots : SUBSET Slots, body : {Absent}]

Ticks == [pc : {"idle", "read", "list", "push", "pushWait", "sweep", "sweepWait",
                "fetch", "sample", "merge", "merging", "mark"},
          at : Nat, adopted : BOOLEAN, plan : Table, listed : SUBSET Inbounds,
          strange : SUBSET Inbounds, todo : SUBSET Inbounds,
          cur : Inbounds \cup {Absent}, failed : BOOLEAN, snap : Table,
          dirty : BOOLEAN, frozen : BOOLEAN, base : Table]

(* Every variable has its type, an admin call past its read holds an inbound *)
(* and its payload, and the tick pushes only inbounds its read returned and  *)
(* waits only for one it named: no handler uses a row it did not load.       *)
TypeOK ==
  /\ central \in Table /\ node \in Table /\ pushedFP \in Table
  /\ foreign \subseteq Inbounds /\ aliases \subseteq Inbounds
  /\ dirty \in BOOLEAN /\ dirtyAt \in Nat /\ adopted \in BOOLEAN
  /\ opPC \in [Ops -> {"idle", "read", "await", "done"}]
  /\ opArg \in [Ops -> CallArgs]
  /\ \A o \in Ops :
       /\ opPC[o] = "read" => /\ opArg[o].ib \in Inbounds
                              /\ opArg[o].slot \in Slots
                              /\ opArg[o].base \in Content
       /\ opPC[o] = "await" => opArg[o].ib \in Inbounds
  /\ net \subseteq Requests /\ answers \subseteq Ops \cup {Tick}
  /\ tick \in Ticks
  /\ tick.pc = "push" => tick.todo \subseteq Present(tick.plan)
  /\ tick.pc \in {"pushWait", "sweepWait"} => tick.cur \in Inbounds
  /\ tick.pc = "pushWait" => tick.todo \subseteq Present(tick.plan)
  /\ version \in Nat /\ nodeEdits \in Nat /\ faults \in Nat /\ restarts \in Nat
  /\ wish \in [Inbounds -> {"present", "gone", "free"}]
  /\ seen \subseteq Inbounds /\ unseenEdit \in BOOLEAN /\ crossed \subseteq Inbounds

(* No edit is ever rolled back: whatever the node reports and whenever, the  *)
(* version of a slot in the master's database only moves forward, but for the *)
(* inbounds at which a known race has happened.                              *)
EditNotLost ==
  [][\A i \in Inbounds \ crossed, s \in Slots :
       (central[i] # Absent /\ central'[i] # Absent)
         => central'[i][s] >= central[i][s]]_central

(* The operator's last word on an inbound's existence stands: one added and  *)
(* not removed since stays, one deleted is not imported back; again but for  *)
(* the inbounds at which a known race has happened.                          *)
WishKept == \A i \in Inbounds \ crossed :
              /\ wish[i] = "present" => central[i] # Absent
              /\ wish[i] = "gone" => central[i] = Absent

(* The same of deletions, without the exception: a reconcile pushes "every    *)
(* inbound and sweeps undesired remote tags even when individual operations   *)
(* fail, returning the failures joined".                                     *)
DeletionStands == \A i \in Inbounds : wish[i] = "gone" => central[i] = Absent

(* A merge that takes over the node's report has seen every edit committed   *)
(* on the writer since the report was fetched (there was none).             *)
MergeSeesEdits == tick.pc = "merging" /\ ~tick.frozen => ~unseenEdit

(* The sweep never deletes from the node an inbound the master has never     *)
(* held ("absent locally" may mean "not imported yet").                     *)
OnboardingSafe ==
  \A m \in net : m.from = Tick /\ m.kind = "del" => m.ib \in seen

(* A fingerprint that would make the reconcile skip an inbound tells the     *)
(* truth once nobody is calling the node.                                   *)
SkipIsSafe ==
  (net = {} /\ \A o \in Ops : opPC[o] # "await")
    => \A i \in Inbounds : /\ pushedFP[i] # Absent /\ node[i] # Absent
                           /\ tick.pc \notin {"pushWait", "sweepWait"}
                           => node[i] = pushedFP[i]

(* Anti-entropy: once the edits stop, master and node agree and the node is  *)
(* clean (unless the node lost its last inbound: an empty report is ignored). *)
Agree == ~dirty /\ (central = node \/ Present(node) = {})
Converges == <>[]Agree
=============================================================================
