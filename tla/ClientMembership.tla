-------------------------- MODULE ClientMembership --------------------------
(***************************************************************************)
(* On which inbounds of which nodes one client (an email) exists, as the    *)
(* master's API calls and the nodes' snapshots decide it together            *)
(* (internal/web/service/client_crud.go, client_inbound_apply.go,            *)
(* client_link.go, client_locks.go, client_sync_orphan.go, inbound_node.go). *)
(*                                                                          *)
(* A delete leaves a tombstone that keeps snapshots taken before it from     *)
(* bringing the client back.  A merge that finds the client on no inbound    *)
(* any more marks its record, and the reaper deletes marked records after a  *)
(* grace period.  A snapshot without any clients, where the master has some, *)
(* is not believed.                                                         *)
(*                                                                          *)
(* An inbound is its number in the node's list.  Of a pushed payload only    *)
(* whether it lists the client is kept, so the reconcile's fingerprint is    *)
(* "in", "out" or "none"; a reconcile is one step (NodeConfigSync has its    *)
(* calls, and calls that arrive late).  Time passes in units of a tombstone's *)
(* life, 90 seconds; a snapshot is merged or given up before one is over.    *)
(***************************************************************************)
EXTENDS Integers, FiniteSets

CONSTANTS
  Inbounds,     \* node inbounds, in the order the nodes list them
  Nodes,
  HostOf,       \* the node each inbound is on
  Shared,       \* inbounds that hold other clients as well
  Grace,        \* syncOrphanReapGrace, in units of deleteTombstoneTTL
  MaxCalls,     \* bound: API calls
  MaxFaults     \* bound: failed calls, bad snapshots, restarts, changes on nodes

ASSUME InboundsAssumption == Inbounds \subseteq Nat /\ Shared \subseteq Inbounds
                             /\ HostOf \in [Inbounds -> Nodes]
ASSUME GraceAssumption == Grace \in Nat \ {0}
ASSUME BoundsAssumption == MaxCalls \in Nat /\ MaxFaults \in Nat

Unmarked == -1    \* sync_orphaned_at = 0

VARIABLES
  record,     \* the client has a row in clients
  mark,       \* sync_orphaned_at: what is left of the grace period
  settings,   \* inbounds whose settings list the client
  links,      \* client_inbounds
  dirty,      \* nodes.config_dirty
  marked,     \* nodes.config_dirty_at moved since the tick read it
  tomb,       \* recentlyDeleted: the client has a live tombstone
  fp,         \* Remote.pushedFP per inbound
  call,       \* the API call: kind, inbounds to visit, read, to push
  reaper,     \* ReapSyncOrphans has listed the client and not deleted it yet
  job,        \* syncOne per node: its step and snapshot
  holds,      \* the nodes: inbounds that list the client
  calls, faults,
  gone,       \* history: deleted and not created again
  slipped,    \* history: the delete lost track of a node
  cause,      \* history: who took the last link
  alone,      \* history: how long there has been no link, up to Grace
  carried     \* history: attached while marked, or while listed by the reaper

tableVars == <<record, mark, settings, links, dirty, marked>>
memoryVars == <<tomb, fp, call, reaper, job>>
countVars == <<calls, faults>>
linkHist == <<cause, alone, carried>>
vars == <<tableVars, memoryVars, holds, countVars, gone, slipped, linkHist>>

On(n) == {i \in Inbounds : HostOf[i] = n}

Calls == [kind : {"idle", "create", "attach", "detach", "delete"},
          todo : SUBSET Inbounds, found : SUBSET Inbounds,
          push : SUBSET Inbounds, failed : BOOLEAN]
Jobs == [pc : {"idle", "reconcile", "fetch", "merge"},
         snap : SUBSET Inbounds, blank : BOOLEAN]

IdleCall == [kind |-> "idle", todo |-> {}, found |-> {}, push |-> {}, failed |-> FALSE]
IdleJob == [pc |-> "idle", snap |-> {}, blank |-> FALSE]

TypeOK ==
  /\ record \in BOOLEAN /\ mark \in 0 .. Grace \cup {Unmarked}
  /\ settings \subseteq Inbounds /\ links \subseteq Inbounds
  /\ dirty \in [Nodes -> BOOLEAN] /\ marked \in [Nodes -> BOOLEAN]
  /\ tomb \in BOOLEAN
  /\ fp \in [Inbounds -> {"in", "out", "none"}]
  /\ call \in Calls /\ reaper \in BOOLEAN /\ job \in [Nodes -> Jobs]
  /\ holds \subseteq Inbounds
  /\ calls \in Nat /\ faults \in Nat
  /\ gone \in BOOLEAN /\ slipped \in BOOLEAN
  /\ cause \in {"none", "sweep", "operator"} /\ alone \in 0 .. Grace
  /\ carried \in BOOLEAN

Listing(s, i) == IF i \in s THEN "in" ELSE "out"

(* Master and nodes agree; the master has just started or pushed it all.     *)
Init ==
  /\ record = TRUE /\ mark = Unmarked
  /\ links \in SUBSET Inbounds \ {{}}
  /\ settings = links /\ holds = links
  /\ dirty = [n \in Nodes |-> FALSE] /\ marked = [n \in Nodes |-> FALSE]
  /\ tomb = FALSE
  /\ fp \in {[i \in Inbounds |-> "none"], [i \in Inbounds |-> Listing(links, i)]}
  /\ call = IdleCall /\ reaper = FALSE /\ job = [n \in Nodes |-> IdleJob]
  /\ calls = 0 /\ faults = 0
  /\ gone = FALSE /\ slipped = FALSE
  /\ cause = "none" /\ alone = 0 /\ carried = FALSE

Fault == faults < MaxFaults /\ faults' = faults + 1

MarkDirty(ns) ==
  /\ dirty' = [n \in Nodes |-> n \in ns \/ dirty[n]]
  /\ marked' = [n \in Nodes |-> n \in ns \/ marked[n]]

Link(ls, by) ==
  /\ links' = ls
  /\ cause' = IF ls # {} THEN "none" ELSE IF links # {} THEN by ELSE cause
  /\ alone' = IF ls = links THEN alone ELSE 0

-----------------------------------------------------------------------------
(* API calls.  Each inbound is a transaction of its own on the serial writer, *)
(* which marks its node dirty, and a live push after it; the inbounds of a    *)
(* call are handled in parallel.                                            *)

Begin(kind, is) ==
  /\ call.kind = "idle" /\ calls < MaxCalls /\ calls' = calls + 1
  /\ call' = [IdleCall EXCEPT !.kind = kind, !.todo = is]

(* Create of a client that has no record, Attach of one that has.            *)
Add(is) ==
  /\ is # {} /\ is \cap (links \cup settings) = {}
  /\ Begin(IF record THEN "attach" ELSE "create", is)
  /\ UNCHANGED <<reaper, tableVars, tomb, fp, job, holds, faults, gone, slipped, linkHist>>

\* AddInboundClient; a record it creates lifts the tombstone on commit.
AddToInbound(i) ==
  /\ call.kind \in {"create", "attach"} /\ i \in call.todo
  /\ call' = [call EXCEPT !.todo = @ \ {i}, !.push = @ \cup {i}]
  /\ settings' = settings \cup {i}
  /\ Link(links \cup {i}, "operator")
  /\ MarkDirty({HostOf[i]})
  /\ record' = TRUE
  /\ tomb' = (tomb /\ record)
  /\ gone' = FALSE
  /\ carried' = (mark # Unmarked \/ reaper)
  /\ UNCHANGED <<reaper, mark, fp, job, holds, countVars, slipped>>

Detach(is) ==
  /\ record /\ is # {} /\ is \subseteq links
  /\ Begin("detach", is)
  /\ UNCHANGED <<reaper, tableVars, tomb, fp, job, holds, faults, gone, slipped, linkHist>>

\* The tombstone comes first.
Delete ==
  /\ record
  /\ Begin("delete", links)
  /\ tomb' = TRUE
  /\ gone' = FALSE /\ slipped' = ~(holds \cup settings \subseteq links)
  /\ UNCHANGED <<reaper, tableVars, fp, job, holds, faults, linkHist>>

\* DelInboundClientByEmail: an inbound that does not list the client is done.
FindInInbound(i) ==
  /\ call.kind \in {"detach", "delete"} /\ i \in call.todo
  /\ call' = [call EXCEPT !.todo = @ \ {i},
                          !.found = IF i \in settings THEN @ \cup {i} ELSE @]
  /\ UNCHANGED <<reaper, tableVars, tomb, fp, job, holds, countVars, gone, slipped, linkHist>>

DelFromInbound(i) ==
  /\ i \in call.found
  /\ call' = [call EXCEPT !.found = @ \ {i}, !.push = @ \cup {i}]
  /\ settings' = settings \ {i}
  /\ Link(links \ {i}, "operator")
  /\ MarkDirty({HostOf[i]})
  /\ slipped' = (slipped \/ (fp[i] = "out" /\ i \in holds))
  /\ UNCHANGED <<reaper, record, mark, tomb, fp, job, holds, countVars, gone, carried>>

\* The inbound cannot be read, or its transaction fails.
DelFails(i) ==
  /\ call.kind = "delete" /\ i \in call.todo \cup call.found
  /\ Fault
  /\ call' = [call EXCEPT !.todo = @ \ {i}, !.found = @ \ {i}, !.failed = TRUE]
  /\ UNCHANGED <<reaper, tableVars, tomb, fp, job, holds, calls, gone, slipped, linkHist>>

\* A full delete removes the client from every inbound of the node.
AfterPush(i) ==
  CASE call.kind = "delete" -> holds \ On(HostOf[i])
    [] call.kind = "detach" -> holds \ {i}
    [] OTHER -> holds \cup {i}

\* advancePushedInbound, from the payload before the call to the one after it.
Advanced(i) ==
  IF call.kind \in {"create", "attach"}
    THEN IF fp[i] = "out" THEN "in" ELSE fp[i]
    ELSE IF fp[i] = "in" THEN "out" ELSE fp[i]

Push(i) ==
  /\ i \in call.push
  /\ call' = [call EXCEPT !.push = @ \ {i}]
  /\ holds' = AfterPush(i)
  /\ fp' = [fp EXCEPT ![i] = Advanced(i)]
  /\ UNCHANGED <<reaper, tableVars, tomb, job, countVars, gone, slipped, linkHist>>

\* The node is offline or refuses, or does it and the answer is lost.
PushFails(i) ==
  /\ i \in call.push
  /\ Fault
  /\ call' = [call EXCEPT !.push = @ \ {i}]
  /\ holds' \in {holds, AfterPush(i)}
  /\ UNCHANGED <<reaper, tableVars, tomb, fp, job, calls, gone, slipped, linkHist>>

TombstoneAfter ==
  tomb /\ call.kind # "create" /\ ~(call.kind = "delete" /\ call.failed)

(* Delete drops the record unless an inbound failed; Create lifts a tombstone *)
(* once more.                                                               *)
Finish ==
  /\ call.kind # "idle" /\ call.todo \cup call.found \cup call.push = {}
  /\ call' = IdleCall
  /\ tomb' = TombstoneAfter
  /\ IF call.kind = "delete" /\ ~call.failed
       THEN /\ record' = FALSE /\ mark' = Unmarked
            /\ Link({}, "operator")
            /\ gone' = TRUE /\ carried' = FALSE
       ELSE UNCHANGED <<record, mark, links, cause, alone, gone, carried>>
  /\ UNCHANGED <<reaper, settings, dirty, marked, fp, job, holds, countVars, slipped>>

-----------------------------------------------------------------------------
(* The sync job.                                                            *)

Tick ==
  /\ \A n \in Nodes : job[n].pc = "idle"
  /\ job' = [n \in Nodes |->
       [IdleJob EXCEPT !.pc = IF dirty[n] THEN "reconcile" ELSE "fetch"]]
  /\ marked' = [n \in Nodes |-> FALSE]
  /\ UNCHANGED <<reaper, record, mark, settings, links, dirty, tomb, fp, call, holds,
                 countVars, gone, slipped, linkHist>>

\* ReconcileInbound: an inbound whose fingerprint matches is not pushed.
Stale(n) == {i \in On(n) : fp[i] # Listing(settings, i)}

Pushed(is) ==
  /\ holds' = (holds \ is) \cup (settings \cap is)
  /\ fp' = [i \in Inbounds |-> IF i \in is THEN Listing(settings, i) ELSE fp[i]]

Reconcile(n) ==
  /\ job[n].pc = "reconcile"
  /\ Pushed(Stale(n))
  /\ dirty' = [dirty EXCEPT ![n] = marked[n]]
  /\ job' = [job EXCEPT ![n].pc = "fetch"]
  /\ UNCHANGED <<reaper, record, mark, settings, links, marked, tomb, call, countVars,
                 gone, slipped, linkHist>>

ReconcileFails(n) ==
  /\ job[n].pc = "reconcile"
  /\ Fault
  /\ \E is \in SUBSET Stale(n) : Pushed(is)
  /\ job' = [job EXCEPT ![n].pc = "fetch"]
  /\ UNCHANGED <<reaper, tableVars, tomb, call, calls, gone, slipped, linkHist>>

Fetch(n) ==
  /\ job[n].pc = "fetch"
  /\ job' = [job EXCEPT ![n] = [pc |-> "merge", snap |-> holds \cap On(n), blank |-> FALSE]]
  /\ UNCHANGED <<reaper, tableVars, tomb, fp, call, holds, countVars, gone, slipped, linkHist>>

\* The node answers with some of its clients missing, or with none of them.
FetchGarbled(n) ==
  /\ job[n].pc = "fetch"
  /\ Fault
  /\ \E s \in SUBSET (holds \cap On(n)), b \in BOOLEAN :
       /\ b => s = {}
       /\ job' = [job EXCEPT ![n] = [pc |-> "merge", snap |-> s, blank |-> b]]
  /\ UNCHANGED <<reaper, tableVars, tomb, fp, call, holds, calls, gone, slipped, linkHist>>

FetchFails(n) ==
  /\ job[n].pc = "fetch"
  /\ Fault
  /\ job' = [job EXCEPT ![n] = IdleJob]
  /\ UNCHANGED <<reaper, tableVars, tomb, fp, call, holds, calls, gone, slipped, linkHist>>

\* Faulty variant: tombstones are not consulted.
SeenAll(n) == job[n].snap

\* stripTombstonedClients.
Seen(n) == IF tomb THEN {} ELSE job[n].snap

\* snapshotDropsEveryHubClient.
Degraded(n, i) ==
  /\ i \notin Seen(n) /\ (job[n].blank \/ i \notin Shared)
  /\ i \in links \cup Shared

Adopted(n) == {i \in On(n) : ~dirty[n] /\ ~Degraded(n, i)}

(* clientEmailsOwnedElsewhere: a client linked elsewhere is taken over only   *)
(* while a link to this node is left.  Inbounds are synced in order, so a     *)
(* link that goes later still counts, and so does one just made.             *)
Ours(n, i) ==
  LET fresh == (Seen(n) \cap Adopted(n)) \ links
      kept == (links \cap On(n)) \ (Adopted(n) \ Seen(n))
  IN \/ i \in links \/ links \subseteq On(n) \/ kept # {}
     \/ \E e \in fresh, l \in links \cap On(n) : e <= i /\ e < l

LinksAfter(n) ==
  (links \ Adopted(n)) \cup {i \in Adopted(n) \cap Seen(n) : Ours(n, i)}

\* Faulty variant: a client that lost its last link is not marked.
MarkAfterNever(n) == IF LinksAfter(n) # {} THEN Unmarked ELSE mark

\* markSyncOrphan if this merge took the last link, then clearSyncOrphanMarks.
MarkAfter(n) ==
  IF LinksAfter(n) # {} THEN Unmarked
  ELSE IF links \cap Adopted(n) # {} /\ mark = Unmarked THEN Grace ELSE mark

\* Faulty variant: an inbound that lost its clients is left as it is.
ToRepairNone(n) == {}

\* A degraded inbound is pushed again in full.
ToRepair(n) == {i \in On(n) : ~dirty[n] /\ Degraded(n, i)}

(* setRemoteTrafficLocked, on the serial writer.                             *)
Merge(n) ==
  LET adopted == Adopted(n)
      after == (settings \ adopted) \cup (Seen(n) \cap adopted)
      changed == {i \in adopted : Listing(settings, i) # Listing(after, i)}
  IN /\ job[n].pc = "merge"
     /\ job' = [job EXCEPT ![n] = IdleJob]
     /\ settings' = after
     /\ record' = (record \/ LinksAfter(n) # {})
     /\ mark' = MarkAfter(n)
     /\ Link(LinksAfter(n), "sweep")
     /\ carried' = IF LinksAfter(n) # {} THEN reaper ELSE carried
     /\ fp' = [i \in Inbounds |-> IF i \in ToRepair(n) THEN "none"
                                  ELSE IF i \in changed THEN Listing(after, i) ELSE fp[i]]
     /\ MarkDirty(IF ToRepair(n) # {} THEN {n} ELSE {})
     /\ slipped' = (slipped \/ \E i \in changed : i \in holds \ after)
     /\ UNCHANGED <<reaper, tomb, call, holds, countVars, gone>>

-----------------------------------------------------------------------------
(* ReapSyncOrphans, the passing of time, and what happens elsewhere.         *)

\* Faulty variant: the reaper does not wait.
ReapableAtOnce == record /\ mark # Unmarked /\ links = {}

Reapable == record /\ mark = 0 /\ links = {}

ListOrphan ==
  /\ ~reaper /\ Reapable
  /\ reaper' = TRUE
  /\ UNCHANGED <<tableVars, tomb, fp, call, job, holds, countVars, gone, slipped, linkHist>>

\* A transaction of its own, which deletes by email and looks at nothing else.
Reap ==
  /\ reaper
  /\ reaper' = FALSE
  /\ record' = FALSE /\ mark' = Unmarked
  /\ links' = {} /\ cause' = "none" /\ alone' = 0 /\ carried' = FALSE
  /\ UNCHANGED <<settings, dirty, marked, tomb, fp, call, job, holds, countVars, gone, slipped>>

\* Faulty variant: the clock runs for a client without a mark too.
MarkAgedAlways == mark - 1

MarkAged == IF mark > 0 THEN mark - 1 ELSE mark

Pass ==
  /\ \A n \in Nodes : job[n].pc # "merge"
  /\ tomb \/ mark > 0 \/ (links = {} /\ alone < Grace)
  /\ tomb' = FALSE
  /\ mark' = MarkAged
  /\ alone' = IF links = {} /\ alone < Grace THEN alone + 1 ELSE alone
  /\ UNCHANGED <<reaper, record, settings, links, dirty, marked, fp, call, job, holds,
                 countVars, gone, slipped, cause, carried>>

NodeRemoves(i) ==
  /\ Fault /\ i \in holds
  /\ holds' = holds \ {i}
  /\ UNCHANGED <<tableVars, memoryVars, calls, gone, slipped, linkHist>>

NodeAdds(i) ==
  /\ Fault /\ i \notin holds
  /\ holds' = holds \cup {i}
  /\ gone' = FALSE /\ slipped' = TRUE
  /\ UNCHANGED <<tableVars, memoryVars, calls, linkHist>>

MasterRestarts ==
  /\ Fault
  /\ tomb' = FALSE /\ fp' = [i \in Inbounds |-> "none"]
  /\ call' = IdleCall /\ reaper' = FALSE /\ job' = [n \in Nodes |-> IdleJob]
  /\ UNCHANGED <<tableVars, holds, calls, gone, slipped, linkHist>>

CallStep == \/ \E i \in Inbounds : AddToInbound(i) \/ FindInInbound(i)
                                   \/ DelFromInbound(i) \/ Push(i)
            \/ Finish
Sync(n) == Reconcile(n) \/ Fetch(n) \/ Merge(n)

Next ==
  \/ \E is \in SUBSET Inbounds : Add(is) \/ Detach(is)
  \/ Delete \/ CallStep \/ Tick \/ ListOrphan \/ Reap \/ Pass \/ MasterRestarts
  \/ \E i \in Inbounds : DelFails(i) \/ PushFails(i) \/ NodeRemoves(i) \/ NodeAdds(i)
  \/ \E n \in Nodes : Sync(n) \/ ReconcileFails(n) \/ FetchGarbled(n) \/ FetchFails(n)

Spec == Init /\ [][Next]_vars

Fairness == /\ WF_vars(CallStep) /\ WF_vars(Tick) /\ WF_vars(ListOrphan) /\ WF_vars(Reap) /\ SF_vars(Pass)
            /\ \A n \in Nodes : WF_vars(Sync(n))

FairSpec == Spec /\ Fairness

-----------------------------------------------------------------------------
(* "So that a node snapshot arriving between delete and node-side processing *)
(* doesn't resurrect them" (client_locks.go): once Delete has answered, no    *)
(* merge brings the client's record back until it is created again.          *)
DeletedStaysDeleted == gone => ~record

(* The same for deletes that reached every node's inbound: slipped says that  *)
(* one was left to the reconcile while its fingerprint, or the master's       *)
(* settings, already claimed that the node does not list the client.  Then    *)
(* nothing removes it there, and the tombstone ends after 90 seconds.        *)
DeletedStaysDeletedUnlessSlipped == slipped \/ DeletedStaysDeleted

(* ReapSyncOrphans "deletes the clients the node-snapshot sweep marked and no *)
(* later merge reclaimed": whoever it deletes has had no inbound for a whole  *)
(* grace period, and it was a merge that took the last one, not a Detach.    *)
ReapsOnlySwept ==
  [][Reap /\ record => links = {} /\ cause = "sweep" /\ alone = Grace]_vars

(* The same unless the client was attached while it carried the mark, which   *)
(* only a merge clears, or after the reaper had listed it.                   *)
ReapsOnlySweptUnlessCarried ==
  [][Reap /\ record => carried \/ (links = {} /\ cause = "sweep" /\ alone = Grace)]_vars

(* A client the nodes lost for good does not stay without an inbound: a merge *)
(* or a call links it again, or the reaper deletes it.                       *)
SweptEnds ==
  (record /\ links = {} /\ cause = "sweep")
    ~> (~record \/ links # {} \/ cause # "sweep")

(* Once calls and faults are over, the nodes list the client exactly where    *)
(* the master's settings do: merges, reconciles and the repair of degraded    *)
(* inbounds do not undo one another for ever.                                *)
AgreesInTheEnd == <>[](holds = settings)
=============================================================================
