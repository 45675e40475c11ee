----------------------------- MODULE TuicTraffic -----------------------------
(***************************************************************************)
(* How the traffic that the embedded TUIC server counts reaches the clients' *)
(* rows (internal/tuic/auth.go, server.go, manager.go;                       *)
(* web/job/tuic_job.go, tuic_journal.go;                                     *)
(* web/service/tuic_traffic_receipt.go; web/web.go).                         *)
(*                                                                          *)
(* A registration is one User object: a client whose credentials change gets *)
(* a new one, and the old one is kept until its sessions are over and its    *)
(* bytes collected.  The job drains the counters and adds them to the rows;  *)
(* at shutdown they are drained into a journal file, and files are replayed, *)
(* guarded by receipts, until one replay has removed them.                   *)
(*                                                                          *)
(* One inbound; upload and download are one counter; a client is its row's   *)
(* id, which travels with the traffic.  What the inbound's row lists is any  *)
(* set, so that callers may apply lists as old as they like.  Close ends the *)
(* sessions and waits for them before the counters are drained: one step.    *)
(* A shutdown that keeps the cores (SIGHUP) keeps the manager as well.  API   *)
(* calls are waited for ten seconds at shutdown; a slow one may still start a *)
(* server when it has stopped them all.                                      *)
(***************************************************************************)
EXTENDS Integers, FiniteSets, Functions

CONSTANTS
  Clients,     \* client_traffics rows
  Users,       \* registrations
  OwnerOf,     \* the client a registration bills
  Batches,     \* uuids of journal files
  MaxUses,     \* bound: units of traffic
  MaxEdits,    \* bound: changes of the inbound and deletions of clients
  MaxFaults    \* bound: crashes, shutdowns, errors of the database and of files

ASSUME OwnersAssumption == /\ IsFiniteSet(Users) /\ IsFiniteSet(Batches)
                           /\ OwnerOf \in [Users -> Clients]
ASSUME BoundsAssumption == MaxUses \in Nat /\ MaxEdits \in Nat /\ MaxFaults \in Nat

Job == "job"        \* TuicJob.Run: boot's and the cron's exclude each other
Flush == "flush"    \* FlushStoppedTraffic
Free == "free"
Threads == {Job, Flush}
MaxTries == 3       \* flushTuicJournal's attempts

VARIABLES
  panel,      \* the panel process
  boot,       \* go tuicJob.Run() at start: not begun, under way, over
  server,     \* the inbound has a running server
  reg,        \* UserRegistry: users and retired
  sessions,   \* User.sessions
  bytes,      \* User.Traffic
  pending,    \* Manager.pendingTraffic
  mu,         \* Manager.mu, where it is held over more than one step
  th,         \* threads: step, registrations and files to visit, what they hold
  files,      \* journal files on disk
  content,    \* their deltas
  receipts,   \* tuic_traffic_receipts
  rows,       \* clients that have a row
  charged,    \* what has been added to it
  uses, edits, faults,
  used,       \* history: what a client's sessions transferred
  lost,       \* history: what no counter, batch or file holds any more
  doubled,    \* history: what was put back although it had been committed
  late,       \* history: the boot run was not over when the servers were stopped,
              \* or a slow call started one afterwards
  unstored    \* history: the journal could not be written

serverVars == <<server, reg, sessions, bytes>>
journalVars == <<files, content, receipts>>
rowVars == <<rows, charged>>
countVars == <<uses, edits, faults>>
histVars == <<used, lost, doubled, late, unstored>>
vars == <<panel, boot, serverVars, pending, mu, th, journalVars, rowVars, countVars, histVars>>

Amounts == [Clients -> Nat]
Steps == [pc : {"idle", "wait", "commit", "remove", "reconcile", "collect", "take",
                "check", "store", "add", "done"},
          todo : SUBSET Users, cur : SUBSET Users, batch : Amounts,
          list : SUBSET Batches, at : SUBSET Batches, tries : 1 .. MaxTries]

Nothing == [c \in Clients |-> 0]
Idle == [pc |-> "idle", todo |-> {}, cur |-> {}, batch |-> Nothing, list |-> {}, at |-> {},
         tries |-> 1]

TypeOK ==
  /\ panel \in {"up", "stopping", "down"} /\ boot \in {"due", "running", "over"}
  /\ server \in BOOLEAN
  /\ reg \in [Users -> {"none", "active", "retired"}]
  /\ sessions \in [Users -> Nat] /\ bytes \in [Users -> Nat]
  /\ pending \in Amounts /\ mu \in Threads \cup {Free}
  /\ th \in [Threads -> Steps]
  /\ files \subseteq Batches /\ receipts \subseteq Batches
  /\ content \in [Batches -> Amounts]
  /\ rows \subseteq Clients /\ charged \in Amounts
  /\ uses \in Nat /\ edits \in Nat /\ faults \in Nat
  /\ used \in Amounts /\ lost \in Amounts /\ doubled \in Amounts
  /\ late \in BOOLEAN /\ unstored \in BOOLEAN

(* A panel just started for the first time.                                 *)
Init ==
  /\ panel = "up" /\ boot = "due" /\ server = FALSE
  /\ reg = [u \in Users |-> "none"]
  /\ sessions = [u \in Users |-> 0] /\ bytes = [u \in Users |-> 0]
  /\ pending = Nothing /\ mu = Free
  /\ th = [t \in Threads |-> Idle]
  /\ files = {} /\ receipts = {} /\ content = [b \in Batches |-> Nothing]
  /\ rows = Clients /\ charged = Nothing
  /\ uses = 0 /\ edits = 0 /\ faults = 0
  /\ used = Nothing /\ lost = Nothing /\ doubled = Nothing
  /\ late = FALSE /\ unstored = FALSE

Fault == faults < MaxFaults /\ faults' = faults + 1

Plus(a, b) == [c \in Clients |-> a[c] + b[c]]
Of(c, n) == [d \in Clients |-> IF d = c THEN n ELSE 0]

\* What the registrations in us have counted, by client.
Counted(us) ==
  [c \in Clients |-> SumFunctionOnSet(bytes, {u \in us : OwnerOf[u] = c})]

-----------------------------------------------------------------------------
(* Sessions.  One is registered under the registry's lock, with a current      *)
(* user only, and ends after its last byte was counted.                      *)

Connect(u) ==
  /\ server /\ reg[u] = "active" /\ sessions[u] = 0 /\ mu = Free
  /\ sessions' = [sessions EXCEPT ![u] = 1]
  /\ UNCHANGED <<panel, boot, server, reg, bytes, pending, mu, th, journalVars, rowVars,
                 countVars, histVars>>

Use(u) ==
  /\ sessions[u] > 0 /\ uses < MaxUses /\ uses' = uses + 1
  /\ bytes' = [bytes EXCEPT ![u] = @ + 1]
  /\ used' = [used EXCEPT ![OwnerOf[u]] = @ + 1]
  /\ UNCHANGED <<panel, boot, server, reg, sessions, pending, mu, th, journalVars, rowVars,
                 edits, faults, lost, doubled, late, unstored>>

Disconnect(u) ==
  /\ sessions[u] > 0
  /\ sessions' = [sessions EXCEPT ![u] = 0]
  /\ UNCHANGED <<panel, boot, server, reg, bytes, pending, mu, th, journalVars, rowVars,
                 countVars, histVars>>

-----------------------------------------------------------------------------
(* The manager.  Each of its operations holds Manager.mu.                   *)

\* Faulty variant: whoever is not listed any more is forgotten.
ListedOnly(us) == [u \in Users |-> IF u \in us THEN "active" ELSE "none"]

\* SetUsers: whoever is not listed any more is retired.
Listed(us) ==
  [u \in Users |-> IF u \in us THEN "active"
                   ELSE IF reg[u] = "active" THEN "retired" ELSE reg[u]]

\* Faulty variant: a server that is stopped takes its counters along.
DrainedNothing == Nothing

\* stopAndDrainLocked.
Drained == Counted(Users)

\* Ensure and Remove, for a list of registrations: a running server is told,
\* or for another reason stopped and started again; without clients it goes.
Converge(us, restart) ==
  /\ mu = Free
  /\ \A u \in us : reg[u] # "retired" /\ \A v \in us : OwnerOf[u] = OwnerOf[v] => u = v
  /\ IF server /\ ~restart /\ us # {}
       THEN /\ reg' = Listed(us)
            /\ UNCHANGED <<server, sessions, bytes, pending>>
       ELSE /\ pending' = Plus(pending, Drained)
            /\ reg' = [u \in Users |-> IF u \in us THEN "active" ELSE "none"]
            /\ server' = (us # {})
            /\ sessions' = [u \in Users |-> 0] /\ bytes' = [u \in Users |-> 0]

\* An API call that changes the inbound or one of its clients; a slow one
\* outlasts the shutdown's wait for it.
Ensure(us, restart) ==
  /\ panel # "down" /\ edits < MaxEdits /\ edits' = edits + 1
  /\ Converge(us, restart)
  /\ late' = (late \/ (th[Flush].pc # "idle" /\ us # {}))
  /\ UNCHANGED <<panel, boot, mu, th, journalVars, rowVars, uses, faults,
                 used, lost, doubled, unstored>>

DeleteRow(c) ==
  /\ panel # "down" /\ c \in rows /\ edits < MaxEdits /\ edits' = edits + 1
  /\ rows' = rows \ {c}
  /\ UNCHANGED <<panel, boot, serverVars, pending, mu, th, journalVars, charged, uses, faults,
                 histVars>>

-----------------------------------------------------------------------------
(* CollectAllTraffic, by the job and by the flush.  The counters are swapped  *)
(* one registration after the other, beside the sessions that count on.      *)

BeginCollect(t) ==
  /\ th[t].pc = "collect" /\ mu = Free
  /\ mu' = t
  /\ th' = [th EXCEPT ![t].pc = "take", ![t].batch = pending,
                      ![t].todo = IF server THEN {u \in Users : reg[u] # "none"} ELSE {}]
  /\ pending' = Nothing
  /\ UNCHANGED <<panel, boot, serverVars, journalVars, rowVars, countVars, histVars>>

Take(t, u) ==
  /\ th[t].pc = "take" /\ u \in th[t].todo
  /\ th' = [th EXCEPT ![t].batch = Plus(@, Of(OwnerOf[u], bytes[u])),
                      ![t].pc = IF reg[u] = "retired" THEN "check" ELSE "take",
                      ![t].cur = IF reg[u] = "retired" THEN {u} ELSE {},
                      ![t].todo = @ \ {u}]
  /\ bytes' = [bytes EXCEPT ![u] = 0]
  /\ UNCHANGED <<panel, boot, server, reg, sessions, pending, mu, journalVars, rowVars,
                 countVars, histVars>>

\* A retired registration is forgotten once it has no session any more; what
\* its last one counted since the swap goes with it.
Check(t, u) ==
  /\ th[t].pc = "check" /\ u \in th[t].cur
  /\ IF sessions[u] = 0
       THEN /\ reg' = [reg EXCEPT ![u] = "none"]
            /\ bytes' = [bytes EXCEPT ![u] = 0]
            /\ lost' = Plus(lost, Of(OwnerOf[u], bytes[u]))
       ELSE UNCHANGED <<reg, bytes, lost>>
  /\ th' = [th EXCEPT ![t].pc = "take", ![t].cur = {}]
  /\ UNCHANGED <<panel, boot, server, sessions, pending, mu, journalVars, rowVars, countVars,
                 used, doubled, late, unstored>>

EndCollect(t) ==
  /\ th[t].pc = "take" /\ th[t].todo = {}
  /\ mu' = Free
  /\ th' = [th EXCEPT ![t] = IF @.batch # Nothing
                               THEN [@ EXCEPT !.pc = IF t = Job THEN "add" ELSE "store"]
                             ELSE IF t = Job THEN Idle
                             ELSE [@ EXCEPT !.pc = "commit", !.list = files]]
  /\ boot' = IF t = Job /\ th[t].batch = Nothing /\ boot = "running" THEN "over" ELSE boot
  /\ UNCHANGED <<panel, serverVars, pending, journalVars, rowVars, countVars, histVars>>

-----------------------------------------------------------------------------
(* TuicJob.Run.                                                             *)

StartRun ==
  /\ th[Job].pc = "idle"
  /\ \/ panel # "down" /\ boot = "due" /\ boot' = "running"
     \/ panel = "up" /\ boot' = boot
  /\ th' = [th EXCEPT ![Job].pc = "wait"]
  /\ UNCHANGED <<panel, serverVars, pending, mu, journalVars, rowVars, countVars, histVars>>

EndRun ==
  /\ th' = [th EXCEPT ![Job] = Idle]
  /\ boot' = IF boot = "running" THEN "over" ELSE boot

\* The inbound is what it was, or has been changed without a call.
Reconcile ==
  /\ th[Job].pc = "reconcile"
  /\ th' = [th EXCEPT ![Job].pc = "collect"]
  /\ \/ UNCHANGED <<serverVars, pending, edits>>
     \/ /\ edits < MaxEdits /\ edits' = edits + 1
        /\ \E us \in SUBSET Users, restart \in BOOLEAN : Converge(us, restart)
  /\ UNCHANGED <<panel, boot, mu, journalVars, rowVars, uses, faults, histVars>>

ReconcileFails ==
  /\ th[Job].pc = "reconcile" /\ Fault
  /\ EndRun
  /\ UNCHANGED <<panel, serverVars, pending, mu, journalVars, rowVars, uses, edits, histVars>>

\* addClientTraffic: a client without a row is passed over.
Charge(batch) ==
  /\ charged' = [c \in Clients |-> charged[c] + IF c \in rows THEN batch[c] ELSE 0]
  /\ lost' = [c \in Clients |-> lost[c] + IF c \in rows THEN 0 ELSE batch[c]]

Add ==
  /\ th[Job].pc = "add"
  /\ Charge(th[Job].batch)
  /\ EndRun
  /\ UNCHANGED <<panel, serverVars, pending, mu, journalVars, rows, countVars,
                 used, doubled, late, unstored>>

\* Faulty variant: traffic that could not be added is dropped.
RequeuedNothing(batch) == pending

\* RequeueClientTraffic.
Requeued(batch) == Plus(pending, batch)

\* The transaction fails, or its commit does and nobody knows whether it held.
AddFails ==
  /\ th[Job].pc = "add" /\ mu = Free /\ Fault
  /\ \/ UNCHANGED <<charged, lost, doubled>>
     \/ /\ Charge(th[Job].batch)
        /\ doubled' = Plus(doubled, th[Job].batch)
  /\ pending' = Requeued(th[Job].batch)
  /\ EndRun
  /\ UNCHANGED <<panel, serverVars, mu, journalVars, rows, uses, edits, used, late, unstored>>

-----------------------------------------------------------------------------
(* The journal.  The flush holds tuicJournalMu throughout, the job while it   *)
(* replays.                                                                 *)

InJournal(t) ==
  \/ th[t].pc \in {"commit", "remove"}
  \/ t = Flush /\ th[t].pc \notin {"idle", "wait", "done"}

Enter(t) ==
  /\ th[t].pc = "wait" /\ \A s \in Threads : ~InJournal(s)
  /\ th' = [th EXCEPT ![t] = IF t = Flush THEN [@ EXCEPT !.pc = "collect"]
                             ELSE [@ EXCEPT !.pc = "commit", !.list = files]]
  /\ UNCHANGED <<panel, boot, serverVars, pending, mu, journalVars, rowVars, countVars, histVars>>

Store(b) ==
  /\ th[Flush].pc = "store" /\ b \notin files \cup receipts
  /\ files' = files \cup {b}
  /\ content' = [content EXCEPT ![b] = th[Flush].batch]
  /\ th' = [th EXCEPT ![Flush] = [@ EXCEPT !.pc = "commit", !.list = files', !.batch = Nothing]]
  /\ UNCHANGED <<panel, boot, serverVars, pending, mu, receipts, rowVars, countVars, histVars>>

\* An error before the file has its name: the traffic is put back.
StoreFails ==
  /\ th[Flush].pc = "store" /\ mu = Free /\ Fault
  /\ pending' = Requeued(th[Flush].batch)
  /\ th' = [th EXCEPT ![Flush] = [Idle EXCEPT !.pc = "done"]]
  /\ unstored' = TRUE
  /\ UNCHANGED <<panel, boot, serverVars, mu, journalVars, rowVars, uses, edits,
                 used, lost, doubled, late>>

\* An error after that: the file is left to the next replay.
StoreUnsure(b) ==
  /\ th[Flush].pc = "store" /\ b \notin files \cup receipts /\ Fault
  /\ files' = files \cup {b}
  /\ content' = [content EXCEPT ![b] = th[Flush].batch]
  /\ th' = [th EXCEPT ![Flush] = [Idle EXCEPT !.pc = "done"]]
  /\ UNCHANGED <<panel, boot, serverVars, pending, mu, receipts, rowVars, uses, edits, histVars>>

\* Faulty variant: a batch is added whenever its file is found.
UnbilledAlways(b) == TRUE

\* The receipt is new.
Unbilled(b) == b \notin receipts

\* AddTuicTrafficBatch: receipt and traffic in one transaction.
Bill(b) ==
  /\ receipts' = receipts \cup {b}
  /\ IF Unbilled(b) THEN Charge(content[b]) ELSE UNCHANGED <<charged, lost>>

Commit(t, b) ==
  /\ th[t].pc = "commit" /\ b \in th[t].list
  /\ Bill(b)
  /\ th' = [th EXCEPT ![t].pc = "remove", ![t].list = @ \ {b}, ![t].at = {b}]
  /\ UNCHANGED <<panel, boot, serverVars, pending, mu, files, content, rows, countVars,
                 used, doubled, late, unstored>>

\* Faulty variant: one attempt too many.
AgainOnceMore == th[Flush].tries <= MaxTries

Again == th[Flush].tries < MaxTries

\* A replay that fails leaves the rest: the flush starts over, the job goes on.
ReplayFailed(t) ==
  th' = [th EXCEPT ![t] =
    IF t = Job THEN [Idle EXCEPT !.pc = "reconcile"]
    ELSE IF Again THEN [Idle EXCEPT !.pc = "commit", !.list = files, !.tries = th[Flush].tries + 1]
    ELSE [Idle EXCEPT !.pc = "done"]]

\* The transaction fails, or only its answer does.
CommitFails(t, b) ==
  /\ th[t].pc = "commit" /\ b \in th[t].list /\ Fault
  /\ Bill(b) \/ UNCHANGED <<receipts, charged, lost>>
  /\ ReplayFailed(t)
  /\ UNCHANGED <<panel, boot, serverVars, pending, mu, files, content, rows, uses, edits,
                 used, doubled, late, unstored>>

Remove(t) ==
  /\ th[t].pc = "remove"
  /\ files' = files \ th[t].at
  /\ th' = [th EXCEPT ![t].pc = "commit", ![t].at = {}]
  /\ UNCHANGED <<panel, boot, serverVars, pending, mu, content, receipts, rowVars, countVars,
                 histVars>>

RemoveFails(t) ==
  /\ th[t].pc = "remove" /\ Fault
  /\ ReplayFailed(t)
  /\ UNCHANGED <<panel, boot, serverVars, pending, mu, journalVars, rowVars, uses, edits,
                 histVars>>

EndReplay(t) ==
  /\ th[t].pc = "commit" /\ th[t].list = {}
  /\ th' = [th EXCEPT ![t] = [Idle EXCEPT !.pc = IF t = Job THEN "reconcile" ELSE "done"]]
  /\ UNCHANGED <<panel, boot, serverVars, pending, mu, journalVars, rowVars, countVars, histVars>>

-----------------------------------------------------------------------------
(* Shutdown, crash and start.                                               *)

\* Faulty variant: the shutdown does not wait for the cron's run.
WaitedAlways == TRUE

\* The cron's run is waited for, the boot run is not.
Waited == th[Job].pc = "idle" \/ boot = "running"

Shutdown ==
  /\ panel = "up" /\ Waited /\ Fault
  /\ panel' = "stopping" /\ late' = (boot # "over")
  /\ UNCHANGED <<boot, serverVars, pending, mu, th, journalVars, rowVars, uses, edits,
                 used, lost, doubled, unstored>>

\* StopAll, then FlushStoppedTraffic.
StopAll ==
  /\ panel = "stopping" /\ th[Flush].pc = "idle" /\ mu = Free
  /\ pending' = Plus(pending, Drained)
  /\ server' = FALSE /\ reg' = [u \in Users |-> "none"]
  /\ sessions' = [u \in Users |-> 0] /\ bytes' = [u \in Users |-> 0]
  /\ th' = [th EXCEPT ![Flush].pc = "wait"]
  /\ UNCHANGED <<panel, boot, mu, journalVars, rowVars, countVars, histVars>>

InMemory ==
  [c \in Clients |-> Counted(Users)[c] + pending[c] + th[Job].batch[c] + th[Flush].batch[c]]

Gone ==
  /\ panel' = "down" /\ boot' = "over"
  /\ server' = FALSE /\ reg' = [u \in Users |-> "none"]
  /\ sessions' = [u \in Users |-> 0] /\ bytes' = [u \in Users |-> 0]
  /\ pending' = Nothing /\ mu' = Free /\ th' = [t \in Threads |-> Idle]
  /\ lost' = Plus(lost, InMemory)
  /\ UNCHANGED <<journalVars, rowVars, uses, edits, used, doubled, late, unstored>>

Exit == panel = "stopping" /\ th[Flush].pc = "done" /\ Gone /\ UNCHANGED faults

PanelCrashes == panel # "down" /\ Fault /\ Gone

PanelStarts ==
  /\ panel = "down"
  /\ panel' = "up" /\ boot' = "due" /\ late' = FALSE /\ unstored' = FALSE
  /\ UNCHANGED <<serverVars, pending, mu, th, journalVars, rowVars, countVars,
                 used, lost, doubled>>

Collect(t) ==
  BeginCollect(t) \/ EndCollect(t) \/ \E u \in Users : Take(t, u) \/ Check(t, u)

Replay(t) == Enter(t) \/ Remove(t) \/ EndReplay(t) \/ \E b \in Batches : Commit(t, b)

Run == StartRun \/ Reconcile \/ Collect(Job) \/ Add \/ Replay(Job)

Close == StopAll \/ Collect(Flush) \/ (\E b \in Batches : Store(b)) \/ Replay(Flush) \/ Exit

Next ==
  \/ Run \/ ReconcileFails \/ AddFails
  \/ Close \/ StoreFails \/ \E b \in Batches : StoreUnsure(b)
  \/ \E t \in Threads : RemoveFails(t) \/ \E b \in Batches : CommitFails(t, b)
  \/ \E u \in Users : Connect(u) \/ Use(u) \/ Disconnect(u)
  \/ \E us \in SUBSET Users, restart \in BOOLEAN : Ensure(us, restart)
  \/ \E c \in Clients : DeleteRow(c)
  \/ Shutdown \/ PanelCrashes \/ PanelStarts

Spec == Init /\ [][Next]_vars

(* The cron runs the job and the job runs to its end; so does a shutdown; the  *)
(* panel is started again.  Users need not connect, leave or send.           *)
FairSpec == Spec /\ WF_vars(Run) /\ WF_vars(Close) /\ WF_vars(PanelStarts)

-----------------------------------------------------------------------------
(* Properties.                                                              *)

Unreplayed ==
  [c \in Clients |-> SumFunctionOnSet([b \in Batches |-> content[b][c]], files \ receipts)]

(* Every unit a client transferred is in exactly one place: counted, put back, *)
(* in a batch, in a journal file without a receipt, on the client's row, or    *)
(* lost in one of the ways the code knows (a crash, a deleted row, a session's *)
(* last bytes between the swap and the check); only a unit whose addition      *)
(* failed after it was committed is counted twice ("so a batch replayed after  *)
(* an ambiguous commit is not counted twice": the receipt).                   *)
EachInOnePlace ==
  \A c \in Clients :
    used[c] + doubled[c] = charged[c] + lost[c] + InMemory[c] + Unreplayed[c]

(* A graceful shutdown loses nothing: what it could not add is in the journal  *)
(* ("persist final TUIC traffic on shutdown"), unless the journal could not be *)
(* written, the boot run was still counting, or a call that outlasted the ten  *)
(* seconds started a server behind StopAll.                                  *)
ShutdownLosesNothing == [][Exit => late \/ unstored \/ lost' = lost]_vars

(* What has been used is on the bill in the end, whatever failed, crashed or   *)
(* was restarted in between: no batch stays in the journal and no counter of a *)
(* stopped server or a retired registration is forgotten.                     *)
BilledInTheEnd ==
  <>[](\A c \in Clients : charged[c] + lost[c] = used[c] + doubled[c])
=============================================================================
