----------------------- MODULE ClientMembershipProofs -----------------------
(***************************************************************************)
(* ClientMembership proved for every set of inbounds and nodes, every grace  *)
(* period and every bound.                                                  *)
(***************************************************************************)
EXTENDS ClientMembership, TLAPS

USE DEF tableVars, memoryVars, countVars, linkHist
USE InboundsAssumption, GraceAssumption, BoundsAssumption

-----------------------------------------------------------------------------
(* The types.                                                               *)

LEMMA IdleTypes == IdleCall \in Calls /\ IdleJob \in Jobs
  BY DEF IdleCall, Calls, IdleJob, Jobs

LEMMA CallType ==
  ASSUME NEW c \in Calls
  PROVE  /\ c.kind \in {"idle", "create", "attach", "detach", "delete"}
         /\ c.todo \subseteq Inbounds /\ c.found \subseteq Inbounds
         /\ c.push \subseteq Inbounds /\ c.failed \in BOOLEAN
  BY DEF Calls

LEMMA MarkDirtyType ==
  ASSUME TypeOK, NEW ns \in SUBSET Nodes, MarkDirty(ns)
  PROVE  dirty' \in [Nodes -> BOOLEAN] /\ marked' \in [Nodes -> BOOLEAN]
<1>1. \A n \in Nodes : (n \in ns \/ dirty[n]) \in BOOLEAN
                      /\ (n \in ns \/ marked[n]) \in BOOLEAN
  OBVIOUS
<1> QED
  BY <1>1 DEF MarkDirty

LEMMA LinkType ==
  ASSUME TypeOK, NEW ls \in SUBSET Inbounds, NEW by \in {"sweep", "operator"}, Link(ls, by)
  PROVE  /\ links' \subseteq Inbounds /\ cause' \in {"none", "sweep", "operator"}
         /\ alone' \in 0 .. Grace
  BY DEF TypeOK, Link

LEMMA FaultType ==
  ASSUME TypeOK, Fault
  PROVE  faults' \in Nat
  BY DEF TypeOK, Fault

LEMMA MarkTypes == ASSUME TypeOK PROVE mark \in Int /\ Unmarked = -1
  BY DEF TypeOK, Unmarked

LEMMA TypeInit == Init => TypeOK
<1> SUFFICES ASSUME Init PROVE TypeOK
  OBVIOUS
<1> USE DEF Init
<1>1. call \in Calls /\ job \in [Nodes -> Jobs]
  BY IdleTypes
<1>2. fp \in [Inbounds -> {"in", "out", "none"}]
  BY DEF Listing
<1>3. dirty \in [Nodes -> BOOLEAN] /\ marked \in [Nodes -> BOOLEAN]
  OBVIOUS
<1>4. links \subseteq Inbounds /\ settings \subseteq Inbounds /\ holds \subseteq Inbounds
  OBVIOUS
<1>5. mark = Unmarked /\ alone \in 0 .. Grace /\ calls \in Nat /\ faults \in Nat
  OBVIOUS
<1>6. record \in BOOLEAN /\ tomb \in BOOLEAN /\ reaper \in BOOLEAN /\ gone \in BOOLEAN
      /\ slipped \in BOOLEAN /\ carried \in BOOLEAN /\ cause = "none"
  OBVIOUS
<1> QED
  BY <1>1, <1>2, <1>3, <1>4, <1>5, <1>6 DEF TypeOK

LEMMA TypeBegin ==
  ASSUME TypeOK, NEW is \in SUBSET Inbounds, Add(is) \/ Detach(is) \/ Delete
  PROVE  TypeOK'
<1>1. PICK kind \in {"create", "attach", "detach", "delete"}, js \in SUBSET Inbounds :
        Begin(kind, js)
  <2>1. CASE Add(is)
    BY <2>1 DEF Add
  <2>2. CASE Detach(is)
    BY <2>2 DEF Detach
  <2>3. CASE Delete
    BY <2>3 DEF Delete, TypeOK
  <2> QED
    BY <2>1, <2>2, <2>3
<1>2. call' \in Calls /\ calls' \in Nat
  <2>1. call' = [kind |-> kind, todo |-> js, found |-> {}, push |-> {}, failed |-> FALSE]
    BY <1>1 DEF Begin, IdleCall
  <2>2. call' \in Calls
    BY <2>1 DEF Calls
  <2>3. calls' \in Nat
    BY <1>1 DEF Begin, TypeOK
  <2> QED
    BY <2>2, <2>3
<1>3. gone' \in BOOLEAN /\ slipped' \in BOOLEAN /\ tomb' \in BOOLEAN
  BY DEF Add, Detach, Delete, TypeOK
<1>4. UNCHANGED <<tableVars, fp, reaper, job, holds, faults, linkHist>>
  BY DEF Add, Detach, Delete
<1> QED
  BY <1>2, <1>3, <1>4 DEF TypeOK

LEMMA TypeAddToInbound ==
  ASSUME TypeOK, NEW i \in Inbounds, AddToInbound(i)
  PROVE  TypeOK'
<1> USE DEF AddToInbound
<1>1. call' \in Calls
  BY CallType DEF TypeOK, Calls
<1>2. settings' \subseteq Inbounds /\ tomb' \in BOOLEAN /\ carried' \in BOOLEAN
  BY DEF TypeOK
<1>3. links' \subseteq Inbounds /\ cause' \in {"none", "sweep", "operator"}
      /\ alone' \in 0 .. Grace
  <2>1. links \cup {i} \in SUBSET Inbounds
    BY DEF TypeOK
  <2> QED
    BY <2>1, LinkType
<1>4. dirty' \in [Nodes -> BOOLEAN] /\ marked' \in [Nodes -> BOOLEAN]
  <2>1. {HostOf[i]} \in SUBSET Nodes
    OBVIOUS
  <2> QED
    BY <2>1, MarkDirtyType
<1>5. record' \in BOOLEAN /\ gone' \in BOOLEAN
  OBVIOUS
<1>6. UNCHANGED <<reaper, mark, fp, job, holds, countVars, slipped>>
  OBVIOUS
<1> QED
  BY <1>1, <1>2, <1>3, <1>4, <1>5, <1>6 DEF TypeOK

LEMMA TypeFindInInbound ==
  ASSUME TypeOK, NEW i \in Inbounds, FindInInbound(i)
  PROVE  TypeOK'
<1>1. call' \in Calls
  BY CallType DEF FindInInbound, TypeOK, Calls
<1> QED
  BY <1>1 DEF FindInInbound, TypeOK

LEMMA TypeDelFromInbound ==
  ASSUME TypeOK, NEW i \in Inbounds, DelFromInbound(i)
  PROVE  TypeOK'
<1> USE DEF DelFromInbound
<1>1. call' \in Calls
  BY CallType DEF TypeOK, Calls
<1>2. settings' \subseteq Inbounds
  BY DEF TypeOK
<1>3. links' \subseteq Inbounds /\ cause' \in {"none", "sweep", "operator"}
      /\ alone' \in 0 .. Grace
  <2>1. links \ {i} \in SUBSET Inbounds
    BY DEF TypeOK
  <2> QED
    BY <2>1, LinkType
<1>4. dirty' \in [Nodes -> BOOLEAN] /\ marked' \in [Nodes -> BOOLEAN]
  <2>1. {HostOf[i]} \in SUBSET Nodes
    OBVIOUS
  <2> QED
    BY <2>1, MarkDirtyType
<1>5. slipped' \in BOOLEAN
  BY DEF TypeOK
<1>6. UNCHANGED <<reaper, record, mark, tomb, fp, job, holds, countVars, gone, carried>>
  OBVIOUS
<1> QED
  BY <1>1, <1>2, <1>3, <1>4, <1>5, <1>6 DEF TypeOK

LEMMA TypeDelFails ==
  ASSUME TypeOK, NEW i \in Inbounds, DelFails(i)
  PROVE  TypeOK'
<1>1. call' \in Calls
  BY CallType DEF DelFails, TypeOK, Calls
<1>2. faults' \in Nat
  BY FaultType DEF DelFails
<1> QED
  BY <1>1, <1>2 DEF DelFails, TypeOK

LEMMA TypePush ==
  ASSUME TypeOK, NEW i \in Inbounds, Push(i) \/ PushFails(i)
  PROVE  TypeOK'
<1>1. call' \in Calls
  BY CallType DEF Push, PushFails, TypeOK, Calls
<1>2. AfterPush(i) \subseteq Inbounds
  BY DEF AfterPush, TypeOK
<1>3. holds' \subseteq Inbounds
  BY <1>2 DEF Push, PushFails, TypeOK
<1>4. fp' \in [Inbounds -> {"in", "out", "none"}]
  <2>1. Advanced(i) \in {"in", "out", "none"}
    BY DEF Advanced, TypeOK
  <2> QED
    BY <2>1 DEF Push, PushFails, TypeOK
<1>5. faults' \in Nat /\ calls' \in Nat
  BY FaultType DEF Push, PushFails, TypeOK
<1>6. UNCHANGED <<reaper, tableVars, tomb, job, gone, slipped, linkHist>>
  BY DEF Push, PushFails
<1> QED
  BY <1>1, <1>3, <1>4, <1>5, <1>6 DEF TypeOK

LEMMA TypeFinish ==
  ASSUME TypeOK, Finish
  PROVE  TypeOK'
<1>1. call' \in Calls
  BY IdleTypes DEF Finish
<1>2. tomb' \in BOOLEAN
  BY DEF Finish, TombstoneAfter, TypeOK
<1>3. /\ record' \in BOOLEAN /\ mark' \in 0 .. Grace \cup {Unmarked}
      /\ links' \subseteq Inbounds /\ cause' \in {"none", "sweep", "operator"}
      /\ alone' \in 0 .. Grace /\ gone' \in BOOLEAN /\ carried' \in BOOLEAN
  <2>1. CASE call.kind = "delete" /\ ~call.failed
    <3>1. Link({}, "operator") /\ {} \in SUBSET Inbounds
      BY <2>1 DEF Finish
    <3> QED
      BY <2>1, <3>1, LinkType DEF Finish
  <2>2. CASE ~(call.kind = "delete" /\ ~call.failed)
    BY <2>2 DEF Finish, TypeOK
  <2> QED
    BY <2>1, <2>2
<1>4. UNCHANGED <<reaper, settings, dirty, marked, fp, job, holds, countVars, slipped>>
  BY DEF Finish
<1> QED
  BY <1>1, <1>2, <1>3, <1>4 DEF TypeOK

LEMMA TypeTick ==
  ASSUME TypeOK, Tick
  PROVE  TypeOK'
<1>1. job' \in [Nodes -> Jobs]
  <2>1. \A n \in Nodes :
          [IdleJob EXCEPT !.pc = IF dirty[n] THEN "reconcile" ELSE "fetch"] \in Jobs
    BY DEF IdleJob, Jobs
  <2> QED
    BY <2>1 DEF Tick
<1>2. marked' \in [Nodes -> BOOLEAN]
  BY DEF Tick
<1> QED
  BY <1>1, <1>2 DEF Tick, TypeOK

LEMMA PushedType ==
  ASSUME TypeOK, NEW is \in SUBSET Inbounds, Pushed(is)
  PROVE  holds' \subseteq Inbounds /\ fp' \in [Inbounds -> {"in", "out", "none"}]
  BY DEF Pushed, Listing, TypeOK

LEMMA TypeReconcile ==
  ASSUME TypeOK, NEW n \in Nodes, Reconcile(n) \/ ReconcileFails(n)
  PROVE  TypeOK'
<1>1. job' \in [Nodes -> Jobs]
  <2>1. [job[n] EXCEPT !.pc = "fetch"] \in Jobs
    BY DEF TypeOK, Jobs
  <2>2. job' = [job EXCEPT ![n] = [job[n] EXCEPT !.pc = "fetch"]]
    BY DEF Reconcile, ReconcileFails, TypeOK
  <2> QED
    BY <2>1, <2>2 DEF TypeOK
<1>2. \E is \in SUBSET Inbounds : Pushed(is)
  BY DEF Reconcile, ReconcileFails, Stale, On
<1>3. holds' \subseteq Inbounds /\ fp' \in [Inbounds -> {"in", "out", "none"}]
  BY <1>2, PushedType
<1>4. dirty' \in [Nodes -> BOOLEAN] /\ faults' \in Nat /\ calls' \in Nat
  BY FaultType DEF Reconcile, ReconcileFails, TypeOK
<1>5. UNCHANGED <<reaper, record, mark, settings, links, marked, tomb, call,
                  gone, slipped, linkHist>>
  BY DEF Reconcile, ReconcileFails
<1> QED
  BY <1>1, <1>3, <1>4, <1>5 DEF TypeOK

LEMMA TypeFetch ==
  ASSUME TypeOK, NEW n \in Nodes, Fetch(n) \/ FetchGarbled(n) \/ FetchFails(n)
  PROVE  TypeOK'
<1>1. PICK j \in Jobs : job' = [job EXCEPT ![n] = j]
  <2>1. CASE Fetch(n)
    BY <2>1 DEF Fetch, TypeOK, Jobs
  <2>2. CASE FetchGarbled(n)
    <3>1. PICK s \in SUBSET (holds \cap On(n)), b \in BOOLEAN :
            job' = [job EXCEPT ![n] = [pc |-> "merge", snap |-> s, blank |-> b]]
      BY <2>2 DEF FetchGarbled
    <3>2. [pc |-> "merge", snap |-> s, blank |-> b] \in Jobs
      BY DEF TypeOK, Jobs
    <3> QED
      BY <3>1, <3>2
  <2>3. CASE FetchFails(n)
    BY <2>3, IdleTypes DEF FetchFails
  <2> QED
    BY <2>1, <2>2, <2>3
<1>2. job' \in [Nodes -> Jobs]
  BY <1>1 DEF TypeOK
<1>3. faults' \in Nat /\ calls' \in Nat
  BY FaultType DEF Fetch, FetchGarbled, FetchFails, TypeOK
<1>4. UNCHANGED <<reaper, tableVars, tomb, fp, call, holds, gone, slipped, linkHist>>
  BY DEF Fetch, FetchGarbled, FetchFails
<1> QED
  BY <1>2, <1>3, <1>4 DEF TypeOK

\* What a merge leaves in the tables and in the fingerprints.
SettingsAfter(n) == (settings \ Adopted(n)) \cup (Seen(n) \cap Adopted(n))

LEMMA MergeSets ==
  ASSUME TypeOK, NEW n \in Nodes
  PROVE  /\ Seen(n) \subseteq Inbounds /\ Adopted(n) \subseteq On(n)
         /\ SettingsAfter(n) \subseteq Inbounds /\ LinksAfter(n) \subseteq Inbounds
         /\ On(n) \subseteq Inbounds
<1>1. Adopted(n) \subseteq On(n) /\ On(n) \subseteq Inbounds
  BY DEF Adopted, On
<1>2. Seen(n) \subseteq Inbounds
  BY DEF Seen, TypeOK, Jobs
<1> QED
  BY <1>1, <1>2 DEF SettingsAfter, LinksAfter, TypeOK

LEMMA TypeMerge ==
  ASSUME TypeOK, NEW n \in Nodes, Merge(n)
  PROVE  TypeOK'
<1>1. job' \in [Nodes -> Jobs]
  BY IdleTypes DEF Merge, TypeOK
<1>2. settings' = SettingsAfter(n) /\ settings' \subseteq Inbounds
  BY MergeSets DEF Merge, SettingsAfter
<1>3. links' \subseteq Inbounds /\ cause' \in {"none", "sweep", "operator"}
      /\ alone' \in 0 .. Grace
  <2>1. LinksAfter(n) \in SUBSET Inbounds /\ Link(LinksAfter(n), "sweep")
    BY MergeSets DEF Merge
  <2> QED
    BY <2>1, LinkType
<1>4. dirty' \in [Nodes -> BOOLEAN] /\ marked' \in [Nodes -> BOOLEAN]
  <2>1. PICK ns \in SUBSET Nodes : MarkDirty(ns)
    BY DEF Merge
  <2> QED
    BY <2>1, MarkDirtyType
<1>5. fp' \in [Inbounds -> {"in", "out", "none"}]
  BY DEF Merge, Listing, TypeOK
<1>6. mark' \in 0 .. Grace \cup {Unmarked}
  BY DEF Merge, MarkAfter, TypeOK
<1>7. record' \in BOOLEAN /\ carried' \in BOOLEAN /\ slipped' \in BOOLEAN
  BY DEF Merge, TypeOK
<1>8. UNCHANGED <<reaper, tomb, call, holds, countVars, gone>>
  BY DEF Merge
<1> QED
  BY <1>1, <1>2, <1>3, <1>4, <1>5, <1>6, <1>7, <1>8 DEF TypeOK

LEMMA TypeReaper ==
  ASSUME TypeOK, ListOrphan \/ Reap
  PROVE  TypeOK'
<1>1. CASE ListOrphan
  BY <1>1 DEF ListOrphan, TypeOK
<1>2. CASE Reap
  <2>1. links' \subseteq Inbounds /\ cause' = "none" /\ alone' \in 0 .. Grace
        /\ mark' = Unmarked /\ record' = FALSE /\ carried' = FALSE /\ reaper' = FALSE
    BY <1>2 DEF Reap
  <2>2. UNCHANGED <<settings, dirty, marked, tomb, fp, call, job, holds, countVars,
                    gone, slipped>>
    BY <1>2 DEF Reap
  <2> QED
    BY <2>1, <2>2 DEF TypeOK
<1> QED
  BY <1>1, <1>2

LEMMA TypePass ==
  ASSUME TypeOK, Pass
  PROVE  TypeOK'
<1>1. mark' \in 0 .. Grace \cup {Unmarked}
  BY DEF Pass, MarkAged, Unmarked, TypeOK
<1>2. alone' \in 0 .. Grace
  BY DEF Pass, TypeOK
<1> QED
  BY <1>1, <1>2 DEF Pass, TypeOK

LEMMA TypeElsewhere ==
  ASSUME TypeOK, NEW i \in Inbounds, NodeRemoves(i) \/ NodeAdds(i)
  PROVE  TypeOK'
  BY FaultType DEF NodeRemoves, NodeAdds, TypeOK

LEMMA TypeMasterRestarts ==
  ASSUME TypeOK, MasterRestarts
  PROVE  TypeOK'
<1>1. job' \in [Nodes -> Jobs] /\ call' \in Calls
  BY IdleTypes DEF MasterRestarts
<1>2. faults' \in Nat
  BY FaultType DEF MasterRestarts
<1> QED
  BY <1>1, <1>2 DEF MasterRestarts, TypeOK

LEMMA TypeStep == TypeOK /\ [Next]_vars => TypeOK'
<1> SUFFICES ASSUME TypeOK, [Next]_vars PROVE TypeOK'
  OBVIOUS
<1>1. ASSUME NEW is \in SUBSET Inbounds, Add(is) \/ Detach(is) PROVE TypeOK'
  BY <1>1, TypeBegin
<1>2. CASE Delete
  BY <1>2, TypeBegin
<1>3. CASE CallStep
  BY <1>3, TypeAddToInbound, TypeFindInInbound, TypeDelFromInbound, TypePush, TypeFinish
     DEF CallStep
<1>4. CASE Tick \/ ListOrphan \/ Reap \/ Pass \/ MasterRestarts
  BY <1>4, TypeTick, TypeReaper, TypePass, TypeMasterRestarts
<1>5. ASSUME NEW i \in Inbounds, DelFails(i) \/ PushFails(i) \/ NodeRemoves(i) \/ NodeAdds(i)
      PROVE  TypeOK'
  BY <1>5, TypeDelFails, TypePush, TypeElsewhere
<1>6. ASSUME NEW n \in Nodes,
             Sync(n) \/ ReconcileFails(n) \/ FetchGarbled(n) \/ FetchFails(n)
      PROVE  TypeOK'
  BY <1>6, TypeReconcile, TypeFetch, TypeMerge DEF Sync
<1>7. CASE UNCHANGED vars
  BY <1>7 DEF vars, TypeOK
<1> QED
  BY <1>1, <1>2, <1>3, <1>4, <1>5, <1>6, <1>7 DEF Next

(* Every variable keeps its type (the state every handler relies on).        *)
THEOREM TypeCorrect == Spec => []TypeOK
  BY TypeInit, TypeStep, PTL DEF Spec

-----------------------------------------------------------------------------
(* A deleted client stays deleted.  From the delete's first step on, wherever *)
(* the client is left, something is going to take it away.                   *)

Doomed == ~slipped /\ ((call.kind = "delete" /\ ~call.failed) \/ gone)

\* The call will still find it in the inbound, or has.
Tracked(i) == i \in (call.todo \cap settings) \cup call.found

\* The next reconcile will push the inbound without it.
Repairable(i) == dirty[HostOf[i]] /\ fp[i] # "out" /\ i \notin settings

Snapped(i) == job[HostOf[i]].pc = "merge" /\ i \in job[HostOf[i]].snap

Located ==
  /\ settings \subseteq call.todo \cup call.found
  /\ \A i \in holds : Tracked(i) \/ Repairable(i)
  /\ \A i \in Inbounds : Snapped(i) => tomb \/ dirty[HostOf[i]] \/ Tracked(i)

Accounted == Doomed => Located

Over ==
  gone /\ ~slipped =>
    /\ ~record /\ links = {} /\ settings = {}
    /\ call.kind \in {"idle", "create"} /\ call.found = {} /\ call.push = {}
    /\ call.kind = "create" => call.todo # {}

Linked == links \subseteq settings

Kept == Linked /\ Accounted /\ Over

LEMMA KeptInit == Init => Kept
  BY DEF Init, Kept, Linked, Accounted, Located, Over, Doomed, IdleCall

LEMMA MarkDirtyGrows ==
  ASSUME TypeOK, NEW ns \in SUBSET Nodes, MarkDirty(ns), NEW n \in Nodes
  PROVE  (dirty[n] => dirty'[n]) /\ (n \in ns => dirty'[n])
  BY DEF MarkDirty

LEMMA KeptBegin ==
  ASSUME TypeOK, Kept, NEW is \in SUBSET Inbounds, Add(is) \/ Detach(is)
  PROVE  Kept'
<1>1. UNCHANGED <<tableVars, tomb, fp, job, holds, gone, slipped>>
  BY DEF Add, Detach
<1>2. Linked'
  BY <1>1 DEF Kept, Linked
<1>3. PICK kind \in {"create", "attach", "detach"} :
        /\ record => kind # "create"
        /\ ~record => kind = "create"
        /\ call' = [kind |-> kind, todo |-> is, found |-> {}, push |-> {}, failed |-> FALSE]
  BY DEF Add, Detach, Begin, IdleCall, TypeOK
<1>4. call.kind = "idle"
  BY DEF Add, Detach, Begin
<1>5. Doomed' => gone /\ ~slipped
  BY <1>1, <1>3 DEF Doomed
<1>6. gone /\ ~slipped => Doomed /\ ~record /\ settings = {} /\ links = {} /\ call.found = {}
  BY DEF Kept, Over, Doomed
<1>7. Over'
  <2>1. is # {}
    BY DEF Add, Detach
  <2> QED
    BY <1>1, <1>3, <1>6, <2>1 DEF Over
<1>8. Accounted'
  <2> SUFFICES ASSUME Doomed' PROVE Located'
    BY DEF Accounted
  <2>1. Doomed /\ settings = {} /\ call.found = {}
    BY <1>5, <1>6
  <2>2. settings' = {}
    BY <1>1, <2>1
  <2>3. \A i \in holds : Repairable(i)
    BY <2>1 DEF Kept, Accounted, Located, Tracked
  <2>4. \A i \in Inbounds : Snapped(i) => tomb \/ dirty[HostOf[i]]
    BY <2>1 DEF Kept, Accounted, Located, Tracked
  <2> QED
    BY <1>1, <2>2, <2>3, <2>4 DEF Located, Repairable, Snapped
<1> QED
  BY <1>2, <1>7, <1>8 DEF Kept

LEMMA KeptDelete ==
  ASSUME TypeOK, Kept, Delete
  PROVE  Kept'
<1>1. /\ call' = [kind |-> "delete", todo |-> links, found |-> {}, push |-> {}, failed |-> FALSE]
      /\ tomb' /\ ~gone' /\ slipped' = ~(holds \cup settings \subseteq links)
      /\ UNCHANGED <<tableVars, fp, job, holds>>
  BY DEF Delete, Begin, IdleCall
<1>2. Linked' /\ Over'
  BY <1>1 DEF Kept, Linked, Over
<1>3. Accounted'
  BY <1>1 DEF Accounted, Located, Doomed, Tracked, Kept, Linked
<1> QED
  BY <1>2, <1>3 DEF Kept

LEMMA KeptAddToInbound ==
  ASSUME TypeOK, Kept, NEW i \in Inbounds, AddToInbound(i)
  PROVE  Kept'
<1>1. Linked'
  BY DEF AddToInbound, Link, Kept, Linked
<1>2. ~gone' /\ call'.kind # "delete"
  BY CallType DEF AddToInbound, TypeOK, Calls
<1> QED
  BY <1>1, <1>2 DEF Kept, Accounted, Over, Doomed

LEMMA KeptFindInInbound ==
  ASSUME TypeOK, Kept, NEW i \in Inbounds, FindInInbound(i)
  PROVE  Kept'
<1>1. /\ call'.kind = call.kind /\ call'.failed = call.failed
      /\ call'.todo = call.todo \ {i}
      /\ call'.found = IF i \in settings THEN call.found \cup {i} ELSE call.found
      /\ call'.push = call.push
      /\ UNCHANGED <<tableVars, tomb, fp, job, holds, gone, slipped>>
  BY DEF FindInInbound, TypeOK, Calls
<1>2. Linked'
  BY <1>1 DEF Kept, Linked
<1>3. Over'
  BY <1>1 DEF Kept, Over, FindInInbound
<1>4. Accounted'
  <2> SUFFICES ASSUME Doomed' PROVE Located'
    BY DEF Accounted
  <2>1. Doomed
    BY <1>1 DEF Doomed
  <2>2. \A j \in Inbounds : Tracked(j) => Tracked(j)'
    BY <1>1 DEF Tracked
  <2>3. \A j \in Inbounds : (Repairable(j) => Repairable(j)') /\ (Snapped(j)' => Snapped(j))
    BY <1>1 DEF Repairable, Snapped
  <2> QED
    BY <1>1, <2>1, <2>2, <2>3 DEF Kept, Accounted, Located, TypeOK
<1> QED
  BY <1>2, <1>3, <1>4 DEF Kept

LEMMA KeptDelFromInbound ==
  ASSUME TypeOK, Kept, NEW i \in Inbounds, DelFromInbound(i)
  PROVE  Kept'
<1>1. /\ call'.kind = call.kind /\ call'.failed = call.failed
      /\ call'.todo = call.todo /\ call'.found = call.found \ {i}
      /\ i \in call.found
      /\ settings' = settings \ {i} /\ links' = links \ {i}
      /\ slipped' = (slipped \/ (fp[i] = "out" /\ i \in holds))
      /\ UNCHANGED <<record, tomb, fp, job, holds, gone>>
  BY DEF DelFromInbound, Link, TypeOK, Calls
<1>2. \A n \in Nodes : (dirty[n] => dirty'[n]) /\ (n = HostOf[i] => dirty'[n])
  BY MarkDirtyGrows DEF DelFromInbound
<1>3. Linked'
  BY <1>1 DEF Kept, Linked
<1>4. Over'
  BY <1>1 DEF Kept, Over
<1>5. Accounted'
  <2> SUFFICES ASSUME Doomed' PROVE Located'
    BY DEF Accounted
  <2>1. Doomed /\ Located
    BY <1>1 DEF Doomed, Kept, Accounted
  <2>2. \A j \in Inbounds \ {i} : Tracked(j) => Tracked(j)'
    BY <1>1 DEF Tracked
  <2>3. \A j \in Inbounds : (Repairable(j) => Repairable(j)') /\ (Snapped(j)' <=> Snapped(j))
    BY <1>1, <1>2 DEF Repairable, Snapped
  <2>4. i \in holds => Repairable(i)'
    BY <1>1, <1>2 DEF Repairable, Doomed
  <2>5. dirty'[HostOf[i]]
    BY <1>2
  <2>6. \A j \in holds' : Tracked(j)' \/ Repairable(j)'
    BY <1>1, <2>1, <2>2, <2>3, <2>4 DEF Located, TypeOK
  <2>7. \A j \in Inbounds : Snapped(j)' => tomb' \/ dirty'[HostOf[j]] \/ Tracked(j)'
    BY <1>1, <1>2, <2>1, <2>2, <2>3, <2>5 DEF Located
  <2> QED
    BY <1>1, <2>1, <2>6, <2>7 DEF Located
<1> QED
  BY <1>3, <1>4, <1>5 DEF Kept

LEMMA KeptDelFails ==
  ASSUME TypeOK, Kept, NEW i \in Inbounds, DelFails(i)
  PROVE  Kept'
<1>1. /\ call.kind = "delete" /\ call'.failed
      /\ UNCHANGED <<tableVars, tomb, fp, job, holds, gone, slipped>>
  BY DEF DelFails, TypeOK, Calls
<1>2. Linked' /\ ~(gone /\ ~slipped)
  BY <1>1 DEF Kept, Linked, Over
<1> QED
  BY <1>1, <1>2 DEF Kept, Accounted, Over, Doomed

LEMMA KeptPush ==
  ASSUME TypeOK, Kept, NEW i \in Inbounds, Push(i) \/ PushFails(i)
  PROVE  Kept'
<1>1. /\ call'.kind = call.kind /\ call'.failed = call.failed
      /\ call'.todo = call.todo /\ call'.found = call.found
      /\ call'.push = call.push \ {i} /\ i \in call.push
      /\ holds' \in {holds, AfterPush(i)}
      /\ fp' \in {fp, [fp EXCEPT ![i] = Advanced(i)]}
      /\ fp' # fp => holds' = AfterPush(i)
      /\ UNCHANGED <<tableVars, tomb, job, gone, slipped>>
  <2>1. CASE Push(i)
    BY <2>1 DEF Push, TypeOK, Calls
  <2>2. CASE PushFails(i)
    BY <2>2 DEF PushFails, TypeOK, Calls
  <2> QED
    BY <2>1, <2>2
<1>2. Linked' /\ Over'
  BY <1>1 DEF Kept, Linked, Over
<1>3. Accounted'
  <2> SUFFICES ASSUME Doomed' PROVE Located'
    BY DEF Accounted
  <2>1. Doomed /\ Located
    BY <1>1 DEF Doomed, Kept, Accounted
  <2>2. call.kind = "delete"
    BY <1>1, <2>1 DEF Doomed, Kept, Over
  <2>3. AfterPush(i) \subseteq holds /\ i \notin AfterPush(i)
    BY <2>2 DEF AfterPush, On
  <2>4. \A j \in holds' : j \in holds /\ fp'[j] = fp[j]
    BY <1>1, <2>3 DEF TypeOK
  <2>5. \A j \in Inbounds : (Tracked(j)' <=> Tracked(j)) /\ (Snapped(j)' <=> Snapped(j))
    BY <1>1 DEF Tracked, Snapped
  <2>6. \A j \in holds' : Repairable(j) => Repairable(j)'
    BY <1>1, <2>4 DEF Repairable
  <2> QED
    BY <1>1, <2>1, <2>4, <2>5, <2>6 DEF Located, TypeOK
<1> QED
  BY <1>2, <1>3 DEF Kept

LEMMA KeptFinish ==
  ASSUME TypeOK, Kept, Finish
  PROVE  Kept'
<1>1. /\ call.kind # "idle" /\ call.todo = {} /\ call.found = {} /\ call.push = {}
      /\ call'.kind = "idle" /\ call'.todo = {} /\ call'.found = {} /\ call'.push = {}
      /\ UNCHANGED <<settings, dirty, fp, job, holds, slipped>>
  BY DEF Finish, IdleCall, TypeOK, Calls
<1>2. Doomed => settings = {} /\ (\A i \in holds : Repairable(i))
                /\ \A i \in Inbounds : Snapped(i) => tomb \/ dirty[HostOf[i]]
  BY <1>1 DEF Kept, Accounted, Located, Tracked
<1>3. \A i \in Inbounds : (Repairable(i)' <=> Repairable(i)) /\ (Snapped(i)' <=> Snapped(i))
  BY <1>1 DEF Repairable, Snapped
<1>4. CASE call.kind = "delete" /\ ~call.failed
  <2>1. ~record' /\ links' = {} /\ gone' /\ tomb' = tomb
    BY <1>4 DEF Finish, Link, TombstoneAfter, TypeOK
  <2>2. Doomed' => Doomed
    BY <1>1, <1>4 DEF Doomed
  <2> QED
    BY <1>1, <1>2, <1>3, <2>1, <2>2
       DEF Kept, Linked, Accounted, Located, Over, Doomed, TypeOK
<1>5. CASE ~(call.kind = "delete" /\ ~call.failed)
  <2>1. UNCHANGED <<record, links, gone>>
    BY <1>5 DEF Finish
  <2>2. Linked' /\ Over'
    BY <1>1, <2>1 DEF Kept, Linked, Over
  <2>3. Doomed' => gone /\ ~slipped
    BY <1>1, <2>1 DEF Doomed
  <2>4. ~(gone /\ ~slipped)
    BY <1>1 DEF Kept, Over
  <2> QED
    BY <2>2, <2>3, <2>4 DEF Kept, Accounted
<1> QED
  BY <1>4, <1>5

LEMMA KeptTick ==
  ASSUME TypeOK, Kept, Tick
  PROVE  Kept'
<1>1. UNCHANGED <<record, settings, links, dirty, tomb, fp, call, holds, gone, slipped>>
  BY DEF Tick
<1>2. \A n \in Nodes : job'[n].pc # "merge"
  BY DEF Tick, IdleJob
<1> QED
  BY <1>1, <1>2
     DEF Kept, Linked, Over, Accounted, Doomed, Located, Tracked, Repairable, Snapped

LEMMA KeptReconcile ==
  ASSUME TypeOK, Kept, NEW n \in Nodes, Reconcile(n) \/ ReconcileFails(n)
  PROVE  Kept'
<1>1. /\ UNCHANGED <<record, settings, links, tomb, call, gone, slipped>>
      /\ job' = [job EXCEPT ![n].pc = "fetch"] /\ job[n].pc = "reconcile"
  BY DEF Reconcile, ReconcileFails
<1>2. Linked' /\ Over'
  BY <1>1 DEF Kept, Linked, Over
<1>3. Accounted'
  <2> SUFFICES ASSUME Doomed' PROVE Located'
    BY DEF Accounted
  <2>1. Doomed /\ Located
    BY <1>1 DEF Doomed, Kept, Accounted
  <2>2. \A i \in Inbounds : /\ Tracked(i)' <=> Tracked(i)
                            /\ Snapped(i)' => Snapped(i) /\ HostOf[i] # n
    BY <1>1 DEF Tracked, Snapped, TypeOK
  <2>3. PICK is \in SUBSET Stale(n) :
          /\ Pushed(is)
          /\ dirty' = dirty \/ (is = Stale(n) /\ dirty' = [dirty EXCEPT ![n] = marked[n]])
    BY DEF Reconcile, ReconcileFails
  <2>4. \A i \in holds' : Tracked(i)' \/ Repairable(i)'
    <3> SUFFICES ASSUME NEW i \in holds', ~Tracked(i)'
                 PROVE  Repairable(i)'
      OBVIOUS
    <3>0. i \in Inbounds /\ ~Tracked(i)
      <4>1. holds' \subseteq Inbounds
        BY <2>3, PushedType DEF Stale, On
      <4> QED
        BY <2>2, <4>1
    <3>1. i \notin settings
      BY <2>1, <3>0 DEF Located, Tracked
    <3>2. i \in holds \ is
      BY <2>3, <3>1 DEF Pushed
    <3>3. Repairable(i)
      BY <2>1, <3>0, <3>2 DEF Located
    <3>4. i \in Inbounds /\ fp'[i] = fp[i]
      BY <2>3, <3>2 DEF Pushed, TypeOK
    <3>5. dirty'[HostOf[i]]
      BY <2>3, <3>2, <3>3, <3>4 DEF Repairable, Stale, On, Listing, TypeOK
    <3> QED
      BY <1>1, <3>3, <3>4, <3>5 DEF Repairable
  <2>5. \A i \in Inbounds : HostOf[i] # n => dirty'[HostOf[i]] = dirty[HostOf[i]]
    BY <2>3 DEF TypeOK
  <2>6. settings' \subseteq call'.todo \cup call'.found
    BY <1>1, <2>1 DEF Located
  <2>7. \A i \in Inbounds : Snapped(i)' => tomb' \/ dirty'[HostOf[i]] \/ Tracked(i)'
    <3> SUFFICES ASSUME NEW i \in Inbounds, Snapped(i)'
                 PROVE  tomb' \/ dirty'[HostOf[i]] \/ Tracked(i)'
      OBVIOUS
    <3>1. tomb \/ dirty[HostOf[i]] \/ Tracked(i)
      BY <2>1, <2>2 DEF Located
    <3> QED
      BY <1>1, <2>2, <2>5, <3>1
  <2> QED
    BY <2>4, <2>6, <2>7 DEF Located
<1> QED
  BY <1>2, <1>3 DEF Kept

LEMMA KeptFetch ==
  ASSUME TypeOK, Kept, NEW n \in Nodes, Fetch(n) \/ FetchGarbled(n) \/ FetchFails(n)
  PROVE  Kept'
<1>1. UNCHANGED <<tableVars, tomb, fp, call, holds, gone, slipped>>
  BY DEF Fetch, FetchGarbled, FetchFails
<1>2. Linked' /\ Over'
  BY <1>1 DEF Kept, Linked, Over
<1>3. \A i \in Inbounds : Snapped(i)' => Snapped(i) \/ i \in holds
  <2>1. PICK j : /\ job' = [job EXCEPT ![n] = j]
                 /\ j.pc = "merge" => j.snap \subseteq holds
    BY DEF Fetch, FetchGarbled, FetchFails, IdleJob
  <2> QED
    BY <2>1 DEF Snapped, TypeOK
<1>4. Accounted'
  <2> SUFFICES ASSUME Doomed' PROVE Located'
    BY DEF Accounted
  <2>1. Doomed /\ Located
    BY <1>1 DEF Doomed, Kept, Accounted
  <2>2. \A i \in Inbounds : (Tracked(i)' <=> Tracked(i)) /\ (Repairable(i)' <=> Repairable(i))
    BY <1>1 DEF Tracked, Repairable
  <2> QED
    BY <1>1, <1>3, <2>1, <2>2 DEF Located, Repairable, TypeOK
<1> QED
  BY <1>2, <1>4 DEF Kept

LEMMA KeptMerge ==
  ASSUME TypeOK, Kept, NEW n \in Nodes, Merge(n)
  PROVE  Kept'
<1> DEFINE changed == {i \in Adopted(n) : Listing(settings, i) # Listing(SettingsAfter(n), i)}
<1>1. /\ job[n].pc = "merge" /\ job' = [job EXCEPT ![n] = IdleJob]
      /\ settings' = SettingsAfter(n) /\ links' = LinksAfter(n)
      /\ record' = (record \/ LinksAfter(n) # {})
      /\ fp' = [i \in Inbounds |-> IF i \in ToRepair(n) THEN "none"
                 ELSE IF i \in changed THEN Listing(SettingsAfter(n), i) ELSE fp[i]]
      /\ slipped' = (slipped \/ \E i \in changed : i \in holds \ SettingsAfter(n))
      /\ UNCHANGED <<tomb, call, holds, gone>>
  BY DEF Merge, Link, SettingsAfter
<1>2. \A m \in Nodes : dirty[m] => dirty'[m]
  <2>1. PICK ns \in SUBSET Nodes : MarkDirty(ns)
    BY DEF Merge
  <2> QED
    BY <2>1, MarkDirtyGrows
<1>3. Linked'
  BY <1>1 DEF Kept, Linked, LinksAfter, SettingsAfter
<1>4. Doomed' => Doomed
  BY <1>1 DEF Doomed
<1>5. ASSUME Doomed
      PROVE  \A i \in Seen(n) \cap Adopted(n) : Tracked(i)
  <2>1. Located
    BY <1>5 DEF Kept, Accounted
  <2> TAKE i \in Seen(n) \cap Adopted(n)
  <2>2. i \in Inbounds /\ HostOf[i] = n /\ ~dirty[n] /\ ~tomb /\ i \in job[n].snap
    BY DEF Seen, Adopted, On
  <2> QED
    BY <1>1, <2>1, <2>2 DEF Located, Snapped
<1>6. Over'
  <2> SUFFICES ASSUME gone, ~slipped'
               PROVE  /\ ~record' /\ links' = {} /\ settings' = {}
                      /\ call.kind \in {"idle", "create"} /\ call.found = {} /\ call.push = {}
                      /\ call.kind = "create" => call.todo # {}
    BY <1>1 DEF Over
  <2>1. /\ ~slipped /\ ~record /\ links = {} /\ settings = {} /\ call.found = {}
        /\ call.kind \in {"idle", "create"} /\ call.push = {}
        /\ call.kind = "create" => call.todo # {}
    BY <1>1 DEF Kept, Over
  <2>2. Doomed
    BY <2>1 DEF Doomed
  <2>3. Seen(n) \cap Adopted(n) = {}
    BY <1>5, <2>1, <2>2 DEF Tracked
  <2>4. LinksAfter(n) = {} /\ SettingsAfter(n) = {}
    BY <2>1, <2>3 DEF LinksAfter, SettingsAfter
  <2> QED
    BY <1>1, <2>1, <2>4
<1>7. Accounted'
  <2> SUFFICES ASSUME Doomed' PROVE Located'
    BY DEF Accounted
  <2>1. Doomed /\ Located /\ ~slipped'
    BY <1>4 DEF Doomed, Kept, Accounted
  <2>2. settings' \subseteq call'.todo \cup call'.found
    BY <1>1, <1>5, <2>1 DEF Located, SettingsAfter, Tracked
  <2>3. \A i \in holds' : Tracked(i)' \/ Repairable(i)'
    <3> SUFFICES ASSUME NEW i \in holds PROVE Tracked(i)' \/ Repairable(i)'
      BY <1>1
    <3>1. i \in Inbounds
      BY DEF TypeOK
    <3>2. CASE Repairable(i)
      <4>1. i \notin Adopted(n) /\ i \notin ToRepair(n)
        BY <3>2 DEF Repairable, Adopted, ToRepair, On
      <4>2. fp'[i] = fp[i] /\ i \notin settings'
        BY <1>1, <3>1, <3>2, <4>1 DEF Repairable, SettingsAfter
      <4> QED
        BY <1>2, <3>1, <3>2, <4>2 DEF Repairable
    <3>3. CASE i \in call.found
      BY <1>1, <3>3 DEF Tracked
    <3>4. CASE i \in call.todo \cap settings
      <4>1. i \in SettingsAfter(n)
        <5> SUFFICES ASSUME i \notin SettingsAfter(n) PROVE FALSE
          OBVIOUS
        <5>1. i \in changed
          BY <3>4 DEF SettingsAfter, Listing
        <5> QED
          BY <1>1, <2>1, <5>1
      <4> QED
        BY <1>1, <3>4, <4>1 DEF Tracked
    <3> QED
      BY <2>1, <3>2, <3>3, <3>4 DEF Located, Tracked
  <2>4. \A i \in Inbounds : Snapped(i)' => tomb' \/ dirty'[HostOf[i]] \/ Tracked(i)'
    <3> SUFFICES ASSUME NEW i \in Inbounds, Snapped(i)'
                 PROVE  tomb' \/ dirty'[HostOf[i]] \/ Tracked(i)'
      OBVIOUS
    <3>1. Snapped(i) /\ HostOf[i] # n
      BY <1>1 DEF Snapped, IdleJob, TypeOK
    <3>2. i \notin Adopted(n)
      BY <3>1 DEF Adopted, On
    <3>3. Tracked(i) => Tracked(i)'
      BY <1>1, <3>2 DEF Tracked, SettingsAfter
    <3> QED
      BY <1>1, <1>2, <2>1, <3>1, <3>3 DEF Located
  <2> QED
    BY <2>2, <2>3, <2>4 DEF Located
<1> QED
  BY <1>3, <1>6, <1>7 DEF Kept

LEMMA KeptReaper ==
  ASSUME TypeOK, Kept, ListOrphan \/ Reap
  PROVE  Kept'
<1>1. CASE ListOrphan
  BY <1>1 DEF ListOrphan, Kept, Linked, Over, Accounted, Doomed, Located, Tracked,
              Repairable, Snapped
<1>2. CASE Reap
  <2>1. ~record' /\ links' = {}
        /\ UNCHANGED <<settings, dirty, tomb, fp, call, job, holds, gone, slipped>>
    BY <1>2 DEF Reap
  <2> QED
    BY <2>1 DEF Kept, Linked, Over, Accounted, Doomed, Located, Tracked, Repairable, Snapped
<1> QED
  BY <1>1, <1>2

LEMMA KeptPass ==
  ASSUME TypeOK, Kept, Pass
  PROVE  Kept'
<1>1. UNCHANGED <<record, settings, links, dirty, fp, call, job, holds, gone, slipped>>
  BY DEF Pass
<1>2. \A i \in Inbounds : ~Snapped(i)
  BY DEF Pass, Snapped
<1> QED
  BY <1>1, <1>2
     DEF Kept, Linked, Over, Accounted, Doomed, Located, Tracked, Repairable, Snapped

LEMMA KeptElsewhere ==
  ASSUME TypeOK, Kept, NEW i \in Inbounds, NodeRemoves(i) \/ NodeAdds(i)
  PROVE  Kept'
<1>1. CASE NodeRemoves(i)
  BY <1>1 DEF NodeRemoves, Kept, Linked, Over, Accounted, Doomed, Located, Tracked,
              Repairable, Snapped
<1>2. CASE NodeAdds(i)
  BY <1>2 DEF NodeAdds, Kept, Linked, Over, Accounted, Doomed
<1> QED
  BY <1>1, <1>2

LEMMA KeptMasterRestarts ==
  ASSUME TypeOK, Kept, MasterRestarts
  PROVE  Kept'
<1>1. /\ call'.kind = "idle" /\ call'.todo = {} /\ call'.found = {} /\ call'.push = {}
      /\ UNCHANGED <<record, settings, links, dirty, holds, gone, slipped>>
      /\ \A n \in Nodes : job'[n].pc # "merge"
      /\ \A i \in Inbounds : fp'[i] = "none"
  BY DEF MasterRestarts, IdleCall, IdleJob
<1>2. gone /\ ~slipped => Doomed /\ settings = {} /\ call.found = {}
  BY DEF Kept, Over, Doomed
<1>3. Linked' /\ Over'
  BY <1>1 DEF Kept, Linked, Over
<1>4. Accounted'
  <2> SUFFICES ASSUME gone /\ ~slipped PROVE Located'
    BY <1>1 DEF Accounted, Doomed
  <2>1. \A i \in holds : i \in Inbounds /\ dirty[HostOf[i]]
    BY <1>2 DEF Kept, Accounted, Located, Tracked, Repairable, TypeOK
  <2>2. \A i \in holds' : Repairable(i)'
    BY <1>1, <1>2, <2>1 DEF Repairable
  <2> QED
    BY <1>1, <1>2, <2>2 DEF Located, Snapped
<1> QED
  BY <1>3, <1>4 DEF Kept

LEMMA KeptStep == TypeOK /\ Kept /\ [Next]_vars => Kept'
<1> SUFFICES ASSUME TypeOK, Kept, [Next]_vars PROVE Kept'
  OBVIOUS
<1>1. ASSUME NEW is \in SUBSET Inbounds, Add(is) \/ Detach(is) PROVE Kept'
  BY <1>1, KeptBegin
<1>2. CASE Delete
  BY <1>2, KeptDelete
<1>3. CASE CallStep
  BY <1>3, KeptAddToInbound, KeptFindInInbound, KeptDelFromInbound, KeptPush, KeptFinish
     DEF CallStep
<1>4. CASE Tick \/ ListOrphan \/ Reap \/ Pass \/ MasterRestarts
  BY <1>4, KeptTick, KeptReaper, KeptPass, KeptMasterRestarts
<1>5. ASSUME NEW i \in Inbounds, DelFails(i) \/ PushFails(i) \/ NodeRemoves(i) \/ NodeAdds(i)
      PROVE  Kept'
  BY <1>5, KeptDelFails, KeptPush, KeptElsewhere
<1>6. ASSUME NEW n \in Nodes,
             Sync(n) \/ ReconcileFails(n) \/ FetchGarbled(n) \/ FetchFails(n)
      PROVE  Kept'
  BY <1>6, KeptReconcile, KeptFetch, KeptMerge DEF Sync
<1>7. CASE UNCHANGED vars
  BY <1>7 DEF vars, Kept, Linked, Over, Accounted, Doomed, Located, Tracked, Repairable, Snapped
<1> QED
  BY <1>1, <1>2, <1>3, <1>4, <1>5, <1>6, <1>7 DEF Next

(* Once Delete has answered, the client's record is not there until a create, *)
(* unless the delete lost track of a node (client_crud.go, client_locks.go). *)
THEOREM DeletesHold == Spec => []DeletedStaysDeletedUnlessSlipped
<1>1. Kept => DeletedStaysDeletedUnlessSlipped
  BY DEF Kept, Over, DeletedStaysDeletedUnlessSlipped, DeletedStaysDeleted
<1> QED
  BY <1>1, TypeInit, TypeStep, KeptInit, KeptStep, PTL DEF Spec

-----------------------------------------------------------------------------
(* What the reaper deletes.                                                  *)

\* A client that a merge left without an inbound, and nobody else touched.
Swept == links = {} /\ cause = "sweep"

\* A mark that was not carried along has run since the last link went, and who
\* the reaper has listed has been without one for the whole grace period.
Due ==
  /\ mark # Unmarked /\ ~carried => Swept /\ Grace <= alone + mark
  /\ reaper /\ record /\ ~carried => Swept /\ alone = Grace

LEMMA DueInit == Init => Due
  BY DEF Init, Due

LEMMA DueCalls ==
  ASSUME TypeOK, Due,
         \/ \E i \in Inbounds : AddToInbound(i) \/ DelFromInbound(i)
         \/ Finish
  PROVE  Due'
<1>1. ASSUME NEW i \in Inbounds, AddToInbound(i) PROVE Due'
  <2>1. carried' = (mark # Unmarked \/ reaper) /\ mark' = mark /\ reaper' = reaper
    BY <1>1 DEF AddToInbound
  <2> QED
    BY <2>1 DEF Due
<1>2. ASSUME NEW i \in Inbounds, DelFromInbound(i) PROVE Due'
  <2>1. /\ UNCHANGED <<mark, reaper, record, carried>>
        /\ links = {} => UNCHANGED <<links, cause, alone>>
    BY <1>2 DEF DelFromInbound, Link
  <2> QED
    BY <2>1 DEF Due, Swept
<1>3. CASE Finish
  <2>1. CASE call.kind = "delete" /\ ~call.failed
    <3>1. mark' = Unmarked /\ record' = FALSE
      BY <1>3, <2>1 DEF Finish
    <3> QED
      BY <3>1 DEF Due
  <2>2. CASE ~(call.kind = "delete" /\ ~call.failed)
    <3>1. UNCHANGED <<record, mark, links, cause, alone, carried, reaper>>
      BY <1>3, <2>2 DEF Finish
    <3> QED
      BY <3>1 DEF Due, Swept
  <2> QED
    BY <2>1, <2>2
<1> QED
  BY <1>1, <1>2, <1>3

\* A merge that leaves the client an inbound takes the mark away; one that does
\* not has taken the last, or there was none.
LEMMA DueMerge ==
  ASSUME TypeOK, Due, NEW n \in Nodes, Merge(n)
  PROVE  Due'
<1>1. /\ Link(LinksAfter(n), "sweep") /\ links' = LinksAfter(n)
      /\ mark' = MarkAfter(n) /\ reaper' = reaper
      /\ record' = (record \/ LinksAfter(n) # {})
      /\ carried' = IF LinksAfter(n) # {} THEN reaper ELSE carried
  BY DEF Merge, Link
<1>2. CASE LinksAfter(n) # {}
  <2>1. mark' = Unmarked /\ carried' = reaper
    BY <1>1, <1>2 DEF MarkAfter
  <2> QED
    BY <1>1, <2>1 DEF Due
<1>3. CASE LinksAfter(n) = {} /\ links = {}
  <2>1. UNCHANGED <<mark, reaper, carried, links, cause, alone>>
    BY <1>1, <1>3 DEF MarkAfter, Link
  <2>2. record' => record
    BY <1>1, <1>3
  <2> QED
    BY <2>1, <2>2 DEF Due, Swept
<1>4. CASE LinksAfter(n) = {} /\ links # {}
  <2>1. links' = {} /\ cause' = "sweep" /\ alone' = 0 /\ reaper' = reaper /\ carried' = carried
    BY <1>1, <1>4 DEF Link
  <2>2. record' => record
    BY <1>1, <1>4
  <2>3. mark = Unmarked => mark' = Grace
    <3>1. links \cap Adopted(n) # {}
      BY <1>4 DEF LinksAfter
    <3> QED
      BY <1>1, <1>4, <3>1 DEF MarkAfter
  <2>4. mark # Unmarked => carried
    BY <1>4 DEF Due, Swept
  <2>5. reaper /\ record => carried
    BY <1>4 DEF Due, Swept
  <2> QED
    BY <2>1, <2>2, <2>3, <2>4, <2>5, GraceAssumption DEF Due, Swept
<1> QED
  BY <1>2, <1>3, <1>4

LEMMA DueReaper ==
  ASSUME TypeOK, Due, ListOrphan \/ Reap \/ Pass
  PROVE  Due'
<1>0. alone \in 0 .. Grace /\ (mark \in 0 .. Grace \/ mark = Unmarked) /\ Grace \in Nat
  BY GraceAssumption DEF TypeOK
<1>1. CASE ListOrphan
  <2>1. mark = 0 /\ UNCHANGED <<record, mark, links, cause, alone, carried>>
    BY <1>1 DEF ListOrphan, Reapable, tableVars, linkHist
  <2>2. ~carried => Swept /\ alone = Grace
    BY <1>0, <2>1 DEF Due, Unmarked
  <2> QED
    BY <2>1, <2>2 DEF Due, Swept
<1>2. CASE Reap
  BY <1>2 DEF Reap, Due
<1>3. CASE Pass
  <2>1. /\ UNCHANGED <<reaper, record, links, cause, carried>>
        /\ mark' = IF mark > 0 THEN mark - 1 ELSE mark
        /\ alone' = IF links = {} /\ alone < Grace THEN alone + 1 ELSE alone
    BY <1>3 DEF Pass, MarkAged
  <2>2. ASSUME mark' # Unmarked, ~carried' PROVE (Swept /\ Grace <= alone + mark)'
    <3>1. mark # Unmarked /\ ~carried /\ Swept /\ Grace <= alone + mark
      BY <1>0, <2>1, <2>2 DEF Due, Unmarked
    <3>2. links' = {} /\ cause' = "sweep"
      BY <2>1, <3>1 DEF Swept
    <3>3. Grace <= alone' + mark'
      BY <1>0, <2>1, <3>1 DEF Swept, Unmarked
    <3> QED
      BY <3>2, <3>3 DEF Swept
  <2>3. ASSUME reaper', record', ~carried' PROVE (Swept /\ alone = Grace)'
    BY <1>0, <2>1, <2>3 DEF Due, Swept
  <2> QED
    BY <2>2, <2>3 DEF Due
<1> QED
  BY <1>1, <1>2, <1>3

LEMMA DueStep == TypeOK /\ Due /\ [Next]_vars => Due'
<1> SUFFICES ASSUME TypeOK, Due, [Next]_vars PROVE Due'
  OBVIOUS
<1>0. ASSUME UNCHANGED <<mark, reaper, record, links, cause, alone, carried>> PROVE Due'
  BY <1>0 DEF Due, Swept
<1>1. ASSUME NEW is \in SUBSET Inbounds, Add(is) \/ Detach(is) PROVE Due'
  BY <1>0, <1>1 DEF Add, Detach, tableVars, linkHist
<1>2. CASE Delete \/ Tick
  BY <1>0, <1>2 DEF Delete, Tick, tableVars, linkHist
<1>3. CASE CallStep
  <2>1. ASSUME NEW i \in Inbounds, FindInInbound(i) \/ Push(i) PROVE Due'
    BY <1>0, <2>1 DEF FindInInbound, Push, tableVars, linkHist
  <2> QED
    BY <1>3, <2>1, DueCalls DEF CallStep
<1>4. CASE ListOrphan \/ Reap \/ Pass
  BY <1>4, DueReaper
<1>5. CASE MasterRestarts
  <2>1. UNCHANGED <<mark, record, links, cause, alone, carried>> /\ reaper' = FALSE
    BY <1>5 DEF MasterRestarts, tableVars, linkHist
  <2> QED
    BY <2>1 DEF Due, Swept
<1>6. ASSUME NEW i \in Inbounds, DelFails(i) \/ PushFails(i) \/ NodeRemoves(i) \/ NodeAdds(i)
      PROVE  Due'
  BY <1>0, <1>6 DEF DelFails, PushFails, NodeRemoves, NodeAdds, tableVars, memoryVars, linkHist
<1>7. ASSUME NEW n \in Nodes,
             Reconcile(n) \/ Fetch(n) \/ ReconcileFails(n) \/ FetchGarbled(n) \/ FetchFails(n)
      PROVE  Due'
  BY <1>0, <1>7 DEF Reconcile, Fetch, ReconcileFails, FetchGarbled, FetchFails, tableVars, linkHist
<1>8. CASE UNCHANGED vars
  BY <1>0, <1>8 DEF vars, tableVars, memoryVars, linkHist
<1> QED
  BY <1>1, <1>2, <1>3, <1>4, <1>5, <1>6, <1>7, <1>8, DueMerge DEF Next, Sync

(* Whoever the reaper deletes has had no inbound for a whole grace period, and *)
(* a merge took the last one, unless the client was attached while it carried *)
(* the mark or was listed: the mark runs down no faster than that time runs,   *)
(* and a merge that links the client again takes it away (client_link.go,     *)
(* client_sync_orphan.go).                                                  *)
THEOREM ReapsAreDue == Spec => ReapsOnlySweptUnlessCarried
<1> DEFINE A == Reap /\ record => carried \/ (links = {} /\ cause = "sweep" /\ alone = Grace)
<1>1. Due => A
  BY DEF Due, Swept, Reap
<1>2. TypeOK /\ Due /\ [Next]_vars => [A]_vars
  BY <1>1
<1> HIDE DEF A
<1>3. Spec => [][A]_vars
  BY <1>2, TypeInit, TypeStep, DueInit, DueStep, PTL DEF Spec
<1> QED
  BY <1>3 DEF A, ReapsOnlySweptUnlessCarried
=============================================================================
