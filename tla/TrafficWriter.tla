--------------------------- MODULE TrafficWriter ---------------------------
(***************************************************************************)
(* The serial writer of internal/web/service/traffic_writer.go.  Callers    *)
(* hand closures to one goroutine over a bounded channel; the goroutine is  *)
(* started and stopped by the panel's lifecycle and is replaced by a fresh  *)
(* one (a new generation: queue, context and done channel) on every start.  *)
(* A caller that finds no writer, or a writer being stopped, applies its    *)
(* closure itself.                                                          *)
(*                                                                          *)
(* A write is one call of submitTrafficWrite, and its identity is the       *)
(* calling goroutine.  twMu is modelled as a lock only where the code keeps *)
(* it across a blocking operation (the offer on a full queue); the other    *)
(* critical sections never block and are single steps guarded by a free     *)
(* twMu.                                                                    *)
(***************************************************************************)
EXTENDS Integers, Sequences

CONSTANTS Writes,        \* calls of submitTrafficWrite
          Controllers,   \* goroutines that start and stop the writer
          QueueSize,     \* trafficWriterQueueSize
          MaxGen,        \* bound: writer generations started in a behaviour
          Nobody         \* the absent write, and the free mutex

ASSUME QueueSizeAssumption == QueueSize \in Nat \ {0}
ASSUME MaxGenAssumption    == MaxGen \in Nat
ASSUME NobodyAssumption    == Nobody \notin Writes

Gens == 1..MaxGen

VARIABLES
  twMu,        \* the write that holds twMu across its offer, or Nobody
  current,     \* the generation twQueue/twCtx/twCancel/twDone belong to; 0 = nil
  started,     \* generations started so far
  cancelled,   \* generations whose context is cancelled
  writer,      \* writer[g]: program counter of runTrafficWriter
  queue,       \* queue[g]: the buffered channel
  busy,        \* busy[g]: the request inside safeApply on the writer
  call,        \* call[w]: program counter of submitTrafficWrite
  chan,        \* chan[w]: the generation the call captured under twMu
  applied,     \* how often the closure of w has run to its end
  replied,     \* writes whose req.done holds a value
  ctl,         \* ctl[c]: program counter of StopTrafficWriter
  stopping     \* stopping[c]: the generation whose done StopTrafficWriter awaits

vars == <<twMu, current, started, cancelled, writer, queue, busy, call, chan,
          applied, replied, ctl, stopping>>

runVars    == <<writer, queue, busy, applied, replied>>
callVars   == <<twMu, call, chan>>
ctlVars    == <<ctl, stopping>>
ownerVars  == <<current, started, cancelled>>

WriterPC == {"unborn", "select", "apply", "drain", "drainApply", "closed"}
Returned == {"ok", "full", "stopped"}
CallPC   == {"new", "lock", "offer", "wait", "inline"} \cup Returned

Init == /\ twMu = Nobody
        /\ current = 0
        /\ started = 0
        /\ cancelled = {}
        /\ writer = [g \in Gens |-> "unborn"]
        /\ queue = [g \in Gens |-> <<>>]
        /\ busy = [g \in Gens |-> Nobody]
        /\ call = [w \in Writes |-> "new"]
        /\ chan = [w \in Writes |-> 0]
        /\ applied = [w \in Writes |-> 0]
        /\ replied = {}
        /\ ctl = [c \in Controllers |-> "idle"]
        /\ stopping = [c \in Controllers |-> 0]

-----------------------------------------------------------------------------
\* Faulty variant: the start that does not look whether a writer runs.
StartAlways(c) == /\ ctl[c] = "idle"
                  /\ twMu = Nobody
                  /\ started < MaxGen
                  /\ started' = started + 1
                  /\ current' = started + 1
                  /\ writer' = [writer EXCEPT ![started + 1] = "select"]
                  /\ UNCHANGED <<cancelled, queue, busy, applied, replied,
                                 callVars, ctlVars>>

(* StartTrafficWriter: a writer that is still running is kept; otherwise a  *)
(* fresh generation is published and its goroutine starts.                  *)
Start(c) == /\ ctl[c] = "idle"
            /\ twMu = Nobody
            /\ current # 0 => writer[current] = "closed"
            /\ started < MaxGen
            /\ started' = started + 1
            /\ current' = started + 1
            /\ writer' = [writer EXCEPT ![started + 1] = "select"]
            /\ UNCHANGED <<cancelled, queue, busy, applied, replied,
                           callVars, ctlVars>>

\* Faulty variant: the stop without the nil check.
StopCancelUnchecked(c) == /\ ctl[c] = "idle"
                          /\ twMu = Nobody
                          /\ cancelled' = cancelled \cup {current}
                          /\ ctl' = [ctl EXCEPT ![c] = "awaitDone"]
                          /\ stopping' = [stopping EXCEPT ![c] = current]
                          /\ UNCHANGED <<current, started, runVars, callVars>>

(* StopTrafficWriter, first critical section: cancel the current context.   *)
StopCancel(c) == /\ ctl[c] = "idle"
                 /\ twMu = Nobody
                 /\ current # 0
                 /\ cancelled' = cancelled \cup {current}
                 /\ ctl' = [ctl EXCEPT ![c] = "awaitDone"]
                 /\ stopping' = [stopping EXCEPT ![c] = current]
                 /\ UNCHANGED <<current, started, runVars, callVars>>

(* StopTrafficWriter, after <-done: clear the state unless it was replaced. *)
StopClear(c) == /\ ctl[c] = "awaitDone"
                /\ writer[stopping[c]] = "closed"
                /\ twMu = Nobody
                /\ current' = IF current = stopping[c] THEN 0 ELSE current
                /\ ctl' = [ctl EXCEPT ![c] = "idle"]
                /\ stopping' = [stopping EXCEPT ![c] = 0]
                /\ UNCHANGED <<started, cancelled, runVars, callVars>>

-----------------------------------------------------------------------------
(* runTrafficWriter.  A select with both cases ready picks either one, so a *)
(* cancelled writer may still take requests in its outer loop.              *)
Take(g) == /\ writer[g] \in {"select", "drain"}
           /\ queue[g] # <<>>
           /\ busy' = [busy EXCEPT ![g] = Head(queue[g])]
           /\ queue' = [queue EXCEPT ![g] = Tail(@)]
           /\ writer' = [writer EXCEPT ![g] =
                            IF @ = "select" THEN "apply" ELSE "drainApply"]
           /\ UNCHANGED <<applied, replied, callVars, ctlVars, ownerVars>>

(* req.done <- safeApply(req.apply): a panic in the closure is recovered, so *)
(* the reply is always sent.                                                *)
Reply(g) == /\ writer[g] \in {"apply", "drainApply"}
            /\ applied' = [applied EXCEPT ![busy[g]] = @ + 1]
            /\ replied' = replied \cup {busy[g]}
            /\ busy' = [busy EXCEPT ![g] = Nobody]
            /\ writer' = [writer EXCEPT ![g] =
                            IF @ = "apply" THEN "select" ELSE "drain"]
            /\ UNCHANGED <<queue, callVars, ctlVars, ownerVars>>

SeeCancel(g) == /\ writer[g] = "select"
                /\ g \in cancelled
                /\ writer' = [writer EXCEPT ![g] = "drain"]
                /\ UNCHANGED <<queue, busy, applied, replied,
                               callVars, ctlVars, ownerVars>>

\* Faulty variants: the writer exits without draining, or the default case
\* leaves only the inner loop.
ExitUndrained(g) == /\ writer[g] = "drain"
                    /\ writer' = [writer EXCEPT ![g] = "closed"]
                    /\ UNCHANGED <<queue, busy, applied, replied,
                                   callVars, ctlVars, ownerVars>>

ExitInnerLoop(g) == /\ writer[g] = "drain"
                    /\ queue[g] = <<>>
                    /\ writer' = [writer EXCEPT ![g] = "select"]
                    /\ UNCHANGED <<queue, busy, applied, replied,
                                   callVars, ctlVars, ownerVars>>

(* The drain loop's default case: the deferred close(done) runs.            *)
Exit(g) == /\ writer[g] = "drain"
           /\ queue[g] = <<>>
           /\ writer' = [writer EXCEPT ![g] = "closed"]
           /\ UNCHANGED <<queue, busy, applied, replied,
                          callVars, ctlVars, ownerVars>>

-----------------------------------------------------------------------------
(* submitTrafficWrite: the caller enters and queues for twMu.               *)
Invoke(w) == /\ call[w] = "new"
             /\ call' = [call EXCEPT ![w] = "lock"]
             /\ UNCHANGED <<twMu, chan, runVars, ctlVars, ownerVars>>

(* The critical section up to the decision: a missing or cancelled writer   *)
(* sends the caller off to apply its closure itself.                        *)
Accepting == current # 0 /\ current \notin cancelled

Submit(w) == /\ call[w] = "lock"
             /\ twMu = Nobody
             /\ IF Accepting
                  THEN /\ twMu' = w
                       /\ call' = [call EXCEPT ![w] = "offer"]
                       /\ chan' = [chan EXCEPT ![w] = current]
                  ELSE /\ call' = [call EXCEPT ![w] = "inline"]
                       /\ UNCHANGED <<twMu, chan>>
             /\ UNCHANGED <<runVars, ctlVars, ownerVars>>

(* safeApply(fn) on the caller's own goroutine, outside twMu.               *)
ApplyInline(w) == /\ call[w] = "inline"
                  /\ applied' = [applied EXCEPT ![w] = @ + 1]
                  /\ call' = [call EXCEPT ![w] = "ok"]
                  /\ UNCHANGED <<twMu, chan, writer, queue, busy, replied,
                                 ctlVars, ownerVars>>

Enqueue(w) == /\ call[w] = "offer"
              /\ Len(queue[chan[w]]) < QueueSize
              /\ queue' = [queue EXCEPT ![chan[w]] = Append(@, w)]
              /\ call' = [call EXCEPT ![w] = "wait"]
              /\ twMu' = Nobody
              /\ UNCHANGED <<chan, writer, busy, applied, replied,
                             ctlVars, ownerVars>>

\* Faulty variants: the timeout path returns with twMu held, or reports a
\* full queue for a request it leaves in the channel.
OfferTimeoutLocked(w) == /\ call[w] = "offer"
                         /\ call' = [call EXCEPT ![w] = "full"]
                         /\ UNCHANGED <<twMu, chan, runVars, ctlVars, ownerVars>>

OfferTimeoutQueued(w) == /\ call[w] = "offer"
                         /\ queue' = [queue EXCEPT ![chan[w]] = Append(@, w)]
                         /\ call' = [call EXCEPT ![w] = "full"]
                         /\ twMu' = Nobody
                         /\ UNCHANGED <<chan, writer, busy, applied, replied,
                                        ctlVars, ownerVars>>

(* The submit timer fires.  It may also win against a queue that has just   *)
(* got room, so the step does not look at the queue.                        *)
OfferTimeout(w) == /\ call[w] = "offer"
                   /\ call' = [call EXCEPT ![w] = "full"]
                   /\ twMu' = Nobody
                   /\ UNCHANGED <<chan, runVars, ctlVars, ownerVars>>

\* Faulty variant: no second look at req.done once done is closed.
AnswerOneLook(w) == /\ call[w] = "wait"
                    /\ w \in replied \/ writer[chan[w]] = "closed"
                    /\ call' = [call EXCEPT ![w] =
                         IF writer[chan[w]] = "closed" THEN "stopped" ELSE "ok"]
                    /\ UNCHANGED <<twMu, chan, runVars, ctlVars, ownerVars>>

(* The wait on req.done and done.  A request answered before the writer     *)
(* exited is found by the second look at req.done.                          *)
Answer(w) == /\ call[w] = "wait"
             /\ w \in replied \/ writer[chan[w]] = "closed"
             /\ call' = [call EXCEPT ![w] =
                           IF w \in replied THEN "ok" ELSE "stopped"]
             /\ UNCHANGED <<twMu, chan, runVars, ctlVars, ownerVars>>

-----------------------------------------------------------------------------
WriterStep(g)  == Take(g) \/ Reply(g) \/ SeeCancel(g) \/ Exit(g)
ControlStep(c) == Start(c) \/ StopCancel(c) \/ StopClear(c)
CallStep(w)    == \/ Submit(w) \/ ApplyInline(w) \/ Enqueue(w)
                  \/ OfferTimeout(w) \/ Answer(w)

Next == \/ \E g \in Gens : WriterStep(g)
        \/ \E c \in Controllers : ControlStep(c)
        \/ \E w \in Writes : Invoke(w) \/ CallStep(w)

Spec == Init /\ [][Next]_vars

(* Runnable goroutines run: the writer, a caller inside submitTrafficWrite,  *)
(* and a StopTrafficWriter that has seen done.  Nobody has to start or stop *)
(* the writer, and nobody has to call it.                                   *)
Fairness == /\ \A g \in Gens : WF_vars(WriterStep(g))
            /\ \A w \in Writes : WF_vars(CallStep(w))
            /\ \A c \in Controllers : WF_vars(StopClear(c))

FairSpec == Spec /\ Fairness

-----------------------------------------------------------------------------
TypeOK ==
  /\ twMu \in Writes \cup {Nobody}
  /\ started \in 0..MaxGen
  /\ current \in 0..started
  /\ cancelled \subseteq Gens
  /\ writer \in [Gens -> WriterPC]
  /\ queue \in [Gens -> Seq(Writes)]
  /\ busy \in [Gens -> Writes \cup {Nobody}]
  /\ call \in [Writes -> CallPC]
  /\ chan \in [Writes -> 0..MaxGen]
  /\ applied \in [Writes -> Nat]
  /\ replied \subseteq Writes
  /\ ctl \in [Controllers -> {"idle", "awaitDone"}]
  /\ stopping \in [Controllers -> 0..MaxGen]

(* A restart never leaves two writer goroutines alive: a generation other   *)
(* than the current one has closed its done channel.                        *)
OneWriter == \A g, h \in Gens :
               (writer[g] \notin {"unborn", "closed"} /\
                writer[h] \notin {"unborn", "closed"}) => g = h

(* Stop drains: no request is left behind in the channel of a writer that   *)
(* has exited, so no caller ever gets "stopped before write completed".     *)
NothingLeftBehind == /\ \A g \in Gens : writer[g] = "closed" => queue[g] = <<>>
                     /\ \A w \in Writes : call[w] # "stopped"

(* The answer a caller gets is the truth: "ok" means applied exactly once,  *)
(* an error means never applied, and no write is ever applied twice.        *)
HonestAnswer == \A w \in Writes :
                  /\ applied[w] <= 1
                  /\ call[w] = "ok" => applied[w] = 1
                  /\ call[w] \in {"full", "stopped"} => applied[w] = 0

(* A caller never runs its closure while the writer goroutine runs another  *)
(* one (runSerializedTx states that fn runs on the writer and so "can never *)
(* execute concurrently" with the traffic poll's write).                    *)
NeverConcurrent == \A w \in Writes, g \in Gens :
                     call[w] = "inline" => busy[g] = Nobody

(* No caller that has entered submitTrafficWrite blocks forever, whatever   *)
(* starts and stops happen meanwhile.                                       *)
EveryCallReturns == \A w \in Writes : (call[w] # "new") ~> (call[w] \in Returned)

(* StopTrafficWriter returns.                                               *)
StopReturns == \A c \in Controllers : (ctl[c] = "awaitDone") ~> (ctl[c] = "idle")

-----------------------------------------------------------------------------
(* Refinement: what a caller can tell about its write.                      *)
AnswerOf(w) == CASE call[w] = "new" -> "new"
                 [] call[w] = "ok"  -> "ok"
                 [] call[w] \in {"full", "stopped"} -> "refused"
                 [] OTHER -> "pending"

Service == INSTANCE WriteService WITH answer <- [w \in Writes |-> AnswerOf(w)]

(* The writer implements the abstract write service: whatever restarts and   *)
(* timeouts happen, a refused write is never applied and no write is applied *)
(* twice.                                                                   *)
ImplementsService == Service!Spec
=============================================================================
