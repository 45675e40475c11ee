------------------------ MODULE TrafficWriterProofs ------------------------
(***************************************************************************)
(* TrafficWriter's safety for every number of writes, controllers,          *)
(* generations and every queue size: type correctness, one live writer,     *)
(* nothing left behind in a closed queue, honest answers, and the           *)
(* refinement of WriteService.                                              *)
(***************************************************************************)
EXTENDS TrafficWriter, TLAPS

Queued(g) == {queue[g][i] : i \in 1..Len(queue[g])}

(* Which goroutines exist: the generations up to started, and only the      *)
(* current one may still run; a writer drains only after its cancel.        *)
Lifecycle ==
  /\ \A g \in Gens : writer[g] = "unborn" <=> g > started
  /\ \A g \in Gens : g <= started /\ g # current => writer[g] = "closed"
  /\ \A g \in cancelled : g <= started
  /\ \A g \in Gens : writer[g] \in {"drain", "drainApply", "closed"}
                       => g \in cancelled
  /\ \A c \in Controllers : ctl[c] = "awaitDone" => stopping[c] \in 1..started

(* Whoever offers holds twMu, and so its writer cannot be cancelled.        *)
OfferUnderLock ==
  /\ twMu # Nobody => call[twMu] = "offer"
  /\ \A w \in Writes : call[w] = "offer" =>
       twMu = w /\ chan[w] = current /\ current # 0 /\ current \notin cancelled

(* A queued or running request belongs to one waiting caller.               *)
Pending(w, g) ==
  call[w] = "wait" /\ chan[w] = g /\ applied[w] = 0 /\ w \notin replied

Requests ==
  /\ \A g \in Gens : writer[g] \in {"unborn", "closed"} => queue[g] = <<>>
  /\ \A g \in Gens : busy[g] # Nobody <=> writer[g] \in {"apply", "drainApply"}
  /\ \A g \in Gens : \A i \in 1..Len(queue[g]) : Pending(queue[g][i], g)
  /\ \A g \in Gens : \A i, j \in 1..Len(queue[g]) :
       queue[g][i] = queue[g][j] => i = j
  /\ \A g \in Gens : busy[g] # Nobody => Pending(busy[g], g)
  /\ \A g \in Gens : busy[g] \notin Queued(g)

(* What has been applied and answered, by the caller's place.               *)
Outcomes ==
  \A w \in Writes :
    /\ call[w] \in {"new", "lock", "inline", "offer", "full"}
         => applied[w] = 0 /\ w \notin replied
    /\ call[w] = "ok" => applied[w] = 1
    /\ call[w] # "stopped"
    /\ call[w] = "wait" =>
         /\ chan[w] \in 1..started
         /\ w \in replied => applied[w] = 1
         /\ w \notin replied => w \in Queued(chan[w]) \/ busy[chan[w]] = w

IInv == TypeOK /\ Lifecycle /\ OfferUnderLock /\ Requests /\ Outcomes

LEMMA StartStep ==
  ASSUME IInv, NEW c \in Controllers, Start(c)
  PROVE  IInv'
<1>1. TypeOK'
  <2>1. started + 1 \in Gens /\ started' \in 0..MaxGen /\ current' \in 0..started'
    BY MaxGenAssumption DEF IInv, TypeOK, Start, Gens
  <2>2. QED
    BY <2>1, SMTT(30) DEF IInv, TypeOK, Start, Gens, WriterPC, callVars, ctlVars
<1>2. Lifecycle'
  BY MaxGenAssumption DEF IInv, TypeOK, Lifecycle, OfferUnderLock, Gens, Start, runVars, callVars, ctlVars, ownerVars
<1>3. OfferUnderLock'
  BY NobodyAssumption DEF IInv, TypeOK, Lifecycle, OfferUnderLock, Gens, Start, runVars, callVars, ctlVars, ownerVars
<1>4. Requests'
  BY NobodyAssumption DEF IInv, TypeOK, Lifecycle, OfferUnderLock, Requests, Outcomes, Pending, Queued, Gens, Start, runVars, callVars, ctlVars, ownerVars
<1>5. Outcomes'
  BY NobodyAssumption DEF IInv, TypeOK, Lifecycle, OfferUnderLock, Requests, Outcomes, Pending, Queued, Gens, Start, runVars, callVars, ctlVars, ownerVars
<1>6. QED
  BY <1>1, <1>2, <1>3, <1>4, <1>5 DEF IInv

LEMMA StopCancelStep ==
  ASSUME IInv, NEW c \in Controllers, StopCancel(c)
  PROVE  IInv'
<1>1. TypeOK'
  BY NobodyAssumption, MaxGenAssumption DEF IInv, TypeOK, Requests, Lifecycle, OfferUnderLock, Gens, WriterPC, CallPC, Returned, StopCancel, runVars, callVars, ctlVars, ownerVars
<1>2. Lifecycle'
  BY MaxGenAssumption DEF IInv, TypeOK, Lifecycle, OfferUnderLock, Gens, StopCancel, runVars, callVars, ctlVars, ownerVars
<1>3. OfferUnderLock'
  BY NobodyAssumption DEF IInv, TypeOK, Lifecycle, OfferUnderLock, Gens, StopCancel, runVars, callVars, ctlVars, ownerVars
<1>4. Requests'
  BY NobodyAssumption DEF IInv, TypeOK, Lifecycle, OfferUnderLock, Requests, Outcomes, Pending, Queued, Gens, StopCancel, runVars, callVars, ctlVars, ownerVars
<1>5. Outcomes'
  BY NobodyAssumption DEF IInv, TypeOK, Lifecycle, OfferUnderLock, Requests, Outcomes, Pending, Queued, Gens, StopCancel, runVars, callVars, ctlVars, ownerVars
<1>6. QED
  BY <1>1, <1>2, <1>3, <1>4, <1>5 DEF IInv

LEMMA StopClearStep ==
  ASSUME IInv, NEW c \in Controllers, StopClear(c)
  PROVE  IInv'
<1>1. TypeOK'
  <2>1. current' \in 0..started' /\ stopping' \in [Controllers -> 0..MaxGen]
    BY MaxGenAssumption DEF IInv, TypeOK, StopClear
  <2>2. QED
    BY <2>1 DEF IInv, TypeOK, StopClear, runVars, callVars
<1>2. Lifecycle'
  BY MaxGenAssumption DEF IInv, TypeOK, Lifecycle, OfferUnderLock, Gens, StopClear, runVars, callVars, ctlVars, ownerVars
<1>3. OfferUnderLock'
  BY NobodyAssumption DEF IInv, TypeOK, Lifecycle, OfferUnderLock, Gens, StopClear, runVars, callVars, ctlVars, ownerVars
<1>4. Requests'
  BY NobodyAssumption DEF IInv, TypeOK, Lifecycle, OfferUnderLock, Requests, Outcomes, Pending, Queued, Gens, StopClear, runVars, callVars, ctlVars, ownerVars
<1>5. Outcomes'
  BY NobodyAssumption DEF IInv, TypeOK, Lifecycle, OfferUnderLock, Requests, Outcomes, Pending, Queued, Gens, StopClear, runVars, callVars, ctlVars, ownerVars
<1>6. QED
  BY <1>1, <1>2, <1>3, <1>4, <1>5 DEF IInv

LEMMA TakeStep ==
  ASSUME IInv, NEW g \in Gens, Take(g)
  PROVE  IInv'
<1>1. TypeOK'
  <2>1. queue[g] \in Seq(Writes) /\ queue[g] # <<>>
    BY DEF IInv, TypeOK, Take
  <2>2. Head(queue[g]) \in Writes /\ Tail(queue[g]) \in Seq(Writes)
    BY <2>1
  <2>3. queue' \in [Gens -> Seq(Writes)] /\ busy' \in [Gens -> Writes \cup {Nobody}]
    BY <2>2 DEF IInv, TypeOK, Take
  <2>4. writer' \in [Gens -> WriterPC]
    BY DEF IInv, TypeOK, Take, WriterPC
  <2>5. QED
    BY <2>3, <2>4 DEF IInv, TypeOK, Take, callVars, ctlVars, ownerVars
<1>2. Lifecycle'
  BY MaxGenAssumption DEF IInv, TypeOK, Lifecycle, OfferUnderLock, Gens, Take, runVars, callVars, ctlVars, ownerVars
<1>3. OfferUnderLock'
  BY NobodyAssumption DEF IInv, TypeOK, Lifecycle, OfferUnderLock, Gens, Take, runVars, callVars, ctlVars, ownerVars
<1>4. Requests'
  BY NobodyAssumption DEF IInv, TypeOK, Lifecycle, OfferUnderLock, Requests, Outcomes, Pending, Queued, Gens, Take, runVars, callVars, ctlVars, ownerVars
<1>5. Outcomes'
  <2>1. queue[g] \in Seq(Writes) /\ queue[g] # <<>>
    BY DEF IInv, TypeOK, Take
  <2>2. /\ Head(queue[g]) = queue[g][1]
        /\ Len(Tail(queue[g])) = Len(queue[g]) - 1 /\ Len(queue[g]) \in Nat
        /\ \A i \in 1..(Len(queue[g]) - 1) : Tail(queue[g])[i] = queue[g][i + 1]
    BY <2>1
  <2>3. \A w : w \in Queued(g) => w \in Queued(g)' \/ w = busy'[g]
    <3>1. SUFFICES ASSUME NEW i \in 1..Len(queue[g])
                   PROVE  queue[g][i] \in Queued(g)' \/ queue[g][i] = busy'[g]
      BY DEF Queued
    <3>2. CASE i = 1
      BY <2>2, <3>2 DEF IInv, TypeOK, Take
    <3>3. CASE i # 1
      <4>1. i - 1 \in 1..(Len(queue[g]) - 1) /\ (i - 1) + 1 = i
        BY <2>2, <3>3
      <4>2. queue'[g] = Tail(queue[g])
        BY DEF IInv, TypeOK, Take
      <4>3. i - 1 \in 1..Len(queue'[g]) /\ queue'[g][i - 1] = queue[g][i]
        BY <2>2, <4>1, <4>2
      <4>4. QED
        BY <4>3 DEF Queued
    <3>4. QED
      BY <3>2, <3>3
  <2>4. \A h \in Gens : h # g => Queued(h)' = Queued(h) /\ busy'[h] = busy[h]
    BY DEF IInv, TypeOK, Take, Queued
  <2>5. busy[g] = Nobody
    BY DEF IInv, Requests, Take
  <2>6. \A w \in Writes : call[w] = "wait" => chan[w] \in Gens
    BY MaxGenAssumption DEF IInv, TypeOK, Outcomes, Gens
  <2>7. UNCHANGED <<call, chan, applied, replied, started>>
    BY DEF Take, callVars, ownerVars
  <2>8. ASSUME NEW w \in Writes, call[w] = "wait", w \notin replied
        PROVE  w \in Queued(chan[w])' \/ busy'[chan'[w]] = w
    <3>1. chan[w] \in Gens /\ (w \in Queued(chan[w]) \/ busy[chan[w]] = w)
      BY <2>6, <2>8 DEF IInv, Outcomes
    <3>2. CASE chan[w] = g
      BY SMTT(30), <2>3, <2>5, <2>7, <3>1, <3>2, NobodyAssumption DEF Queued
    <3>3. CASE chan[w] # g
      <4>1. Queued(chan[w])' = Queued(chan[w]) /\ busy'[chan[w]] = busy[chan[w]]
        <5>1. chan' = chan
          BY <2>7
        <5>2. QED
          BY <2>4, <3>1, <3>3, <5>1
      <4>2. QED
        BY <2>7, <3>1, <4>1
    <3>4. QED
      BY <3>2, <3>3
  <2>9. QED
    BY <2>7, <2>8 DEF IInv, Outcomes
<1>6. QED
  BY <1>1, <1>2, <1>3, <1>4, <1>5 DEF IInv

LEMMA ReplyStep ==
  ASSUME IInv, NEW g \in Gens, Reply(g)
  PROVE  IInv'
<1>1. TypeOK'
  BY NobodyAssumption, MaxGenAssumption DEF IInv, TypeOK, Requests, Lifecycle, OfferUnderLock, Gens, WriterPC, CallPC, Returned, Reply, runVars, callVars, ctlVars, ownerVars
<1>2. Lifecycle'
  BY MaxGenAssumption DEF IInv, TypeOK, Lifecycle, OfferUnderLock, Gens, Reply, runVars, callVars, ctlVars, ownerVars
<1>3. OfferUnderLock'
  BY NobodyAssumption DEF IInv, TypeOK, Lifecycle, OfferUnderLock, Gens, Reply, runVars, callVars, ctlVars, ownerVars
<1>4. Requests'
  <2>1. busy[g] \in Writes /\ busy[g] \notin Queued(g) /\ Pending(busy[g], g)
    BY DEF IInv, TypeOK, Requests, Reply
  <2>2. \A h \in Gens : h # g => busy[h] # busy[g] /\ busy[g] \notin Queued(h)
    BY <2>1, NobodyAssumption DEF IInv, Requests, Pending, Queued
  <2>3. \A h \in Gens : \A i \in 1..Len(queue[h]) :
          queue[h][i] \in Writes /\ queue[h][i] # busy[g]
    <3>1. SUFFICES ASSUME NEW h \in Gens, NEW i \in 1..Len(queue[h])
                   PROVE  queue[h][i] \in Writes /\ queue[h][i] # busy[g]
      OBVIOUS
    <3>2. queue[h] \in Seq(Writes) /\ queue[h][i] \in Queued(h)
      BY DEF IInv, TypeOK, Queued
    <3>3. QED
      BY <2>1, <2>2, <3>2
  <2>4. /\ UNCHANGED <<queue, call, chan>>
        /\ \A w \in Writes : w # busy[g] => applied'[w] = applied[w]
        /\ \A w \in Writes : w # busy[g] => (w \in replied' <=> w \in replied)
        /\ \A h \in Gens : h # g => busy'[h] = busy[h] /\ writer'[h] = writer[h]
        /\ busy'[g] = Nobody /\ writer'[g] \in {"select", "drain"}
    BY DEF IInv, TypeOK, Reply, callVars
  <2>5. \A h \in Gens : \A i \in 1..Len(queue'[h]) : Pending(queue[h][i], h)'
    BY <2>3, <2>4 DEF IInv, Requests, Pending
  <2>6. ASSUME NEW h \in Gens, busy'[h] # Nobody
        PROVE  Pending(busy[h], h)'
    <3>1. h # g /\ busy'[h] = busy[h] /\ busy[h] # Nobody
      BY <2>4, <2>6
    <3>2. busy[h] \in Writes /\ busy[h] # busy[g] /\ Pending(busy[h], h)
      BY <2>2, <3>1 DEF IInv, TypeOK, Requests
    <3>3. QED
      BY <2>4, <3>1, <3>2 DEF Pending
  <2>7. \A h \in Gens : busy'[h] \notin Queued(h)'
    BY <2>3, <2>4, NobodyAssumption DEF IInv, Requests, Queued
  <2>8. \A h \in Gens : /\ writer'[h] \in {"unborn", "closed"} => queue'[h] = <<>>
                        /\ busy'[h] # Nobody <=> writer'[h] \in {"apply", "drainApply"}
    BY <2>4 DEF IInv, Requests
  <2>9. \A h \in Gens : \A i, j \in 1..Len(queue'[h]) :
          queue'[h][i] = queue'[h][j] => i = j
    BY <2>4 DEF IInv, Requests
  <2>10. QED
    BY <2>5, <2>6, <2>7, <2>8, <2>9 DEF Requests
<1>5. Outcomes'
  BY NobodyAssumption DEF IInv, TypeOK, Lifecycle, OfferUnderLock, Requests, Outcomes, Pending, Queued, Gens, Reply, runVars, callVars, ctlVars, ownerVars
<1>6. QED
  BY <1>1, <1>2, <1>3, <1>4, <1>5 DEF IInv

LEMMA SeeCancelStep ==
  ASSUME IInv, NEW g \in Gens, SeeCancel(g)
  PROVE  IInv'
<1>1. TypeOK'
  BY NobodyAssumption, MaxGenAssumption DEF IInv, TypeOK, Requests, Lifecycle, OfferUnderLock, Gens, WriterPC, CallPC, Returned, SeeCancel, runVars, callVars, ctlVars, ownerVars
<1>2. Lifecycle'
  BY MaxGenAssumption DEF IInv, TypeOK, Lifecycle, OfferUnderLock, Gens, SeeCancel, runVars, callVars, ctlVars, ownerVars
<1>3. OfferUnderLock'
  BY NobodyAssumption DEF IInv, TypeOK, Lifecycle, OfferUnderLock, Gens, SeeCancel, runVars, callVars, ctlVars, ownerVars
<1>4. Requests'
  BY NobodyAssumption DEF IInv, TypeOK, Lifecycle, OfferUnderLock, Requests, Outcomes, Pending, Queued, Gens, SeeCancel, runVars, callVars, ctlVars, ownerVars
<1>5. Outcomes'
  BY NobodyAssumption DEF IInv, TypeOK, Lifecycle, OfferUnderLock, Requests, Outcomes, Pending, Queued, Gens, SeeCancel, runVars, callVars, ctlVars, ownerVars
<1>6. QED
  BY <1>1, <1>2, <1>3, <1>4, <1>5 DEF IInv

LEMMA ExitStep ==
  ASSUME IInv, NEW g \in Gens, Exit(g)
  PROVE  IInv'
<1>1. TypeOK'
  BY NobodyAssumption, MaxGenAssumption DEF IInv, TypeOK, Requests, Lifecycle, OfferUnderLock, Gens, WriterPC, CallPC, Returned, Exit, runVars, callVars, ctlVars, ownerVars
<1>2. Lifecycle'
  BY MaxGenAssumption DEF IInv, TypeOK, Lifecycle, OfferUnderLock, Gens, Exit, runVars, callVars, ctlVars, ownerVars
<1>3. OfferUnderLock'
  BY NobodyAssumption DEF IInv, TypeOK, Lifecycle, OfferUnderLock, Gens, Exit, runVars, callVars, ctlVars, ownerVars
<1>4. Requests'
  BY NobodyAssumption DEF IInv, TypeOK, Lifecycle, OfferUnderLock, Requests, Outcomes, Pending, Queued, Gens, Exit, runVars, callVars, ctlVars, ownerVars
<1>5. Outcomes'
  BY NobodyAssumption DEF IInv, TypeOK, Lifecycle, OfferUnderLock, Requests, Outcomes, Pending, Queued, Gens, Exit, runVars, callVars, ctlVars, ownerVars
<1>6. QED
  BY <1>1, <1>2, <1>3, <1>4, <1>5 DEF IInv

LEMMA InvokeStep ==
  ASSUME IInv, NEW w \in Writes, Invoke(w)
  PROVE  IInv'
<1>1. TypeOK'
  BY NobodyAssumption, MaxGenAssumption DEF IInv, TypeOK, Requests, Lifecycle, OfferUnderLock, Gens, WriterPC, CallPC, Returned, Invoke, runVars, callVars, ctlVars, ownerVars
<1>2. Lifecycle'
  BY MaxGenAssumption DEF IInv, TypeOK, Lifecycle, OfferUnderLock, Gens, Invoke, runVars, callVars, ctlVars, ownerVars
<1>3. OfferUnderLock'
  BY NobodyAssumption DEF IInv, TypeOK, Lifecycle, OfferUnderLock, Gens, Invoke, runVars, callVars, ctlVars, ownerVars
<1>4. Requests'
  BY NobodyAssumption DEF IInv, TypeOK, Lifecycle, OfferUnderLock, Requests, Outcomes, Pending, Queued, Gens, Invoke, runVars, callVars, ctlVars, ownerVars
<1>5. Outcomes'
  BY NobodyAssumption DEF IInv, TypeOK, Lifecycle, OfferUnderLock, Requests, Outcomes, Pending, Queued, Gens, Invoke, runVars, callVars, ctlVars, ownerVars
<1>6. QED
  BY <1>1, <1>2, <1>3, <1>4, <1>5 DEF IInv

LEMMA SubmitStep ==
  ASSUME IInv, NEW w \in Writes, Submit(w)
  PROVE  IInv'
<1>1. TypeOK'
  <2>1. current \in 0..MaxGen
    BY MaxGenAssumption DEF IInv, TypeOK
  <2>2. CASE Accepting
    BY <2>1, <2>2 DEF IInv, TypeOK, Submit, CallPC, runVars, ctlVars, ownerVars
  <2>3. CASE ~Accepting
    BY <2>3 DEF IInv, TypeOK, Submit, CallPC, runVars, ctlVars, ownerVars
  <2>4. QED
    BY <2>2, <2>3
<1>2. Lifecycle'
  BY MaxGenAssumption DEF IInv, TypeOK, Lifecycle, OfferUnderLock, Gens, Submit, Accepting, runVars, callVars, ctlVars, ownerVars
<1>3. OfferUnderLock'
  BY NobodyAssumption DEF IInv, TypeOK, Lifecycle, OfferUnderLock, Gens, Submit, Accepting, runVars, callVars, ctlVars, ownerVars
<1>4. Requests'
  <2>1. \A v \in Writes, g \in Gens : Pending(v, g) => Pending(v, g)'
    BY DEF IInv, TypeOK, Pending, Submit, runVars
  <2>2. \A g \in Gens : \A i \in 1..Len(queue[g]) : queue[g][i] \in Writes
    BY DEF IInv, TypeOK
  <2>3. UNCHANGED <<queue, busy, writer>>
    BY DEF Submit, runVars
  <2>4. \A g \in Gens : \A i \in 1..Len(queue[g]) : Pending(queue[g][i], g)'
    BY <2>1, <2>2, <2>3 DEF IInv, Requests, Pending
  <2>5. \A g \in Gens : busy[g] # Nobody => Pending(busy[g], g)'
    BY <2>1, <2>3 DEF IInv, TypeOK, Requests, Pending
  <2>6. QED
    BY <2>3, <2>4, <2>5 DEF IInv, Requests, Pending, Queued
<1>5. Outcomes'
  BY SMTT(60), NobodyAssumption DEF IInv, TypeOK, Lifecycle, OfferUnderLock, Requests, Outcomes, Pending, Queued, Gens, Submit, Accepting, runVars, callVars, ctlVars, ownerVars
<1>6. QED
  BY <1>1, <1>2, <1>3, <1>4, <1>5 DEF IInv

LEMMA InlineStep ==
  ASSUME IInv, NEW w \in Writes, ApplyInline(w)
  PROVE  IInv'
<1>1. TypeOK'
  BY NobodyAssumption, MaxGenAssumption DEF IInv, TypeOK, Requests, Lifecycle, OfferUnderLock, Gens, WriterPC, CallPC, Returned, ApplyInline, runVars, callVars, ctlVars, ownerVars
<1>2. Lifecycle'
  BY MaxGenAssumption DEF IInv, TypeOK, Lifecycle, OfferUnderLock, Gens, ApplyInline, runVars, callVars, ctlVars, ownerVars
<1>3. OfferUnderLock'
  BY NobodyAssumption DEF IInv, TypeOK, Lifecycle, OfferUnderLock, Gens, ApplyInline, runVars, callVars, ctlVars, ownerVars
<1>4. Requests'
  BY NobodyAssumption DEF IInv, TypeOK, Lifecycle, OfferUnderLock, Requests, Outcomes, Pending, Queued, Gens, ApplyInline, runVars, callVars, ctlVars, ownerVars
<1>5. Outcomes'
  BY NobodyAssumption DEF IInv, TypeOK, Lifecycle, OfferUnderLock, Requests, Outcomes, Pending, Queued, Gens, ApplyInline, runVars, callVars, ctlVars, ownerVars
<1>6. QED
  BY <1>1, <1>2, <1>3, <1>4, <1>5 DEF IInv

LEMMA EnqueueStep ==
  ASSUME IInv, NEW w \in Writes, Enqueue(w)
  PROVE  IInv'
<1>1. TypeOK'
  <2>1. queue' \in [Gens -> Seq(Writes)]
    <3>1. chan[w] \in Gens /\ queue \in [Gens -> Seq(Writes)]
      BY MaxGenAssumption DEF IInv, TypeOK, OfferUnderLock, Enqueue, Gens
    <3>2. Append(queue[chan[w]], w) \in Seq(Writes)
      BY <3>1
    <3>3. QED
      BY <3>1, <3>2 DEF Enqueue
  <2>2. QED
    BY <2>1 DEF IInv, TypeOK, Enqueue, CallPC, ctlVars, ownerVars
<1>2. Lifecycle'
  BY MaxGenAssumption DEF IInv, TypeOK, Lifecycle, OfferUnderLock, Gens, Enqueue, runVars, callVars, ctlVars, ownerVars
<1>3. OfferUnderLock'
  BY NobodyAssumption DEF IInv, TypeOK, Lifecycle, OfferUnderLock, Gens, Enqueue, runVars, callVars, ctlVars, ownerVars
<1>4. Requests'
  BY SMTT(60), NobodyAssumption DEF IInv, TypeOK, Lifecycle, OfferUnderLock, Requests, Outcomes, Pending, Queued, Gens, Enqueue, runVars, callVars, ctlVars, ownerVars
<1>5. Outcomes'
  <2>1. chan[w] = current /\ current \in 1..started /\ chan[w] \in Gens
    BY MaxGenAssumption DEF IInv, TypeOK, OfferUnderLock, Enqueue, Gens
  <2>2. queue[chan[w]] \in Seq(Writes) /\ queue'[chan[w]] = Append(queue[chan[w]], w)
    BY <2>1 DEF IInv, TypeOK, Enqueue
  <2>3. \A g \in Gens : Queued(g) \subseteq Queued(g)'
    BY <2>1, <2>2 DEF IInv, TypeOK, Enqueue, Queued
  <2>4. w \in Queued(chan[w])'
    <3>1. /\ Len(queue'[chan[w]]) = Len(queue[chan[w]]) + 1
          /\ Len(queue[chan[w]]) \in Nat
          /\ queue'[chan[w]][Len(queue[chan[w]]) + 1] = w
      BY <2>2
    <3>2. chan' = chan
      BY DEF Enqueue
    <3>3. Len(queue[chan[w]]) + 1 \in 1..Len(queue'[chan'[w]])
      BY <3>1, <3>2
    <3>4. QED
      BY <3>1, <3>2, <3>3 DEF Queued
  <2>5. \A v \in Writes : call[v] = "wait" => chan[v] \in Gens
    BY MaxGenAssumption DEF IInv, TypeOK, Outcomes, Gens
  <2>6. ASSUME NEW v \in Writes, v # w, call'[v] = "wait", v \notin replied'
        PROVE  v \in Queued(chan[v])' \/ busy'[chan[v]] = v
    BY <2>3, <2>5, <2>6 DEF IInv, TypeOK, Outcomes, Enqueue
  <2>7. /\ call'[w] = "wait" /\ applied'[w] = 0 /\ w \notin replied'
        /\ UNCHANGED <<chan, applied, replied, busy, started>>
        /\ \A v \in Writes : v # w => call'[v] = call[v]
    BY DEF IInv, TypeOK, Outcomes, Enqueue, ownerVars
  <2>8. QED
    BY <2>1, <2>4, <2>6, <2>7 DEF IInv, Outcomes
<1>6. QED
  BY <1>1, <1>2, <1>3, <1>4, <1>5 DEF IInv

LEMMA TimeoutStep ==
  ASSUME IInv, NEW w \in Writes, OfferTimeout(w)
  PROVE  IInv'
<1>1. TypeOK'
  BY NobodyAssumption, MaxGenAssumption DEF IInv, TypeOK, Requests, Lifecycle, OfferUnderLock, Gens, WriterPC, CallPC, Returned, OfferTimeout, runVars, callVars, ctlVars, ownerVars
<1>2. Lifecycle'
  BY MaxGenAssumption DEF IInv, TypeOK, Lifecycle, OfferUnderLock, Gens, OfferTimeout, runVars, callVars, ctlVars, ownerVars
<1>3. OfferUnderLock'
  BY NobodyAssumption DEF IInv, TypeOK, Lifecycle, OfferUnderLock, Gens, OfferTimeout, runVars, callVars, ctlVars, ownerVars
<1>4. Requests'
  BY NobodyAssumption DEF IInv, TypeOK, Lifecycle, OfferUnderLock, Requests, Outcomes, Pending, Queued, Gens, OfferTimeout, runVars, callVars, ctlVars, ownerVars
<1>5. Outcomes'
  BY NobodyAssumption DEF IInv, TypeOK, Lifecycle, OfferUnderLock, Requests, Outcomes, Pending, Queued, Gens, OfferTimeout, runVars, callVars, ctlVars, ownerVars
<1>6. QED
  BY <1>1, <1>2, <1>3, <1>4, <1>5 DEF IInv

LEMMA AnswerStep ==
  ASSUME IInv, NEW w \in Writes, Answer(w)
  PROVE  IInv'
<1>1. TypeOK'
  BY NobodyAssumption, MaxGenAssumption DEF IInv, TypeOK, Requests, Lifecycle, OfferUnderLock, Gens, WriterPC, CallPC, Returned, Answer, runVars, callVars, ctlVars, ownerVars
<1>2. Lifecycle'
  BY MaxGenAssumption DEF IInv, TypeOK, Lifecycle, OfferUnderLock, Gens, Answer, runVars, callVars, ctlVars, ownerVars
<1>3. OfferUnderLock'
  BY NobodyAssumption DEF IInv, TypeOK, Lifecycle, OfferUnderLock, Gens, Answer, runVars, callVars, ctlVars, ownerVars
<1>4. Requests'
  <2>1. chan[w] \in Gens
    BY MaxGenAssumption DEF IInv, TypeOK, Outcomes, Answer, Gens
  <2>2. w \in replied
    <3>1. CASE writer[chan[w]] = "closed"
      BY <2>1, <3>1, NobodyAssumption
         DEF IInv, Requests, Outcomes, Answer, Queued
    <3>2. QED
      BY <3>1 DEF Answer
  <2>3. \A v \in Writes, g \in Gens : Pending(v, g) => v # w /\ Pending(v, g)'
    BY <2>2 DEF IInv, TypeOK, Pending, Answer, runVars
  <2>4. \A g \in Gens : \A i \in 1..Len(queue[g]) : queue[g][i] \in Writes
    BY DEF IInv, TypeOK
  <2>5. UNCHANGED <<queue, busy, writer>>
    BY DEF Answer, runVars
  <2>6. \A g \in Gens : \A i \in 1..Len(queue[g]) : Pending(queue[g][i], g)'
    BY <2>3, <2>4, <2>5 DEF IInv, Requests, Pending
  <2>7. \A g \in Gens : busy[g] # Nobody => Pending(busy[g], g)'
    BY <2>3, <2>5 DEF IInv, TypeOK, Requests, Pending
  <2>8. QED
    BY <2>5, <2>6, <2>7 DEF IInv, Requests, Pending, Queued
<1>5. Outcomes'
  <2>1. chan[w] \in Gens
    BY MaxGenAssumption DEF IInv, TypeOK, Outcomes, Answer, Gens
  <2>2. w \in replied
    <3>1. CASE writer[chan[w]] = "closed"
      BY <2>1, <3>1, NobodyAssumption
         DEF IInv, Requests, Outcomes, Answer, Queued
    <3>2. QED
      BY <3>1 DEF Answer
  <2>3. call'[w] = "ok" /\ applied[w] = 1
    BY <2>2 DEF IInv, TypeOK, Outcomes, Answer
  <2>4. UNCHANGED <<chan, applied, replied, busy, queue, started>>
    BY DEF Answer, runVars, ownerVars
  <2>5. \A v \in Writes : v # w => call'[v] = call[v]
    BY DEF IInv, TypeOK, Answer
  <2>6. QED
    BY <2>2, <2>3, <2>4, <2>5 DEF IInv, Outcomes, Queued
<1>6. QED
  BY <1>1, <1>2, <1>3, <1>4, <1>5 DEF IInv

-----------------------------------------------------------------------------
LEMMA InitInvariant == Init => IInv
<1>1. SUFFICES ASSUME Init PROVE IInv
  OBVIOUS
<1>2. TypeOK
  BY <1>1, MaxGenAssumption DEF Init, TypeOK, WriterPC, CallPC, Returned, Gens
<1>3. Lifecycle /\ OfferUnderLock
  BY <1>1, MaxGenAssumption DEF Init, Lifecycle, OfferUnderLock, Gens
<1>4. Requests /\ Outcomes
  BY <1>1 DEF Init, Requests, Outcomes, Pending, Queued
<1>5. QED
  BY <1>2, <1>3, <1>4 DEF IInv

LEMMA StepInvariant == IInv /\ [Next]_vars => IInv'
<1>1. SUFFICES ASSUME IInv, [Next]_vars PROVE IInv'
  OBVIOUS
<1>2. ASSUME NEW g \in Gens, WriterStep(g) PROVE IInv'
  BY <1>1, <1>2, TakeStep, ReplyStep, SeeCancelStep, ExitStep DEF WriterStep
<1>3. ASSUME NEW c \in Controllers, ControlStep(c) PROVE IInv'
  BY <1>1, <1>3, StartStep, StopCancelStep, StopClearStep DEF ControlStep
<1>4. ASSUME NEW w \in Writes, Invoke(w) \/ CallStep(w) PROVE IInv'
  BY <1>1, <1>4, InvokeStep, SubmitStep, InlineStep, EnqueueStep, TimeoutStep,
     AnswerStep DEF CallStep
<1>5. CASE UNCHANGED vars
  BY <1>1, <1>5 DEF vars, IInv, TypeOK, Lifecycle, OfferUnderLock, Requests,
     Outcomes, Pending, Queued
<1>6. QED
  BY <1>1, <1>2, <1>3, <1>4, <1>5 DEF Next

LEMMA Invariance == Spec => []IInv
  BY InitInvariant, StepInvariant, PTL DEF Spec

(* The variables keep their types: traffic_writer.go's queue never holds    *)
(* anything but requests, and a generation number never runs past started.  *)
THEOREM TypeCorrect == Spec => []TypeOK
  BY Invariance, PTL DEF IInv

(* StartTrafficWriter never leaves two writer goroutines alive, however the *)
(* starts and stops of any number of goroutines interleave.                 *)
THEOREM AtMostOneWriter == Spec => []OneWriter
<1>1. IInv => OneWriter
  BY DEF IInv, Lifecycle, TypeOK, OneWriter, Gens
<1>2. QED
  BY <1>1, Invariance, PTL

(* StopTrafficWriter loses nothing: a writer that has exited has an empty   *)
(* queue, and "stopped before write completed" is never returned.           *)
THEOREM DrainIsComplete == Spec => []NothingLeftBehind
<1>1. IInv => NothingLeftBehind
  BY DEF IInv, Requests, Outcomes, NothingLeftBehind
<1>2. QED
  BY <1>1, Invariance, PTL

(* submitTrafficWrite tells the truth: success means applied exactly once,  *)
(* an error means never applied, not even after the caller has left.        *)
THEOREM AnswersAreHonest == Spec => []HonestAnswer
<1>1. IInv => HonestAnswer
  <2>1. SUFFICES ASSUME IInv, NEW w \in Writes
                 PROVE  /\ applied[w] <= 1
                        /\ call[w] = "ok" => applied[w] = 1
                        /\ call[w] \in {"full", "stopped"} => applied[w] = 0
    BY DEF HonestAnswer
  <2>2. CASE call[w] = "wait"
    <3>1. CASE w \in replied
      BY <2>1, <2>2, <3>1 DEF IInv, Outcomes
    <3>2. CASE w \notin replied
      <4>1. chan[w] \in Gens
        BY <2>1, <2>2, MaxGenAssumption DEF IInv, TypeOK, Outcomes, Gens
      <4>2. applied[w] = 0
        <5>1. CASE w \in Queued(chan[w])
          BY <2>1, <4>1, <5>1 DEF IInv, Requests, Pending, Queued
        <5>2. CASE busy[chan[w]] = w
          BY <2>1, <4>1, <5>2, NobodyAssumption DEF IInv, Requests, Pending
        <5>3. QED
          BY <2>1, <2>2, <3>2, <5>1, <5>2 DEF IInv, Outcomes
      <4>3. QED
        BY <2>2, <4>2
    <3>3. QED
      BY <3>1, <3>2
  <2>3. CASE call[w] # "wait"
    BY <2>1, <2>3 DEF IInv, TypeOK, Outcomes, CallPC, Returned
  <2>4. QED
    BY <2>2, <2>3
<1>2. QED
  BY <1>1, Invariance, PTL

-----------------------------------------------------------------------------
(* Refinement.  Answers depend on call alone.                               *)
LEMMA AnswerMoves ==
  ASSUME NEW w \in Writes, NEW from, NEW to,
         AnswerOf(w) = from, AnswerOf(w)' = to,
         \A v \in Writes : v # w => AnswerOf(v)' = AnswerOf(v)
  PROVE  Service!Answer(w, from, to)
<1>1. [v \in Writes |-> AnswerOf(v)][w] = from
  OBVIOUS
<1>2. [v \in Writes |-> AnswerOf(v)'] = [[v \in Writes |-> AnswerOf(v)] EXCEPT ![w] = to]
  OBVIOUS
<1>3. QED
  BY <1>1, <1>2 DEF Service!Answer

LEMMA SameService ==
  ASSUME UNCHANGED <<call, applied>>
  PROVE  UNCHANGED Service!vars
  BY DEF AnswerOf, Service!vars

LEMMA StepRefines ==
  ASSUME IInv, [Next]_vars
  PROVE  [Service!Next]_(Service!vars)
<1> DEFINE Goal == [Service!Next]_(Service!vars)
<1>1. ASSUME NEW g \in Gens, WriterStep(g) PROVE Goal
  <2>1. CASE Reply(g)
    <3>1. PICK w \in Writes : w = busy[g] /\ Pending(w, g)
      BY <2>1 DEF IInv, TypeOK, Requests, Reply
    <3>2. AnswerOf(w) = "pending" /\ applied[w] = 0
      BY <3>1 DEF IInv, TypeOK, Pending, AnswerOf
    <3>3. applied' = [applied EXCEPT ![w] = 1]
      BY <2>1, <3>1, <3>2 DEF IInv, TypeOK, Reply
    <3>4. UNCHANGED [v \in Writes |-> AnswerOf(v)]
      BY <2>1 DEF AnswerOf, Reply, callVars
    <3>5. Service!Apply(w)
      BY <3>2, <3>3, <3>4 DEF Service!Apply, Service!ApplyOnce
    <3>6. QED
      BY <3>5 DEF Service!Next
  <2>2. CASE Take(g) \/ SeeCancel(g) \/ Exit(g)
    BY <2>2, SameService DEF Take, SeeCancel, Exit, callVars
  <2>3. QED
    BY <1>1, <2>1, <2>2 DEF WriterStep
<1>2. ASSUME NEW c \in Controllers, ControlStep(c) PROVE Goal
  BY <1>2, SameService
     DEF ControlStep, Start, StopCancel, StopClear, runVars, callVars
<1>3. ASSUME NEW w \in Writes, Invoke(w) \/ CallStep(w) PROVE Goal
  <2>1. \A v \in Writes : v # w => AnswerOf(v)' = AnswerOf(v)
    BY <1>3 DEF IInv, TypeOK, AnswerOf, Invoke, CallStep, Submit, ApplyInline,
       Enqueue, OfferTimeout, Answer
  <2>2. CASE Invoke(w)
    <3>1. AnswerOf(w) = "new" /\ AnswerOf(w)' = "pending" /\ UNCHANGED applied
      BY <2>2 DEF IInv, TypeOK, AnswerOf, Invoke, runVars
    <3>2. Service!Submit(w)
      BY <2>1, <3>1, AnswerMoves DEF Service!Submit
    <3>3. QED
      BY <3>2 DEF Service!Next
  <2>3. CASE ApplyInline(w)
    <3>1. AnswerOf(w) = "pending" /\ AnswerOf(w)' = "ok"
      BY <2>3 DEF IInv, TypeOK, AnswerOf, ApplyInline
    <3>2. applied[w] = 0
      BY <2>3 DEF IInv, TypeOK, Outcomes, ApplyInline
    <3>3. applied' = [applied EXCEPT ![w] = 1]
      BY <2>3, <3>2 DEF ApplyInline
    <3>4. Service!ApplyInPlace(w)
      BY <2>1, <3>1, <3>2, <3>3, AnswerMoves DEF Service!ApplyInPlace, Service!ApplyOnce
    <3>5. QED
      BY <3>4 DEF Service!Next
  <2>4. CASE OfferTimeout(w)
    <3>1. AnswerOf(w) = "pending" /\ AnswerOf(w)' = "refused"
      BY <2>4 DEF IInv, TypeOK, AnswerOf, OfferTimeout
    <3>2. applied[w] = 0 /\ UNCHANGED applied
      BY <2>4 DEF IInv, TypeOK, Outcomes, OfferTimeout, runVars
    <3>3. Service!Refuse(w)
      BY <2>1, <3>1, <3>2, AnswerMoves DEF Service!Refuse
    <3>4. QED
      BY <3>3 DEF Service!Next
  <2>5. CASE Answer(w)
    <3>1. w \in replied
      <4>1. IInv'
        BY <2>5, AnswerStep
      <4>2. call'[w] # "stopped"
        BY <4>1 DEF IInv, Outcomes
      <4>3. QED
        BY <2>5, <4>2 DEF IInv, TypeOK, Answer
    <3>2. AnswerOf(w) = "pending" /\ AnswerOf(w)' = "ok"
      BY <2>5, <3>1 DEF IInv, TypeOK, AnswerOf, Answer
    <3>3. applied[w] = 1 /\ UNCHANGED applied
      BY <2>5, <3>1 DEF IInv, TypeOK, Outcomes, Answer, runVars
    <3>4. Service!Accept(w)
      BY <2>1, <3>2, <3>3, AnswerMoves DEF Service!Accept
    <3>5. QED
      BY <3>4 DEF Service!Next
  <2>6. CASE Submit(w) \/ Enqueue(w)
    <3>1. AnswerOf(w)' = AnswerOf(w) /\ UNCHANGED applied
      BY <2>6 DEF IInv, TypeOK, AnswerOf, Submit, Enqueue, runVars
    <3>2. UNCHANGED [v \in Writes |-> AnswerOf(v)]
      BY <2>1, <3>1
    <3>3. QED
      BY <3>1, <3>2 DEF Service!vars
  <2>7. QED
    BY <1>3, <2>2, <2>3, <2>4, <2>5, <2>6 DEF CallStep
<1>4. CASE UNCHANGED vars
  BY <1>4, SameService DEF vars, runVars, callVars
<1>5. QED
  BY <1>1, <1>2, <1>3, <1>4 DEF Next

(* The writer implements the abstract write service: callers cannot tell    *)
(* the queue, the goroutine and its restarts from a direct, at-most-once    *)
(* write.                                                                   *)
THEOREM Refinement == Spec => ImplementsService
<1>1. Init => Service!Init
  BY DEF Init, Service!Init, AnswerOf
<1>2. IInv /\ [Next]_vars => [Service!Next]_(Service!vars)
  BY StepRefines
<1>3. QED
  BY <1>1, <1>2, Invariance, PTL DEF Spec, ImplementsService, Service!Spec
=============================================================================
