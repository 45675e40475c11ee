---------------------------- MODULE WriteService ----------------------------
(***************************************************************************)
(* What the panel's database-write service promises to its callers          *)
(* (internal/web/service/traffic_writer.go): a submitted write is either    *)
(* applied once, while its caller waits, and reported as applied, or it is  *)
(* refused and never touches the database, not even later.  The abstract    *)
(* specification knows no queue, no goroutine and no restart; module        *)
(* TrafficWriter is shown to implement it.                                  *)
(***************************************************************************)
CONSTANT Writes

VARIABLES
  answer,     \* answer[w]: where the caller of write w stands
  applied     \* applied[w]: how often write w has been applied

vars == <<answer, applied>>

Init == /\ answer = [w \in Writes |-> "new"]
        /\ applied = [w \in Writes |-> 0]

Answer(w, from, to) == /\ answer[w] = from
                       /\ answer' = [answer EXCEPT ![w] = to]

ApplyOnce(w) == /\ applied[w] = 0
                /\ applied' = [applied EXCEPT ![w] = 1]

Submit(w) == Answer(w, "new", "pending") /\ UNCHANGED applied
Apply(w)  == answer[w] = "pending" /\ ApplyOnce(w) /\ UNCHANGED answer
Accept(w) == applied[w] = 1 /\ Answer(w, "pending", "ok") /\ UNCHANGED applied
Refuse(w) == applied[w] = 0 /\ Answer(w, "pending", "refused") /\ UNCHANGED applied

(* A caller that applies its own write learns the outcome as it happens.    *)
ApplyInPlace(w) == Answer(w, "pending", "ok") /\ ApplyOnce(w)

Next == \E w \in Writes : \/ Submit(w) \/ Apply(w) \/ Accept(w)
                          \/ Refuse(w) \/ ApplyInPlace(w)

Spec == Init /\ [][Next]_vars
=============================================================================
