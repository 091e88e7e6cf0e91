---------------------------- MODULE SendPromise ----------------------------
(***************************************************************************)
(* What the user is promised about letters, said without a queue, batches, *)
(* requests or cycles: a letter goes out only if the user approved that    *)
(* very text for that vacancy, at most once for each time the vacancy was  *)
(* put in the queue, and what is recorded as sent is answered on hh.       *)
(* SendQueue implements it (SendQueue!KeepsPromise, SendPromiseProofs).    *)
(***************************************************************************)
EXTENDS Integers, Sequences

CONSTANTS
    Vacancies,      \* the vacancies the user applies to
    Letters         \* the possible cover letters

VARIABLES
    approved,       \* the letters the user approved, per vacancy
    enqueued,       \* how often the vacancy was put in the queue
    posted,         \* the letters sent to hh, each with the enqueue it is for
    answered,       \* the vacancies hh knows a response to
    recorded        \* the vacancies the user is told were sent

vars == <<approved, enqueued, posted, answered, recorded>>

Init ==
    /\ approved = [v \in Vacancies |-> {}]
    /\ enqueued = [v \in Vacancies |-> 0]
    /\ posted = [v \in Vacancies |-> <<>>]
    /\ answered = [v \in Vacancies |-> FALSE]
    /\ recorded = {}

Approve(v) ==
    /\ \E t \in Letters : approved' = [approved EXCEPT ![v] = @ \union {t}]
    /\ UNCHANGED <<enqueued, posted, answered>>

Enqueue(v) ==
    /\ enqueued' = [enqueued EXCEPT ![v] = @ + 1]
    /\ UNCHANGED <<approved, posted, answered>>

\* A response may appear on hh at any time: at once, late, or by other means.
Answer(v) == answered' \in {answered, [answered EXCEPT ![v] = TRUE]}

\* One POST for an enqueue that has had none, of a text that is approved.
Send(v) ==
    /\ \E n \in 1..enqueued[v], t \in approved[v] :
          /\ \A i \in DOMAIN posted[v] : posted[v][i].gen # n
          /\ posted' = [posted EXCEPT ![v] = Append(@, [gen |-> n, text |-> t])]
    /\ Answer(v)
    /\ UNCHANGED <<approved, enqueued>>

Elsewhere(v) == Answer(v) /\ UNCHANGED <<approved, enqueued, posted>>

\* The records may change with any step, as long as they are true.
Truthful == recorded' \subseteq {v \in Vacancies : answered'[v]}

Next ==
    /\ \E v \in Vacancies : Approve(v) \/ Enqueue(v) \/ Send(v) \/ Elsewhere(v)
    /\ Truthful

Spec == Init /\ [][Next]_vars
=============================================================================
