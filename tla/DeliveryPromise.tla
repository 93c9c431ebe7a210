--------------------------- MODULE DeliveryPromise ---------------------------
(***************************************************************************)
(* What the dispatchers promise a merchant: a queued delivery is offered   *)
(* to the endpoint until the endpoint takes it or has been asked for the   *)
(* last time; after that it is left alone, unless an operator replays it.  *)
(* A dispatcher that has lost its hold on deliveries it took up while they *)
(* waited may still ask for each of them once, whatever has become of them *)
(* in the meantime; these attempts are not counted.                        *)
(***************************************************************************)
EXTENDS Naturals

CONSTANTS
    Deliveries,     \* an event for an endpoint
    Dispatchers,
    Tries           \* attempts before a delivery is dead

VARIABLES
    status,     \* none, waiting, delivered or dead
    tries,      \* attempts that count
    taken,      \* the deliveries an endpoint has answered with 2xx
    loose       \* what each dispatcher has yet to ask for without a hold on it

vars == <<status, tries, taken, loose>>

Queue(D) ==
    /\ \A d \in D : status[d] = "none"
    /\ status' = [d \in Deliveries |-> IF d \in D THEN "waiting" ELSE status[d]]
    /\ UNCHANGED <<tries, taken, loose>>

\* An endpoint is asked, and may answer, only while its delivery waits, ...
Take(d) ==
    /\ status[d] = "waiting"
    /\ taken' = taken \cup {d}
    /\ UNCHANGED <<status, tries, loose>>

Slip(w, D) ==
    /\ \A d \in D : status[d] = "waiting"
    /\ loose' = [loose EXCEPT ![w] = D]
    /\ UNCHANGED <<status, tries, taken>>

\* ... or by a dispatcher that took it up when it waited, once.
TakeLoose(w, d) ==
    /\ d \in loose[w]
    /\ loose' = [loose EXCEPT ![w] = @ \ {d}]
    /\ taken' = taken \cup {d}
    /\ UNCHANGED <<status, tries>>

\* The endpoint refuses, or the dispatcher gives up.
Drop(w, D) ==
    /\ loose' = [loose EXCEPT ![w] = @ \ D]
    /\ UNCHANGED <<status, tries, taken>>

\* Attempts are counted, for several deliveries at once: those that were taken are
\* done, the others wait for their next attempt unless this was the last.
Count(won, lost) ==
    /\ \A d \in won \cup lost : status[d] = "waiting"
    /\ won \subseteq taken
    /\ tries' = [d \in Deliveries |-> IF d \in won \cup lost THEN tries[d] + 1 ELSE tries[d]]
    /\ status' = [d \in Deliveries |->
          IF d \in won THEN "delivered"
          ELSE IF d \in lost /\ tries[d] + 1 >= Tries THEN "dead" ELSE status[d]]
    /\ UNCHANGED <<taken, loose>>

Replay(d) ==
    /\ status[d] = "dead"
    /\ status' = [status EXCEPT ![d] = "waiting"]
    /\ tries' = [tries EXCEPT ![d] = 0]
    /\ UNCHANGED <<taken, loose>>

Init ==
    /\ status = [d \in Deliveries |-> "none"]
    /\ tries = [d \in Deliveries |-> 0]
    /\ taken = {}
    /\ loose = [w \in Dispatchers |-> {}]

Next ==
    \/ \E D \in SUBSET Deliveries : Queue(D)
    \/ \E d \in Deliveries : Take(d) \/ Replay(d)
    \/ \E won, lost \in SUBSET Deliveries : won \cap lost = {} /\ Count(won, lost)
    \/ \E w \in Dispatchers :
          \/ \E D \in SUBSET Deliveries : Slip(w, D) \/ Drop(w, D)
          \/ \E d \in Deliveries : TakeLoose(w, d)

Spec == Init /\ [][Next]_vars
=============================================================================
