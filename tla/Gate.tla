-------------------------------- MODULE Gate --------------------------------
(***************************************************************************)
(* What stands before every request: admission control, which serves a     *)
(* bounded number at a time and lets a bounded number wait for a bounded   *)
(* time, and the velocity rules, which count what one user does in Redis   *)
(* and may refuse it.                                                      *)
(*                                                                         *)
(* The slots are a Go channel with a buffer: a request that sends while    *)
(* the buffer is full waits in line, and whoever gives a slot back hands   *)
(* it to the head of the line.                                             *)
(***************************************************************************)
EXTENDS Integers, Sequences, FiniteSets, Functions

CONSTANTS
    Requests,
    SubjectOf,      \* what each request is about: its kind, amount and new recipient
    Threshold,      \* of each velocity rule
    Modes,          \* what velocity_rules holds, of some rules
    Reporting,      \* ReportingThreshold
    InFlight,       \* slots
    Queue           \* how many may wait

ASSUME FiniteRequests == IsFiniteSet(Requests)
ASSUME LimitsAreNatural == InFlight \in Nat \ {0} /\ Queue \in Nat /\ Reporting \in Nat
ASSUME SubjectsAreSubjects ==
    SubjectOf \in [Requests -> [kind : {"payment", "transfer", "topup", "withdrawal", "bill_payment"},
                                amount : Nat \ {0}, newRecipient : BOOLEAN]]

----
(* velocity.DefaultRules and Store.Load *)

DefaultRules == <<
    [code |-> "VR-02", metric |-> "count", action |-> "flag", mode |-> "monitor"],
    [code |-> "VR-03", metric |-> "count", action |-> "freeze", mode |-> "active"],
    [code |-> "VR-05", metric |-> "count", action |-> "freeze", mode |-> "active"],
    [code |-> "VR-07", metric |-> "count", action |-> "hold_withdrawal", mode |-> "active"],
    [code |-> "VR-08", metric |-> "sum", action |-> "require_otp", mode |-> "active"]>>

RuleIds == DOMAIN DefaultRules

ASSUME ThresholdsAndModes ==
    /\ Threshold \in [RuleIds -> Nat \ {0}]
    /\ \A code \in DOMAIN Modes : Modes[code] \in {"monitor", "active", "disabled"}

\* The mode is the table's.
Rules ==
    [i \in RuleIds |->
        LET rule == DefaultRules[i]
        IN  [rule EXCEPT !.mode = IF rule.code \in DOMAIN Modes THEN Modes[rule.code] ELSE @]]

Outbound(s) == s.kind \in {"payment", "transfer", "withdrawal", "bill_payment"}

\* Nobody says that a device or a bank is new, so VR-02 is never triggered.
Triggers(i, s) ==
    CASE Rules[i].code = "VR-02" -> FALSE
      [] Rules[i].code = "VR-03" -> s.kind = "transfer" /\ s.newRecipient
      [] Rules[i].code = "VR-05" -> Outbound(s) /\ s.amount >= (Reporting * 90) \div 100 /\ s.amount < Reporting
      [] Rules[i].code = "VR-07" -> s.kind = "topup"
      [] Rules[i].code = "VR-08" -> Outbound(s)

Checks(i, s) == IF Rules[i].code = "VR-07" THEN s.kind = "withdrawal" ELSE Triggers(i, s)

Active(i) == Rules[i].mode = "active"

\* The next rule that asks Redis.
From(i, s) ==
    LET asking == {j \in RuleIds : j >= i /\ Rules[j].mode # "disabled" /\ (Triggers(j, s) \/ Checks(j, s))}
    IN  IF asking = {} THEN Len(Rules) + 1 ELSE CHOOSE j \in asking : \A k \in asking : j <= k

VARIABLES
    used,       \* the slots that are taken: len(l.slots)
    line,       \* the requests that wait to send to the channel, in order
    queued,     \* the counter of that name
    counter,    \* of each rule, 0 when its key is absent
    pc,
    at,         \* the rule each request is at
    decision,   \* the strongest action so far
    gone,       \* requests whose client has gone away
    answer,     \* none, shed, abandoned, refused, failed or served
    counted,    \* history: the rules that still count a request, unless it was not served
    barred      \* history: the rules that had no room for a request when it came, unless it was not served

limiterVars == <<used, line, queued>>
ruleVars    == <<counter, at, decision, counted, barred>>
vars == <<limiterVars, ruleVars, pc, gone, answer>>

----
(* Limiter.Middleware *)

\* A slot at once, or a place in the queue.
Arrive(r) ==
    /\ pc[r] = "new"
    /\ IF used < InFlight
       THEN used' = used + 1 /\ pc' = [pc EXCEPT ![r] = "rules"]
       ELSE pc' = [pc EXCEPT ![r] = "full"] /\ UNCHANGED used
    /\ barred' = [barred EXCEPT ![r] = {i \in RuleIds : Checks(i, SubjectOf[r]) /\ counter[i] >= Threshold[i]}]
    /\ UNCHANGED <<line, queued, counter, at, decision, counted, gone, answer>>

Full == queued + 1 > Queue

\* The counter may be above the limit while those it turns away have not left yet.
Count(r) ==
    /\ pc[r] = "full"
    /\ queued' = queued + 1
    /\ IF Full
       THEN pc' = [pc EXCEPT ![r] = "leave"] /\ answer' = [answer EXCEPT ![r] = "shed"]
       ELSE pc' = [pc EXCEPT ![r] = "select"] /\ UNCHANGED answer
    /\ UNCHANGED <<used, line, ruleVars, gone>>

Select(r) ==
    /\ pc[r] = "select"
    /\ IF used < InFlight
       THEN used' = used + 1 /\ pc' = [pc EXCEPT ![r] = "sent"] /\ UNCHANGED line
       ELSE line' = Append(line, r) /\ pc' = [pc EXCEPT ![r] = "waiting"] /\ UNCHANGED used
    /\ UNCHANGED <<queued, ruleVars, gone, answer>>

\* The slot that r gives back, and the program counters q that follow from it.
GiveBack(q) ==
    IF line = <<>>
    THEN used' = used - 1 /\ pc' = q /\ UNCHANGED line
    ELSE line' = Tail(line) /\ pc' = [q EXCEPT ![Head(line)] = "sent"] /\ UNCHANGED used

\* Faulty variant: a client that has gone leaves its slot taken.
AbandonedKeeps(r) == pc' = [pc EXCEPT ![r] = "done"] /\ UNCHANGED <<used, line>>

\* The deferred receive of a request that is not served any more.
Abandoned(r) == GiveBack([pc EXCEPT ![r] = "done"])

\* A request that has waited has its slot.
Admit(r) ==
    /\ pc[r] = "sent"
    /\ queued' = queued - 1
    /\ IF r \in gone
       THEN Abandoned(r) /\ answer' = [answer EXCEPT ![r] = "abandoned"]
       ELSE pc' = [pc EXCEPT ![r] = "rules"] /\ UNCHANGED <<used, line, answer>>
    /\ UNCHANGED <<ruleVars, gone>>

\* Faulty variant: only a client that has gone ends the wait.
MayStopNever(r) == r \in gone

\* The timer of MaxWait, or the end of the context.
MayStop(r) == TRUE

StopWaiting(r) ==
    /\ pc[r] = "waiting"
    /\ MayStop(r)
    /\ \E i \in DOMAIN line :
          line[i] = r /\ line' = SubSeq(line, 1, i - 1) \o SubSeq(line, i + 1, Len(line))
    /\ pc' = [pc EXCEPT ![r] = "leave"]
    /\ \/ answer' = [answer EXCEPT ![r] = "shed"]
       \/ r \in gone /\ answer' = [answer EXCEPT ![r] = "abandoned"]
    /\ UNCHANGED <<used, queued, ruleVars, gone>>

Leave(r) ==
    /\ pc[r] = "leave"
    /\ queued' = queued - 1
    /\ pc' = [pc EXCEPT ![r] = "done"]
    /\ UNCHANGED <<used, line, ruleVars, gone, answer>>

\* A client goes away: noticed while it waits, or once it has its slot.
HangUp(r) ==
    /\ pc[r] \in {"waiting", "sent"}
    /\ r \notin gone
    /\ gone' = gone \cup {r}
    /\ UNCHANGED <<limiterVars, ruleVars, pc, answer>>

----
(* Guard.Check and Engine.Evaluate *)

Severity == [allow |-> 0, flag |-> 1, require_otp |-> 2, hold_withdrawal |-> 3, freeze |-> 4]

Delta(i, s) == IF Rules[i].metric = "sum" THEN s.amount ELSE 1

Stronger(i, d) == Severity[Rules[i].action] > Severity[d]

\* Faulty variant: the limit itself is let pass.
TripsLate(i, observed) == observed > Threshold[i]

Trips(i, observed) == observed >= Threshold[i]

\* One rule, by one INCRBY or GET.  A request that will be refused has been counted by
\* then.  A rule that only adds does not act, nor one that is not active.
Observe(r) ==
    LET i == at[r]
        s == SubjectOf[r]
        adds == Triggers(i, s)
        observed == IF adds THEN counter[i] + Delta(i, s) ELSE counter[i]
        acts == Active(i) /\ Checks(i, s) /\ Trips(i, observed) /\ Stronger(i, decision[r])
    IN
    /\ pc[r] = "rules" /\ i \in RuleIds
    /\ counter' = [counter EXCEPT ![i] = observed]
    /\ counted' = IF adds THEN [counted EXCEPT ![r] = @ \cup {i}] ELSE counted
    /\ decision' = [decision EXCEPT ![r] = IF acts THEN Rules[i].action ELSE @]
    /\ at' = [at EXCEPT ![r] = From(i + 1, s)]
    /\ UNCHANGED <<limiterVars, pc, gone, answer, barred>>

\* The key of a rule expires.
WindowEnds(i) ==
    /\ counter[i] > 0
    /\ counter' = [counter EXCEPT ![i] = 0]
    /\ counted' = [r \in Requests |-> counted[r] \ {i}]
    /\ barred' = [r \in Requests |-> barred[r] \ {i}]
    /\ UNCHANGED <<limiterVars, at, decision, pc, gone, answer>>

\* Flag does not refuse.
Refuses(action) == Severity[action] >= Severity["require_otp"]

\* The handler ends, and the slot is given back also when it panics: after a rule or
\* Redis has refused, or after the work.
Finish(r) ==
    /\ pc[r] = "rules"
    /\ \/ /\ at[r] \in RuleIds
          /\ answer' = [answer EXCEPT ![r] = "failed"]
       \/ /\ at[r] \notin RuleIds
          /\ answer' = [answer EXCEPT ![r] = IF Refuses(decision[r]) THEN "refused" ELSE "served"]
    /\ GiveBack([pc EXCEPT ![r] = "done"])
    /\ at' = [at EXCEPT ![r] = From(1, SubjectOf[r])]
    /\ decision' = [decision EXCEPT ![r] = "allow"]
    /\ counted' = [counted EXCEPT ![r] = IF answer'[r] = "served" THEN @ ELSE {}]
    /\ barred' = [barred EXCEPT ![r] = IF answer'[r] = "served" THEN @ ELSE {}]
    /\ UNCHANGED <<queued, counter, gone>>

----
Init ==
    /\ used = 0 /\ line = <<>> /\ queued = 0
    /\ counter = [i \in RuleIds |-> 0]
    /\ pc = [r \in Requests |-> "new"]
    /\ at = [r \in Requests |-> From(1, SubjectOf[r])]
    /\ decision = [r \in Requests |-> "allow"]
    /\ gone = {}
    /\ answer = [r \in Requests |-> "none"]
    /\ counted = [r \in Requests |-> {}]
    /\ barred = [r \in Requests |-> {}]

Next ==
    \/ \E r \in Requests :
          \/ Arrive(r) \/ Count(r) \/ Select(r) \/ Admit(r) \/ StopWaiting(r) \/ Leave(r) \/ HangUp(r)
          \/ Observe(r) \/ Finish(r)
    \/ \E i \in RuleIds : WindowEnds(i)

\* The timer fires.  Nothing says that a handler ends.
Spec == Init /\ [][Next]_vars /\ \A r \in Requests : WF_vars(StopWaiting(r))

----
(* Properties *)

Slots == {r \in Requests : pc[r] \in {"sent", "rules"}}

TypeOK ==
    /\ used \in 0..InFlight /\ queued \in Nat
    /\ line \in Seq(Requests) /\ Len(line) <= Queue
    /\ counter \in [RuleIds -> Nat]
    /\ at \in [Requests -> 1..(Len(Rules) + 1)]
    /\ decision \in [Requests -> DOMAIN Severity]
    /\ counted \in [Requests -> SUBSET RuleIds] /\ barred \in [Requests -> SUBSET RuleIds]

\* A slot is taken exactly while a request has it, whichever way out it takes; nobody
\* waits while a slot is free, and no more wait than the queue has places.
SlotsComeBack ==
    /\ used = Cardinality(Slots) /\ used <= InFlight
    /\ queued = Cardinality({r \in Requests : pc[r] \in {"select", "waiting", "sent", "leave"}})
    /\ line # <<>> => used = InFlight
    /\ Len(line) <= Queue

\* What requests add to the counter of a rule.
Added(i, S) == SumFunctionOnSet([r \in Requests |-> Delta(i, SubjectOf[r])], S)

\* In one window, what an active rule lets pass stays below its threshold, however the
\* requests interleave; and a request that comes when the threshold has been reached, by
\* requests of another kind, too, is not served, whatever weaker rule comes after.
RulesHold ==
    \A i \in {j \in RuleIds : Active(j) /\ Refuses(Rules[j].action)} :
        /\ Added(i, {r \in Requests : answer[r] = "served" /\ i \in counted[r] /\ Checks(i, SubjectOf[r])})
              < Threshold[i]
        /\ \A r \in Requests : answer[r] = "served" => i \notin barred[r]

\* A request does not wait for ever, even if no handler ever ends.
WaitingEnds == \A r \in Requests : pc[r] = "waiting" ~> pc[r] # "waiting"
=============================================================================
