---------------------------- MODULE PayoutsProofs ----------------------------
(***************************************************************************)
(* For any payouts, runs, merchants and days: the types of Payouts, that    *)
(* rows say what the bank did, that settlements made one after the other   *)
(* keep to the float's thresholds, and that a payout is paid twice only    *)
(* when it was in doubt.                                                   *)
(***************************************************************************)
EXTENDS Payouts, FiniteSetTheorems, TLAPS

----
(* The inductive invariant *)

\* What the step a settlement has come to says of its payout.
SettleProgress(s) ==
    /\ pc[s] \in {"decide", "send", "begin", "commit"} \cup Ended
    /\ pc[s] \in Working => status[s] = "none"
    /\ pc[s] \in {"decide", "send", "begin"} => created[s] = 0
    /\ pc[s] = "commit" => created[s] # 0
    /\ pc[s] = "decide" => mode[s] = "none"
    /\ pc[s] \in {"decide", "send"} => verdict[s] = "none"
    /\ pc[s] = "send" => mode[s] = "instant"
    /\ pc[s] \in {"begin", "commit"} => mode[s] \in {"instant", "batch"} /\ verdict[s] # "none"
    /\ pc[s] = "done" => status[s] # "none"
    /\ pc[s] \in {"begin", "commit"} /\ mode[s] = "batch" => verdict[s] = "degraded_to_batch"
    /\ mode[s] = "instant" => verdict[s] # "degraded_to_batch"
    /\ status[s] # "none" => created[s] # 0 /\ mode[s] \in {"instant", "batch"}
    /\ mode[s] = "batch" => status[s] \in {"none", "degraded_to_batch", "settled"}
    /\ mode[s] = "instant" => status[s] \in {"none", verdict[s]}
    /\ s \in posted <=> mode[s] = "instant" /\ status[s] \in {"sending", "settled"}

\* What the bank did with a payout sent at once, and what its verdict says of it.
SentProgress(s) ==
    /\ \A m \in Merchants : <<s, m>> \in bank => m = Merchant(s) /\ mode[s] = "instant"
    /\ <<s, Merchant(s)>> \in bank => pc[s] \notin {"decide", "send"} /\ verdict[s] \in {"sending", "settled"}
    /\ mode[s] = "instant" /\ verdict[s] = "settled" => <<s, Merchant(s)>> \in bank

\* What the step a run has come to says of what it has read and sent.
RunProgress(r) ==
    /\ pc[r] \in {"group", "sendBatch", "persistBatch"} \cup Ended
    /\ pc[r] = "group" => \A m \in Merchants : group[r][m] = {} /\ told[r][m] = "none" /\ <<r, m>> \notin bank
    /\ pc[r] = "persistBatch" => verdict[r] # "none"
    /\ pc[r] = "persistBatch" /\ verdict[r] = "settled" =>
          \A m \in Merchants : IsNext(r, m) => <<r, m>> \in bank
    /\ \A m \in Merchants : told[r][m] = "settled" => <<r, m>> \in bank

\* What a run reads are rows that waited, of calls that had ended.
GroupProgress(r) ==
    \A m \in Merchants : \A s \in group[r][m] :
        /\ Merchant(s) = m /\ created[s] = input[r].day
        /\ mode[s] = "batch" /\ status[s] \in {"degraded_to_batch", "settled"}

ProgressInv ==
    /\ \A s \in Settlements : SettleProgress(s) /\ SentProgress(s)
    /\ \A r \in Runs : RunProgress(r) /\ GroupProgress(r)

BeforeInv ==
    /\ \A a \in Actors : \A b \in before[a] : pc[b] \in Ended
    /\ \A r \in Runs : pc[r] = "group" => before[r] = {}
    /\ \A s \in Settlements : before[s] \subseteq Settlements

\* A run has read all that waited of the calls that had ended.
ReadAllInv ==
    \A r \in Runs : \A m \in Merchants, s \in Settlements :
        s \in before[r] /\ s \in Waiting(m, input[r].day) => s \in group[r][m]

\* Runs and the payouts they settle.
SettledInv ==
    /\ \A q \in Runs, m \in Merchants : told[q][m] = "settled" =>
          \A s \in group[q][m] : status[s] = "settled"
    /\ \A q, r \in Runs, m \in Merchants : q \in before[r] /\ told[q][m] = "settled" =>
          group[q][m] \cap group[r][m] = {}
    /\ \A r \in Runs, m \in Merchants : \A s \in group[r][m] : status[s] = "settled" =>
          \E q \in Runs :
              /\ <<q, m>> \in bank /\ told[q][m] = "settled"
              /\ input[q].day = input[r].day /\ q \notin before[r]

\* The batch of m and day d is what run r has read and what it returns.
Wrote(r, m, d) == batch[m][d] = [status |-> told[r][m], payouts |-> group[r][m]]

\* The batch of a day is what the last run to write it has read: no run that came later
\* has written another.
BatchInv ==
    \A m \in Merchants, d \in 1..LastDay : batch[m][d].status # "none" =>
        \E r \in Runs :
            /\ input[r].day = d /\ pc[r] # "group" /\ Wrote(r, m, d)
            /\ \A q \in Runs : input[q].day = d /\ told[q][m] # "none" => r \notin before[q]

FloatInv ==
    \A s \in Settlements : mode[s] = "instant" =>
        Instant(Utilisation(Sum((posted \cap before[s]) \ old)), input[s].bps)

\* What is settled has been sent, or was not there to be read.
SentInv ==
    \A s \in Settlements : status[s] = "settled" =>
        \E x \in bank : \/ Pays(x, s)
                        \/ /\ x[1] \in Runs /\ x[2] = Merchant(s)
                           /\ input[x[1]].day = created[s] /\ s \notin before[x[1]]

IInv ==
    /\ TypeOK
    /\ ProgressInv
    /\ BeforeInv
    /\ ReadAllInv
    /\ SentInv
    /\ SettledInv
    /\ BatchInv
    /\ FloatInv

----
(* Types *)

LEMMA InputTypes ==
    ASSUME TypeOK
    PROVE  /\ \A s \in Settlements :
                 /\ input[s].kind = "settle" /\ Merchant(s) \in Merchants
                 /\ input[s].gross \in 1..MaxGross /\ input[s].bps \in Bps
           /\ \A r \in Runs : input[r].day \in 1..LastDay
<1>1. /\ input \in [Actors -> Input]
      /\ \A a \in Actors : input[a].kind = IF a \in Settlements THEN "settle" ELSE "run"
  BY LoadsAreInputs DEF TypeOK
<1>2. \A s \in Settlements : s \in Actors /\ input[s] \in Input /\ input[s].kind = "settle"
  BY <1>1 DEF Actors
<1>3. \A r \in Runs : r \in Actors /\ input[r] \in Input /\ input[r].kind = "run"
  BY <1>1, RunsSettleNothing DEF Actors
<1>4. \A i \in Input : i.kind = "settle" =>
           i.merchant \in Merchants /\ i.gross \in 1..MaxGross /\ i.bps \in Bps
  BY DEF Input
<1>5. \A i \in Input : i.kind = "run" => i.day \in 1..LastDay
  BY DEF Input
<1>6. ASSUME NEW s \in Settlements
      PROVE  /\ input[s].kind = "settle" /\ Merchant(s) \in Merchants
             /\ input[s].gross \in 1..MaxGross /\ input[s].bps \in Bps
  <2>1. input[s] \in Input /\ input[s].kind = "settle"
    BY <1>2
  <2>2. input[s].merchant \in Merchants /\ input[s].gross \in 1..MaxGross /\ input[s].bps \in Bps
    BY <2>1, <1>4, Zenon
  <2>3. Merchant(s) = input[s].merchant
    BY DEF Merchant
  <2> QED
    BY <2>1, <2>2, <2>3, Zenon
<1>7. ASSUME NEW r \in Runs PROVE input[r].day \in 1..LastDay
  BY <1>3, <1>5, Zenon
<1> QED
  BY <1>6, <1>7, Zenon

LEMMA VerdictTypes ==
    \A o \in Outcomes : Verdict[o.error] \in {"sending", "settled", "failed"}
BY DEF Outcomes, Verdict

LEMMA TypeInit == Init => TypeOK
<1> SUFFICES ASSUME Init PROVE TypeOK
  OBVIOUS
<1>1. batch \in [Merchants -> [1..LastDay ->
         [status : {"none", "sending", "settled", "failed"}, payouts : SUBSET Settlements]]]
  BY DEF Init
<1> QED
  BY <1>1, LastDayIsDay DEF Init, TypeOK, Working, Ended, Actors

LEMMA MoveType ==
    ASSUME TypeOK, NEW a \in Actors, NEW p \in Working \cup Ended, Move(a, p)
    PROVE  pc' \in [Actors -> Working \cup Ended]
BY DEF TypeOK, Move

LEMMA VerdictType ==
    ASSUME TypeOK, NEW a \in Actors, NEW v \in {"none", "sending", "settled", "failed", "degraded_to_batch"},
           a \in Runs => v # "degraded_to_batch", verdict' = [verdict EXCEPT ![a] = v]
    PROVE  /\ verdict' \in [Actors -> {"none", "sending", "settled", "failed", "degraded_to_batch"}]
           /\ \A r \in Runs : verdict'[r] # "degraded_to_batch"
<1>1. \A b \in Actors : verdict'[b] = IF b = a THEN v ELSE verdict[b]
  BY DEF TypeOK
<1> QED
  BY <1>1 DEF TypeOK, Actors

LEMMA TypeStep == TypeOK /\ [Next]_vars => TypeOK'
<1> SUFFICES ASSUME TypeOK, [Next]_vars PROVE TypeOK'
  OBVIOUS
<1>a. Settlements \subseteq Actors /\ Runs \subseteq Actors
  BY DEF Actors
<1>1. ASSUME NEW s \in Settlements, Decide(s) PROVE TypeOK'
  <2>0. before' = before \/ before' = [before EXCEPT ![s] = {b \in Settlements : pc[b] \in Ended}]
    BY <1>1 DEF Decide, Reading
  <2>1. before' \in [Actors -> SUBSET Actors]
    BY <2>0, <1>a DEF TypeOK
  <2>2. mode' \in [Settlements -> {"none", "instant", "batch"}]
    BY <1>1 DEF TypeOK, Decide
  <2>3. verdict' = verdict \/ verdict' = [verdict EXCEPT ![s] = "degraded_to_batch"]
    BY <1>1 DEF Decide
  <2>4. /\ verdict' \in [Actors -> {"none", "sending", "settled", "failed", "degraded_to_batch"}]
        /\ \A r \in Runs : verdict'[r] # "degraded_to_batch"
    <3>1. CASE verdict' = verdict
      BY <3>1 DEF TypeOK
    <3>2. CASE verdict' = [verdict EXCEPT ![s] = "degraded_to_batch"]
      BY <3>2, <1>a, RunsSettleNothing, VerdictType
    <3> QED
      BY <2>3, <3>1, <3>2
  <2>5. Move(s, "send") \/ Move(s, "begin")
    BY <1>1 DEF Decide
  <2>6. pc' \in [Actors -> Working \cup Ended]
    BY <2>5, <1>a, MoveType DEF Working
  <2>7. UNCHANGED <<input, today, status, old, bank, created, posted, group, batch, told>>
    BY <1>1 DEF Decide, runVars
  <2> QED
    BY <2>1, <2>2, <2>4, <2>6, <2>7 DEF TypeOK
<1>2. ASSUME NEW s \in Settlements, Send(s) PROVE TypeOK'
  <2>1. PICK o \in Outcomes :
           /\ bank' = IF o.moved THEN bank \cup {<<s, Merchant(s)>>} ELSE bank
           /\ verdict' = [verdict EXCEPT ![s] = Verdict[o.error]]
    BY <1>2 DEF Send, Transfer
  <2>2. Verdict[o.error] \in {"sending", "settled", "failed"}
    BY VerdictTypes
  <2>3. bank' \subseteq Actors \X Merchants
    <3>1. s \in Actors /\ Merchant(s) \in Merchants /\ bank \subseteq Actors \X Merchants
      <4>1. Merchant(s) \in Merchants
        BY InputTypes, Zenon
      <4> QED
        BY <4>1, <1>a DEF TypeOK
    <3>2. bank' = bank \/ bank' = bank \cup {<<s, Merchant(s)>>}
      BY <2>1, Zenon
    <3> QED
      BY <3>1, <3>2
  <2>4. /\ verdict' \in [Actors -> {"none", "sending", "settled", "failed", "degraded_to_batch"}]
        /\ \A r \in Runs : verdict'[r] # "degraded_to_batch"
    BY <2>1, <2>2, <1>a, VerdictType
  <2>5. pc' \in [Actors -> Working \cup Ended]
    BY <1>2, <1>a, MoveType DEF Send, Working
  <2>6. UNCHANGED <<input, today, status, old, before, mode, created, posted, group, batch, told>>
    BY <1>2 DEF Send, settleVars, runVars
  <2> QED
    BY <2>3, <2>4, <2>5, <2>6 DEF TypeOK
<1>3. ASSUME NEW s \in Settlements, Begin(s) PROVE TypeOK'
  <2>1. pc' \in [Actors -> Working \cup Ended]
    BY <1>3, <1>a, MoveType DEF Begin, Working
  <2>2. created' \in [Settlements -> 0..LastDay]
    BY <1>3, LastDayIsDay DEF TypeOK, Begin
  <2> QED
    BY <1>3, <2>1, <2>2 DEF TypeOK, Begin, runVars
<1>4. ASSUME NEW s \in Settlements, Commit(s) PROVE TypeOK'
  <2>1. Move(s, "done") \/ Move(s, "unknown")
    BY <1>4 DEF Commit, Committed
  <2>2. pc' \in [Actors -> Working \cup Ended]
    BY <2>1, <1>a, MoveType DEF Ended
  <2>3. status' \in [Settlements -> {"none", "sending", "settled", "failed", "degraded_to_batch"}]
    BY <1>4, <1>a DEF TypeOK, Commit
  <2>4. posted' \subseteq Settlements
    BY <1>4 DEF TypeOK, Commit
  <2> QED
    BY <1>4, <2>2, <2>3, <2>4 DEF TypeOK, Commit, runVars
<1>5. ASSUME NEW r \in Runs, Group(r) PROVE TypeOK'
  <2>1. pc' \in [Actors -> Working \cup Ended]
    BY <1>5, <1>a, MoveType DEF Group, Working, Ended
  <2>2. group' \in [Runs -> [Merchants -> SUBSET Settlements]]
    BY <1>5 DEF TypeOK, Group, Waiting
  <2>3. before' \in [Actors -> SUBSET Actors]
    BY <1>5, <1>a DEF TypeOK, Group, Reading
  <2> QED
    BY <1>5, <2>1, <2>2, <2>3 DEF TypeOK, Group, settleVars
<1>6. ASSUME NEW r \in Runs, SendBatch(r) PROVE TypeOK'
  <2>1. bank' \subseteq Actors \X Merchants
    BY <1>6, <1>a DEF TypeOK, SendBatch, Transfer
  <2>2. PICK v \in {"sending", "settled", "failed"} : verdict' = [verdict EXCEPT ![r] = v]
    BY <1>6, VerdictTypes DEF SendBatch, Transfer
  <2>3. /\ verdict' \in [Actors -> {"none", "sending", "settled", "failed", "degraded_to_batch"}]
        /\ \A q \in Runs : verdict'[q] # "degraded_to_batch"
    BY <2>2, <1>a, VerdictType
  <2>4. pc' \in [Actors -> Working \cup Ended]
    BY <1>6, <1>a, MoveType DEF SendBatch, Working
  <2>5. UNCHANGED <<input, today, status, old, before, mode, created, posted, group, batch, told>>
    BY <1>6 DEF SendBatch, settleVars, runVars
  <2> QED
    BY <2>1, <2>3, <2>4, <2>5 DEF TypeOK
<1>7. ASSUME NEW r \in Runs, PersistBatch(r) PROVE TypeOK'
  <2>1. status' \in [Settlements -> {"none", "sending", "settled", "failed", "degraded_to_batch"}]
    BY <1>7 DEF TypeOK, PersistBatch, MarkSettled
  <2>2. Move(r, "done") \/ Move(r, "sendBatch") \/ Move(r, "unknown")
    BY <1>7 DEF PersistBatch, Committed
  <2>3. pc' \in [Actors -> Working \cup Ended]
    BY <2>2, <1>a, MoveType DEF Working, Ended
  <2>4. verdict[r] \in {"none", "sending", "settled", "failed"} /\ group[r] \in [Merchants -> SUBSET Settlements]
    BY <1>a DEF TypeOK
  <2>5. batch' \in [Merchants -> [1..LastDay ->
           [status : {"none", "sending", "settled", "failed"}, payouts : SUBSET Settlements]]]
    <3>1. CASE batch' = batch
      BY <3>1 DEF TypeOK
    <3>2. ASSUME NEW m \in Merchants,
                 batch' = [batch EXCEPT ![m][input[r].day] = [status |-> verdict[r], payouts |-> group[r][m]]]
          PROVE  batch' \in [Merchants -> [1..LastDay ->
                   [status : {"none", "sending", "settled", "failed"}, payouts : SUBSET Settlements]]]
      <4> DEFINE Batch == [status : {"none", "sending", "settled", "failed"}, payouts : SUBSET Settlements]
                 new   == [status |-> verdict[r], payouts |-> group[r][m]]
      <4>1. new \in Batch
        BY <2>4
      <4>2. batch \in [Merchants -> [1..LastDay -> Batch]]
        BY DEF TypeOK
      <4>3. batch' = [batch EXCEPT ![m][input[r].day] = new]
        BY <3>2
      <4> HIDE DEF Batch, new
      <4>4. batch' \in [Merchants -> [1..LastDay -> Batch]]
        BY <4>1, <4>2, <4>3
      <4> QED
        BY <4>4 DEF Batch
    <3> QED
      BY <1>7, <3>1, <3>2 DEF PersistBatch
  <2>6. told' \in [Runs -> [Merchants -> {"none", "sending", "settled", "failed"}]]
    <3>1. told' = told \/ \E m \in Merchants : told' = [told EXCEPT ![r][m] = verdict[r]]
      BY <1>7 DEF PersistBatch
    <3>2. ASSUME NEW m \in Merchants, told' = [told EXCEPT ![r][m] = verdict[r]]
          PROVE  told' \in [Runs -> [Merchants -> {"none", "sending", "settled", "failed"}]]
      BY <2>4, <3>2 DEF TypeOK
    <3> QED
      BY <3>1, <3>2 DEF TypeOK
  <2>7. UNCHANGED <<input, today, verdict, old, bank, before, mode, created, posted, group>>
    BY <1>7 DEF PersistBatch, settleVars
  <2> QED
    BY <2>1, <2>3, <2>5, <2>6, <2>7 DEF TypeOK
<1>8. ASSUME NEW a \in Actors, Die(a) PROVE TypeOK'
  <2>1. pc' \in [Actors -> Working \cup Ended]
    BY <1>8, MoveType DEF Die, Ended
  <2> QED
    BY <1>8, <2>1 DEF TypeOK, Die, settleVars, runVars
<1>9. ASSUME NEW s \in Settlements, Age(s) PROVE TypeOK'
  BY <1>9 DEF TypeOK, Age, settleVars, runVars
<1>10. CASE NextDay
  BY <1>10, LastDayIsDay DEF TypeOK, NextDay, settleVars, runVars
<1>11. CASE UNCHANGED vars
  BY <1>11 DEF TypeOK, vars, settleVars, runVars
<1> QED
  BY <1>1, <1>2, <1>3, <1>4, <1>5, <1>6, <1>7, <1>8, <1>9, <1>10, <1>11 DEF Next, Settle, RunBatch

\* Every reachable state is well typed: no call writes "queued", and no batch waits.
THEOREM TypeCorrect == Spec => []TypeOK
BY TypeInit, TypeStep, PTL DEF Spec

----
(* What each step changes *)

LEMMA ActorsDiffer ==
    /\ \A s \in Settlements : s \in Actors /\ s \notin Runs
    /\ \A r \in Runs : r \in Actors /\ r \notin Settlements
BY RunsSettleNothing DEF Actors

LEMMA DecideEffect ==
    ASSUME NEW s \in Settlements, Decide(s)
    PROVE  /\ pc[s] = "decide"
           /\ UNCHANGED <<input, today, status, old, bank, created, posted, group, batch, told>>
           /\ \/ /\ mode' = [mode EXCEPT ![s] = "instant"] /\ pc' = [pc EXCEPT ![s] = "send"]
                 /\ Reading(s, Settlements) /\ verdict' = verdict
                 /\ Instant(Utilisation(Sum({q \in Settlements : OnFloat(q)})), input[s].bps)
              \/ /\ mode' = [mode EXCEPT ![s] = "batch"] /\ pc' = [pc EXCEPT ![s] = "begin"]
                 /\ verdict' = [verdict EXCEPT ![s] = "degraded_to_batch"] /\ before' = before
BY DEF Decide, Move, runVars

LEMMA SendEffect ==
    ASSUME NEW s \in Settlements, Send(s)
    PROVE  /\ pc[s] = "send" /\ pc' = [pc EXCEPT ![s] = "begin"]
           /\ UNCHANGED <<input, today, status, old, before, mode, created, posted, group, batch, told>>
           /\ \E v \in {"settled", "sending", "failed"} :
                 /\ verdict' = [verdict EXCEPT ![s] = v]
                 /\ \/ v # "failed" /\ bank' = bank \cup {<<s, Merchant(s)>>}
                    \/ v # "settled" /\ bank' = bank
<1>1. PICK o \in Outcomes :
         /\ bank' = IF o.moved THEN bank \cup {<<s, Merchant(s)>>} ELSE bank
         /\ verdict' = [verdict EXCEPT ![s] = Verdict[o.error]]
  BY DEF Send, Transfer
<1>2. \/ o.moved = TRUE /\ Verdict[o.error] \in {"settled", "sending"}
      \/ o.moved = FALSE /\ Verdict[o.error] \in {"sending", "failed"}
  BY DEF Outcomes, Verdict
<1>3. \E v \in {"settled", "sending", "failed"} :
         /\ verdict' = [verdict EXCEPT ![s] = v]
         /\ \/ v # "failed" /\ bank' = bank \cup {<<s, Merchant(s)>>}
            \/ v # "settled" /\ bank' = bank
  BY <1>1, <1>2
<1> QED
  BY <1>3 DEF Send, Move, settleVars, runVars

LEMMA SendBatchEffect ==
    ASSUME NEW r \in Runs, SendBatch(r)
    PROVE  /\ pc[r] = "sendBatch" /\ pc' = [pc EXCEPT ![r] = "persistBatch"]
           /\ UNCHANGED <<input, today, status, old, before, mode, created, posted, group, batch, told>>
           /\ \E v \in {"settled", "sending", "failed"} :
                 /\ verdict' = [verdict EXCEPT ![r] = v]
                 /\ \/ v # "failed" /\ \E m \in Merchants : IsNext(r, m) /\ bank' = bank \cup {<<r, m>>}
                    \/ v # "settled" /\ bank' = bank
<1>1. ASSUME NEW o \in Outcomes
      PROVE  \/ o.moved = TRUE /\ Verdict[o.error] \in {"settled", "sending"}
             \/ o.moved = FALSE /\ Verdict[o.error] \in {"sending", "failed"}
  BY DEF Outcomes, Verdict
<1>2. \E v \in {"settled", "sending", "failed"} :
         /\ verdict' = [verdict EXCEPT ![r] = v]
         /\ \/ v # "failed" /\ \E m \in Merchants : IsNext(r, m) /\ bank' = bank \cup {<<r, m>>}
            \/ v # "settled" /\ bank' = bank
  <2>1. CASE \E m \in Merchants : IsNext(r, m) /\ Transfer(r, m)
    <3>1. PICK m \in Merchants, o \in Outcomes :
             /\ IsNext(r, m)
             /\ bank' = IF o.moved THEN bank \cup {<<r, m>>} ELSE bank
             /\ verdict' = [verdict EXCEPT ![r] = Verdict[o.error]]
      BY <2>1 DEF Transfer
    <3>2. \/ o.moved = TRUE /\ Verdict[o.error] \in {"settled", "sending"}
          \/ o.moved = FALSE /\ Verdict[o.error] \in {"sending", "failed"}
      BY <1>1
    <3> QED
      BY <3>1, <3>2
  <2>2. CASE verdict' = [verdict EXCEPT ![r] = "failed"] /\ bank' = bank
    BY <2>2
  <2> QED
    BY <2>1, <2>2 DEF SendBatch
<1> QED
  BY <1>2 DEF SendBatch, Move, settleVars, runVars

LEMMA PersistBatchEffect ==
    ASSUME NEW r \in Runs, PersistBatch(r)
    PROVE  /\ pc[r] = "persistBatch"
           /\ \E p \in {"done", "sendBatch", "unknown"} : pc' = [pc EXCEPT ![r] = p]
           /\ UNCHANGED <<input, today, verdict, old, bank, before, mode, created, posted, group>>
           /\ \/ UNCHANGED <<status, batch, told>>
              \/ \E m \in Merchants :
                    /\ IsNext(r, m)
                    /\ batch' = [batch EXCEPT ![m][input[r].day] = [status |-> verdict[r], payouts |-> group[r][m]]]
                    /\ told' = [told EXCEPT ![r][m] = verdict[r]]
                    /\ \/ verdict[r] = "settled" /\ MarkSettled(m, input[r].day)
                       \/ verdict[r] # "settled" /\ status' = status
<1>1. pc' = [pc EXCEPT ![r] = "done"] \/ pc' = [pc EXCEPT ![r] = "sendBatch"] \/ pc' = [pc EXCEPT ![r] = "unknown"]
  BY DEF PersistBatch, Committed, Move
<1>2. \/ UNCHANGED <<status, batch, told>>
      \/ \E m \in Merchants :
            /\ IsNext(r, m)
            /\ batch' = [batch EXCEPT ![m][input[r].day] = [status |-> verdict[r], payouts |-> group[r][m]]]
            /\ told' = [told EXCEPT ![r][m] = verdict[r]]
            /\ \/ verdict[r] = "settled" /\ MarkSettled(m, input[r].day)
               \/ verdict[r] # "settled" /\ status' = status
  BY DEF PersistBatch, Settles
<1>3. pc[r] = "persistBatch" /\ UNCHANGED <<input, today, verdict, old, bank, before, mode, created, posted, group>>
  BY DEF PersistBatch, settleVars
<1> QED
  BY <1>1, <1>2, <1>3

LEMMA InputStays == [Next]_vars => input' = input
<1> SUFFICES ASSUME [Next]_vars PROVE input' = input
  OBVIOUS
<1>1. CASE \E s \in Settlements : Settle(s)
  BY <1>1 DEF Settle, Decide, Send, Begin, Commit
<1>2. CASE \E r \in Runs : RunBatch(r)
  BY <1>2 DEF RunBatch, Group, SendBatch, PersistBatch
<1>3. CASE (\E s \in Settlements : Age(s)) \/ (\E a \in Actors : Die(a)) \/ NextDay \/ UNCHANGED vars
  BY <1>3 DEF Age, Die, NextDay, vars
<1> QED
  BY <1>1, <1>2, <1>3 DEF Next

----
(* The step each call has come to *)

\* What a step that is not of settlement s leaves it.
SameRow(s) ==
    /\ UNCHANGED <<pc[s], verdict[s], mode[s], status[s], created[s]>>
    /\ s \in posted' <=> s \in posted
    /\ \A m \in Merchants : <<s, m>> \in bank' <=> <<s, m>> \in bank

LEMMA RowProgress ==
    ASSUME TypeOK, ProgressInv, input' = input, NEW s \in Settlements, SameRow(s)
    PROVE  SettleProgress(s)' /\ SentProgress(s)'
<1>1. SettleProgress(s) /\ SentProgress(s) /\ Merchant(s) \in Merchants
  BY InputTypes DEF ProgressInv
<1>2. SettleProgress(s)'
  BY <1>1 DEF SettleProgress, SameRow
<1>3. Merchant(s)' = Merchant(s)
  BY DEF Merchant
<1>4. SentProgress(s)'
  BY <1>1, <1>3 DEF SentProgress, SameRow
<1> QED
  BY <1>2, <1>4

\* What a step that is not of run r leaves it.
SameRun(r) ==
    /\ UNCHANGED <<pc[r], verdict[r], group[r], told[r]>>
    /\ \A m \in Merchants : <<r, m>> \in bank' <=> <<r, m>> \in bank

LEMMA RunsProgress ==
    ASSUME ProgressInv, NEW r \in Runs, SameRun(r)
    PROVE  RunProgress(r)'
<1>1. RunProgress(r)
  BY DEF ProgressInv
<1>2. \A m \in Merchants : IsNext(r, m)' <=> IsNext(r, m)
  BY DEF IsNext, Remaining, SameRun
<1> QED
  BY <1>1, <1>2 DEF RunProgress, SameRun

LEMMA GroupsProgress ==
    ASSUME ProgressInv, input' = input, NEW r \in Runs, group'[r] = group[r],
           \A s \in Settlements : status[s] # "none" =>
               /\ UNCHANGED <<created[s], mode[s]>>
               /\ status'[s] \in {status[s], "settled"},
           \A m \in Merchants : group[r][m] \subseteq Settlements
    PROVE  GroupProgress(r)'
<1>1. \A s \in Settlements : Merchant(s)' = Merchant(s)
  BY DEF Merchant
<1>2. GroupProgress(r)
  BY DEF ProgressInv
<1> QED
  BY <1>1, <1>2 DEF GroupProgress

LEMMA NextIsOne ==
    ASSUME NEW r \in Runs, NEW m \in Merchants, NEW n \in Merchants, IsNext(r, m), IsNext(r, n)
    PROVE  m = n
<1>1. m \in Nat /\ n \in Nat /\ m <= n /\ n <= m
  BY MerchantsAreNumbers DEF IsNext, Remaining
<1> QED
  BY <1>1

LEMMA ProgressInit == Init => ProgressInv
<1> SUFFICES ASSUME Init PROVE ProgressInv
  OBVIOUS
<1>1. \A s \in Settlements : SettleProgress(s) /\ SentProgress(s)
  BY ActorsDiffer DEF Init, SettleProgress, SentProgress, Working, Ended
<1>2. \A r \in Runs : RunProgress(r) /\ GroupProgress(r)
  BY ActorsDiffer DEF Init, RunProgress, GroupProgress, Ended
<1> QED
  BY <1>1, <1>2 DEF ProgressInv

LEMMA ProgressStep == TypeOK /\ ProgressInv /\ [Next]_vars => ProgressInv'
<1> SUFFICES ASSUME TypeOK, ProgressInv, [Next]_vars PROVE ProgressInv'
  OBVIOUS
<1>a. input' = input
  BY InputStays
<1>b. /\ \A s \in Settlements : SettleProgress(s) /\ SentProgress(s) /\ Merchant(s) \in Merchants
      /\ \A r \in Runs : RunProgress(r) /\ GroupProgress(r)
      /\ \A s \in Settlements : Merchant(s)' = Merchant(s)
  <2>1. \A s \in Settlements : Merchant(s) \in Merchants
    BY InputTypes, Zenon
  <2> QED
    BY <2>1, <1>a DEF ProgressInv, Merchant
<1>c. \A r \in Runs, m \in Merchants : group[r][m] \subseteq Settlements
  BY DEF TypeOK
<1>1. ASSUME NEW s \in Settlements, Decide(s) PROVE ProgressInv'
  <2>a. /\ UNCHANGED <<status, bank, created, posted, group, told>> /\ pc[s] = "decide"
        /\ \/ /\ mode' = [mode EXCEPT ![s] = "instant"] /\ pc' = [pc EXCEPT ![s] = "send"]
              /\ verdict' = verdict
           \/ /\ mode' = [mode EXCEPT ![s] = "batch"] /\ pc' = [pc EXCEPT ![s] = "begin"]
              /\ verdict' = [verdict EXCEPT ![s] = "degraded_to_batch"]
    BY <1>1, DecideEffect
  <2>1. \A q \in Settlements : q # s => SameRow(q)
    BY <2>a, ActorsDiffer DEF TypeOK, SameRow
  <2>2. \A r \in Runs : SameRun(r)
    BY <2>a, ActorsDiffer DEF TypeOK, SameRun
  <2>3. SettleProgress(s)' /\ SentProgress(s)'
    <3>1. s \in Actors /\ SettleProgress(s) /\ SentProgress(s)
      BY <1>b, ActorsDiffer
    <3>2. /\ UNCHANGED <<status, bank, created, posted>> /\ Merchant(s)' = Merchant(s)
          /\ pc[s] = "decide"
          /\ \/ mode'[s] = "instant" /\ pc'[s] = "send" /\ verdict'[s] = verdict[s]
             \/ mode'[s] = "batch" /\ pc'[s] = "begin" /\ verdict'[s] = "degraded_to_batch"
      BY <2>a, <1>b, ActorsDiffer DEF TypeOK
    <3>3. SettleProgress(s)'
      BY <3>1, <3>2 DEF SettleProgress, Working, Ended
    <3>4. SentProgress(s)'
      BY <3>1, <3>2, <1>b DEF SentProgress, SettleProgress
    <3> QED
      BY <3>3, <3>4
  <2>4. ASSUME NEW r \in Runs PROVE GroupProgress(r)'
    <3>1. \A q \in Settlements : status[q] # "none" =>
             UNCHANGED <<created[q], mode[q], status[q]>>
      BY <2>a, <1>b DEF TypeOK, SettleProgress, Working
    <3> QED
      BY <3>1, <2>a, <1>a, <1>c, GroupsProgress
  <2> QED
    BY <2>1, <2>2, <2>3, <2>4, <1>a, RowProgress, RunsProgress DEF ProgressInv
<1>2. ASSUME NEW s \in Settlements, Send(s) PROVE ProgressInv'
  <2>a. \E v \in {"settled", "sending", "failed"} :
           /\ verdict' = [verdict EXCEPT ![s] = v]
           /\ \/ v # "failed" /\ bank' = bank \cup {<<s, Merchant(s)>>}
              \/ v # "settled" /\ bank' = bank
    BY <1>2, SendEffect
  <2>b. /\ UNCHANGED <<status, mode, created, posted, group, told>>
        /\ pc[s] = "send" /\ pc' = [pc EXCEPT ![s] = "begin"]
    BY <1>2, SendEffect
  <2>c. \A a \in Actors, m \in Merchants : a # s => (<<a, m>> \in bank' <=> <<a, m>> \in bank)
    BY <2>a
  <2>1. \A q \in Settlements : q # s => SameRow(q)
    BY <2>a, <2>b, <2>c, ActorsDiffer DEF TypeOK, SameRow
  <2>2. \A r \in Runs : SameRun(r)
    BY <2>a, <2>b, <2>c, ActorsDiffer DEF TypeOK, SameRun
  <2>3. SettleProgress(s)' /\ SentProgress(s)'
    <3>1. s \in Actors /\ SettleProgress(s) /\ SentProgress(s)
      BY <1>b, ActorsDiffer
    <3>2. /\ pc[s] = "send" /\ pc'[s] = "begin"
          /\ verdict'[s] \in {"settled", "sending", "failed"}
          /\ \/ verdict'[s] # "failed" /\ bank' = bank \cup {<<s, Merchant(s)>>}
             \/ verdict'[s] # "settled" /\ bank' = bank
      BY <2>a, <2>b, <3>1 DEF TypeOK
    <3>3. SettleProgress(s)'
      BY <3>1, <3>2, <2>b DEF SettleProgress, Working, Ended
    <3>4. SentProgress(s)'
      BY <3>1, <3>2, <2>b, <1>b DEF SentProgress, SettleProgress
    <3> QED
      BY <3>3, <3>4
  <2>4. ASSUME NEW r \in Runs PROVE GroupProgress(r)'
    BY <2>b, <1>a, <1>c, GroupsProgress
  <2> QED
    BY <2>1, <2>2, <2>3, <2>4, <1>a, RowProgress, RunsProgress DEF ProgressInv
<1>3. ASSUME NEW s \in Settlements, Begin(s) PROVE ProgressInv'
  <2>b. /\ UNCHANGED <<status, mode, verdict, posted, group, told, bank>>
        /\ pc[s] = "begin" /\ pc' = [pc EXCEPT ![s] = "commit"]
        /\ created' = [created EXCEPT ![s] = today]
    BY <1>3 DEF Begin, Move, runVars
  <2>1. \A q \in Settlements : q # s => SameRow(q)
    BY <2>b, ActorsDiffer DEF TypeOK, SameRow
  <2>2. \A r \in Runs : SameRun(r)
    BY <2>b, ActorsDiffer DEF TypeOK, SameRun
  <2>3. SettleProgress(s)' /\ SentProgress(s)'
    <3>1. s \in Actors /\ SettleProgress(s) /\ SentProgress(s)
      BY <1>b, ActorsDiffer
    <3>2. /\ pc[s] = "begin" /\ pc'[s] = "commit" /\ status[s] = "none" /\ created'[s] # 0
      BY <2>b, <3>1 DEF TypeOK, SettleProgress, Working
    <3>3. SettleProgress(s)'
      BY <3>1, <3>2, <2>b DEF SettleProgress, Working, Ended
    <3>4. SentProgress(s)'
      BY <3>1, <3>2, <2>b, <1>b DEF SentProgress
    <3> QED
      BY <3>3, <3>4
  <2>4. ASSUME NEW r \in Runs PROVE GroupProgress(r)'
    <3>1. \A q \in Settlements : status[q] # "none" => UNCHANGED <<created[q], mode[q], status[q]>>
      BY <2>b, <1>b DEF TypeOK, SettleProgress, Working
    <3> QED
      BY <3>1, <2>b, <1>a, <1>c, GroupsProgress
  <2> QED
    BY <2>1, <2>2, <2>3, <2>4, <1>a, RowProgress, RunsProgress DEF ProgressInv
<1>4. ASSUME NEW s \in Settlements, Commit(s) PROVE ProgressInv'
  <2>b. /\ UNCHANGED <<mode, verdict, created, group, told, bank>> /\ pc[s] = "commit"
        /\ \/ /\ status' = [status EXCEPT ![s] = verdict[s]]
              /\ posted' = IF Posts(verdict[s]) THEN posted \cup {s} ELSE posted
              /\ pc' = [pc EXCEPT ![s] = "done"] \/ pc' = [pc EXCEPT ![s] = "unknown"]
           \/ pc' = [pc EXCEPT ![s] = "unknown"] /\ UNCHANGED <<status, posted>>
    BY <1>4 DEF Commit, Committed, Move, runVars
  <2>1. \A q \in Settlements : q # s => SameRow(q)
    BY <2>b, ActorsDiffer DEF TypeOK, SameRow
  <2>2. \A r \in Runs : SameRun(r)
    BY <2>b, ActorsDiffer DEF TypeOK, SameRun
  <2>3. SettleProgress(s)' /\ SentProgress(s)'
    <3>1. s \in Actors /\ SettleProgress(s) /\ SentProgress(s)
      BY <1>b, ActorsDiffer
    <3>2. /\ pc[s] = "commit" /\ pc'[s] \in Ended /\ status[s] = "none" /\ s \notin posted
          /\ \/ /\ status'[s] = verdict[s]
                /\ s \in posted' <=> verdict[s] \in {"sending", "settled"}
             \/ pc'[s] # "done" /\ status'[s] = status[s] /\ posted' = posted
      BY <2>b, <3>1 DEF TypeOK, SettleProgress, Working, Ended, Posts
    <3>3. SettleProgress(s)'
      BY <3>1, <3>2, <2>b DEF SettleProgress, Working, Ended
    <3>4. SentProgress(s)'
      BY <3>1, <3>2, <2>b, <1>b DEF SentProgress, Ended
    <3> QED
      BY <3>3, <3>4
  <2>4. ASSUME NEW r \in Runs PROVE GroupProgress(r)'
    <3>1. \A q \in Settlements : status[q] # "none" => UNCHANGED <<created[q], mode[q], status[q]>>
      BY <2>b, <1>b DEF TypeOK, SettleProgress, Working
    <3> QED
      BY <3>1, <2>b, <1>a, <1>c, GroupsProgress
  <2> QED
    BY <2>1, <2>2, <2>3, <2>4, <1>a, RowProgress, RunsProgress DEF ProgressInv
<1>5. ASSUME NEW r \in Runs, Group(r) PROVE ProgressInv'
  <2>b. /\ UNCHANGED <<mode, verdict, status, created, posted, told, bank>> /\ pc[r] = "group"
        /\ pc' = [pc EXCEPT ![r] = "done"] \/ pc' = [pc EXCEPT ![r] = "sendBatch"]
        /\ group' = [group EXCEPT ![r] = [m \in Merchants |-> Waiting(m, input[r].day)]]
    BY <1>5 DEF Group, Move, settleVars
  <2>1. \A q \in Settlements : SameRow(q)
    BY <2>b, ActorsDiffer DEF TypeOK, SameRow
  <2>2. \A q \in Runs : q # r => SameRun(q) /\ group'[q] = group[q]
    BY <2>b, ActorsDiffer DEF TypeOK, SameRun
  <2>3. RunProgress(r)'
    <3>1. r \in Actors /\ RunProgress(r)
      BY <1>b, ActorsDiffer
    <3>2. pc[r] = "group" /\ pc'[r] \in {"done", "sendBatch"}
      BY <2>b, <3>1 DEF TypeOK
    <3> QED
      BY <3>1, <3>2, <2>b DEF RunProgress, Ended
  <2>4. GroupProgress(r)'
    <3>1. \A m \in Merchants : group'[r][m] = Waiting(m, input[r].day)
      BY <2>b DEF TypeOK
    <3>2. \A m \in Merchants : \A s \in Waiting(m, input[r].day) :
             /\ s \in Settlements /\ Merchant(s) = m /\ created[s] = input[r].day
             /\ status[s] = "degraded_to_batch"
      BY DEF Waiting
    <3>3. \A s \in Settlements : status[s] = "degraded_to_batch" => mode[s] = "batch"
      BY <1>b DEF SettleProgress
    <3> QED
      BY <3>1, <3>2, <3>3, <2>b, <1>a, <1>b DEF GroupProgress
  <2>5. ASSUME NEW q \in Runs, q # r PROVE GroupProgress(q)'
    BY <2>2, <2>5, <2>b, <1>a, <1>c, GroupsProgress
  <2> QED
    BY <2>1, <2>2, <2>3, <2>4, <2>5, <1>a, RowProgress, RunsProgress DEF ProgressInv
<1>6. ASSUME NEW r \in Runs, SendBatch(r) PROVE ProgressInv'
  <2>a. \E v \in {"settled", "sending", "failed"} :
           /\ verdict' = [verdict EXCEPT ![r] = v]
           /\ \/ v # "failed" /\ \E m \in Merchants : IsNext(r, m) /\ bank' = bank \cup {<<r, m>>}
              \/ v # "settled" /\ bank' = bank
    BY <1>6, SendBatchEffect
  <2>b. /\ UNCHANGED <<status, mode, created, posted, group, told>>
        /\ pc[r] = "sendBatch" /\ pc' = [pc EXCEPT ![r] = "persistBatch"]
    BY <1>6, SendBatchEffect
  <2>c. /\ \A a \in Actors, m \in Merchants : a # r => (<<a, m>> \in bank' <=> <<a, m>> \in bank)
        /\ bank \subseteq bank'
    BY <2>a
  <2>1. \A q \in Settlements : SameRow(q)
    BY <2>a, <2>b, <2>c, ActorsDiffer DEF TypeOK, SameRow
  <2>2. \A q \in Runs : q # r => SameRun(q)
    BY <2>a, <2>b, <2>c, ActorsDiffer DEF TypeOK, SameRun
  <2>3. RunProgress(r)'
    <3>1. r \in Actors /\ RunProgress(r)
      BY <1>b, ActorsDiffer
    <3>2. /\ pc[r] = "sendBatch" /\ pc'[r] = "persistBatch"
          /\ verdict'[r] \in {"settled", "sending", "failed"}
          /\ verdict'[r] = "settled" => \E m \in Merchants : IsNext(r, m) /\ <<r, m>> \in bank'
      BY <2>a, <2>b, <3>1 DEF TypeOK
    <3>3. \A m \in Merchants : IsNext(r, m)' <=> IsNext(r, m)
      BY <2>b DEF IsNext, Remaining
    <3>4. verdict'[r] = "settled" => \A m \in Merchants : IsNext(r, m)' => <<r, m>> \in bank'
      BY <3>2, <3>3, NextIsOne
    <3> QED
      BY <3>1, <3>2, <3>4, <2>b, <2>c DEF RunProgress
  <2>4. ASSUME NEW q \in Runs PROVE GroupProgress(q)'
    BY <2>b, <1>a, <1>c, GroupsProgress
  <2> QED
    BY <2>1, <2>2, <2>3, <2>4, <1>a, RowProgress, RunsProgress DEF ProgressInv
<1>7. ASSUME NEW r \in Runs, PersistBatch(r) PROVE ProgressInv'
  <2>a. /\ pc[r] = "persistBatch" /\ UNCHANGED <<verdict, bank, mode, created, posted, group>>
        /\ \E p \in {"done", "sendBatch", "unknown"} : pc' = [pc EXCEPT ![r] = p]
    BY <1>7, PersistBatchEffect
  <2>b. \/ UNCHANGED <<status, told>>
        \/ \E m \in Merchants :
              /\ IsNext(r, m)
              /\ told' = [told EXCEPT ![r][m] = verdict[r]]
              /\ MarkSettled(m, input[r].day) \/ status' = status
    BY <1>7, PersistBatchEffect
  <2>c. \A s \in Settlements :
           \/ status'[s] = status[s]
           \/ status[s] = "degraded_to_batch" /\ status'[s] = "settled"
    BY <2>b DEF MarkSettled, Waiting
  <2>1. ASSUME NEW q \in Settlements PROVE SettleProgress(q)' /\ SentProgress(q)'
    <3>1. SettleProgress(q) /\ SentProgress(q) /\ UNCHANGED <<pc[q], verdict, mode, created, posted, bank>>
      BY <1>b, <2>a, ActorsDiffer DEF TypeOK
    <3>2. SentProgress(q)'
      BY <3>1, <1>b DEF SentProgress
    <3>3. SettleProgress(q)'
      BY <3>1, <2>c DEF SettleProgress, Working, Ended
    <3> QED
      BY <3>2, <3>3
  <2>2. \A q \in Runs : q # r => SameRun(q)
    BY <2>a, <2>b, ActorsDiffer DEF TypeOK, SameRun
  <2>3. RunProgress(r)'
    <3>1. r \in Actors /\ RunProgress(r)
      BY <1>b, ActorsDiffer
    <3>2. pc[r] = "persistBatch" /\ pc'[r] \in {"done", "sendBatch", "unknown"}
      BY <2>a, <3>1 DEF TypeOK
    <3>3. \A m \in Merchants : told'[r][m] = "settled" =>
             \/ told[r][m] = "settled"
             \/ IsNext(r, m) /\ verdict[r] = "settled"
      BY <2>b DEF TypeOK
    <3>4. \A m \in Merchants : told'[r][m] = "settled" => <<r, m>> \in bank'
      BY <3>1, <3>2, <3>3, <2>a DEF RunProgress
    <3> QED
      BY <3>2, <3>4 DEF RunProgress, Ended
  <2>4. ASSUME NEW q \in Runs PROVE GroupProgress(q)'
    BY <2>a, <2>c, <1>a, <1>c, GroupsProgress
  <2> QED
    BY <2>1, <2>2, <2>3, <2>4, <1>a, RunsProgress DEF ProgressInv
<1>8. ASSUME NEW a \in Actors, Die(a) PROVE ProgressInv'
  <2>b. /\ UNCHANGED <<mode, verdict, status, created, posted, group, told, bank>>
        /\ pc[a] \in Working /\ pc' = [pc EXCEPT ![a] = "unknown"]
    BY <1>8 DEF Die, Move, settleVars, runVars
  <2>1. ASSUME NEW q \in Settlements PROVE SettleProgress(q)' /\ SentProgress(q)'
    <3>1. /\ SettleProgress(q) /\ SentProgress(q)
          /\ pc'[q] = pc[q] \/ pc'[q] = "unknown"
      BY <1>b, <2>b, ActorsDiffer DEF TypeOK
    <3>2. SentProgress(q)'
      BY <3>1, <2>b, <1>b DEF SentProgress
    <3>3. SettleProgress(q)'
      BY <3>1, <2>b DEF SettleProgress, Working, Ended
    <3> QED
      BY <3>2, <3>3
  <2>2. ASSUME NEW r \in Runs PROVE RunProgress(r)'
    <3>1. RunProgress(r) /\ (pc'[r] = pc[r] \/ pc'[r] = "unknown")
      BY <1>b, <2>b, ActorsDiffer DEF TypeOK
    <3>2. \A m \in Merchants : IsNext(r, m)' <=> IsNext(r, m)
      BY <2>b DEF IsNext, Remaining
    <3> QED
      BY <3>1, <3>2, <2>b DEF RunProgress, Ended
  <2>3. ASSUME NEW r \in Runs PROVE GroupProgress(r)'
    BY <2>b, <1>a, <1>c, GroupsProgress
  <2> QED
    BY <2>1, <2>2, <2>3 DEF ProgressInv
<1>9. CASE (\E s \in Settlements : Age(s)) \/ NextDay \/ UNCHANGED vars
  <2>b. UNCHANGED <<pc, mode, verdict, status, created, posted, group, told, bank>>
    BY <1>9 DEF Age, NextDay, vars, settleVars, runVars
  <2>1. \A q \in Settlements : SameRow(q)
    BY <2>b DEF SameRow
  <2>2. \A r \in Runs : SameRun(r)
    BY <2>b DEF SameRun
  <2>3. ASSUME NEW r \in Runs PROVE GroupProgress(r)'
    BY <2>b, <1>a, <1>c, GroupsProgress
  <2> QED
    BY <2>1, <2>2, <2>3, <1>a, RowProgress, RunsProgress DEF ProgressInv
<1> QED
  BY <1>1, <1>2, <1>3, <1>4, <1>5, <1>6, <1>7, <1>8, <1>9 DEF Next, Settle, RunBatch

----
(* What the steps of all calls do to one call and to one row *)

\* A step keeps what has been sent and who has ended.
OnlyMore ==
    /\ bank \subseteq bank'
    /\ \A a \in Actors : pc[a] \in Ended => pc'[a] = pc[a]
    /\ \A r \in Runs : pc'[r] = "group" => pc[r] = "group"

\* Only steps of its own change what a call has read and told.
OwnSteps ==
    /\ \A r \in Runs :
          /\ UNCHANGED <<group[r], before[r]>> \/ Group(r)
          /\ told'[r] = told[r] \/ PersistBatch(r)
    /\ \A s \in Settlements : before'[s] = before[s] \/ Decide(s)

LEMMA CallsEffect ==
    ASSUME TypeOK, [Next]_vars
    PROVE  OnlyMore /\ OwnSteps
<1>1. ASSUME NEW s \in Settlements, Decide(s) PROVE OnlyMore /\ OwnSteps
  <2>1. /\ UNCHANGED <<bank, group, told>> /\ pc[s] = "decide"
        /\ pc' = [pc EXCEPT ![s] = "send"] \/ pc' = [pc EXCEPT ![s] = "begin"]
        /\ \A a \in Actors : a # s => before'[a] = before[a]
    BY <1>1, DecideEffect DEF TypeOK, Reading
  <2>2. OnlyMore
    BY <2>1, ActorsDiffer DEF TypeOK, OnlyMore, Ended
  <2>3. OwnSteps
    BY <1>1, <2>1, ActorsDiffer DEF OwnSteps
  <2> QED
    BY <2>2, <2>3
<1>2. ASSUME NEW s \in Settlements, Send(s) PROVE OnlyMore /\ OwnSteps
  <2>1. /\ bank \subseteq bank' /\ UNCHANGED <<group, told, before>>
        /\ pc[s] = "send" /\ pc' = [pc EXCEPT ![s] = "begin"]
    BY <1>2, SendEffect
  <2> QED
    BY <2>1, ActorsDiffer DEF TypeOK, OnlyMore, OwnSteps, Ended
<1>3. ASSUME NEW s \in Settlements, Begin(s) PROVE OnlyMore /\ OwnSteps
  BY <1>3, ActorsDiffer DEF TypeOK, Begin, Move, runVars, OnlyMore, OwnSteps, Ended
<1>4. ASSUME NEW s \in Settlements, Commit(s) PROVE OnlyMore /\ OwnSteps
  <2>1. /\ UNCHANGED <<bank, group, told, before>> /\ pc[s] = "commit"
        /\ pc' = [pc EXCEPT ![s] = "done"] \/ pc' = [pc EXCEPT ![s] = "unknown"]
    BY <1>4 DEF Commit, Committed, Move, runVars
  <2> QED
    BY <2>1, ActorsDiffer DEF TypeOK, OnlyMore, OwnSteps, Ended
<1>5. ASSUME NEW r \in Runs, Group(r) PROVE OnlyMore /\ OwnSteps
  <2>1. /\ UNCHANGED <<bank, told>> /\ pc[r] = "group"
        /\ pc' = [pc EXCEPT ![r] = "done"] \/ pc' = [pc EXCEPT ![r] = "sendBatch"]
        /\ \A a \in Actors : a # r => before'[a] = before[a]
        /\ \A q \in Runs : q # r => group'[q] = group[q]
    BY <1>5 DEF TypeOK, Group, Move, Reading
  <2>2. OnlyMore
    BY <2>1, ActorsDiffer DEF TypeOK, OnlyMore, Ended
  <2>3. OwnSteps
    BY <1>5, <2>1, ActorsDiffer DEF OwnSteps
  <2> QED
    BY <2>2, <2>3
<1>6. ASSUME NEW r \in Runs, SendBatch(r) PROVE OnlyMore /\ OwnSteps
  <2>1. /\ bank \subseteq bank' /\ UNCHANGED <<group, told, before>>
        /\ pc[r] = "sendBatch" /\ pc' = [pc EXCEPT ![r] = "persistBatch"]
    BY <1>6, SendBatchEffect
  <2> QED
    BY <2>1, ActorsDiffer DEF TypeOK, OnlyMore, OwnSteps, Ended
<1>7. ASSUME NEW r \in Runs, PersistBatch(r) PROVE OnlyMore /\ OwnSteps
  <2>1. /\ UNCHANGED <<bank, group, before>> /\ pc[r] = "persistBatch"
        /\ \E p \in {"done", "sendBatch", "unknown"} : pc' = [pc EXCEPT ![r] = p]
    BY <1>7, PersistBatchEffect
  <2>2. told' = told \/ \E m \in Merchants : told' = [told EXCEPT ![r][m] = verdict[r]]
    BY <1>7, PersistBatchEffect
  <2>3. OnlyMore
    BY <2>1, ActorsDiffer DEF TypeOK, OnlyMore, Ended
  <2>4. OwnSteps
    BY <1>7, <2>1, <2>2 DEF TypeOK, OwnSteps
  <2> QED
    BY <2>3, <2>4
<1>8. ASSUME NEW a \in Actors, Die(a) PROVE OnlyMore /\ OwnSteps
  BY <1>8, ActorsDiffer DEF TypeOK, Die, Move, settleVars, runVars, OnlyMore, OwnSteps, Working, Ended
<1>9. CASE (\E s \in Settlements : Age(s)) \/ NextDay \/ UNCHANGED vars
  <2>1. UNCHANGED <<pc, bank, group, told, before>>
    BY <1>9 DEF Age, NextDay, vars, runVars
  <2> QED
    BY <2>1 DEF OnlyMore, OwnSteps
<1> QED
  BY <1>1, <1>2, <1>3, <1>4, <1>5, <1>6, <1>7, <1>8, <1>9 DEF Next, Settle, RunBatch

\* Run r settles what waits of the day for the merchant of s.
SettledBy(s, r) ==
    /\ pc[r] = "persistBatch" /\ verdict[r] = "settled"
    /\ IsNext(r, Merchant(s)) /\ created[s] = input[r].day
    /\ told'[r][Merchant(s)] = "settled"

LEMMA RowsEffect ==
    ASSUME TypeOK, ProgressInv, [Next]_vars, NEW s \in Settlements
    PROVE  /\ \/ status'[s] = status[s]
              \/ pc[s] = "commit" /\ status[s] = "none" /\ status'[s] = verdict[s]
              \/ /\ status[s] = "degraded_to_batch" /\ status'[s] = "settled"
                 /\ \E r \in Runs : PersistBatch(r) /\ SettledBy(s, r)
           /\ status[s] # "none" \/ pc[s] \in Ended => UNCHANGED <<created[s], mode[s]>>
<1>0. SettleProgress(s) /\ s \in Actors
  BY ActorsDiffer DEF ProgressInv
<1>1. ASSUME NEW q \in Settlements, Decide(q)
      PROVE  /\ UNCHANGED <<status, created>> /\ pc[q] = "decide"
             /\ q # s => mode'[s] = mode[s]
  <2>1. /\ UNCHANGED <<status, created>> /\ pc[q] = "decide"
        /\ mode' = [mode EXCEPT ![q] = "instant"] \/ mode' = [mode EXCEPT ![q] = "batch"]
    BY <1>1, DecideEffect
  <2> QED
    BY <2>1 DEF TypeOK
<1>2. ASSUME NEW q \in Settlements, Begin(q)
      PROVE  /\ UNCHANGED <<status, mode>> /\ pc[q] = "begin"
             /\ q # s => created'[s] = created[s]
  BY <1>2 DEF TypeOK, Begin
<1>3. ASSUME NEW q \in Settlements, Commit(q)
      PROVE  /\ UNCHANGED <<created, mode>> /\ pc[q] = "commit"
             /\ status'[s] = status[s] \/ (q = s /\ status'[s] = verdict[s])
  <2>1. /\ UNCHANGED <<created, mode>> /\ pc[q] = "commit"
        /\ status' = status \/ status' = [status EXCEPT ![q] = verdict[q]]
    BY <1>3 DEF Commit
  <2>2. status'[s] = status[s] \/ (q = s /\ status'[s] = verdict[s])
    <3>1. CASE status' = [status EXCEPT ![q] = verdict[q]]
      BY <3>1 DEF TypeOK
    <3> QED
      BY <2>1, <3>1
  <2> QED
    BY <2>1, <2>2
<1>4. ASSUME NEW r \in Runs, PersistBatch(r)
      PROVE  /\ UNCHANGED <<created, mode>>
             /\ \/ status'[s] = status[s]
                \/ status[s] = "degraded_to_batch" /\ status'[s] = "settled" /\ SettledBy(s, r)
  <2>1. /\ UNCHANGED <<created, mode>> /\ pc[r] = "persistBatch"
        /\ \/ status' = status
           \/ \E m \in Merchants :
                 /\ IsNext(r, m) /\ told' = [told EXCEPT ![r][m] = verdict[r]]
                 /\ verdict[r] = "settled" /\ MarkSettled(m, input[r].day)
    BY <1>4, PersistBatchEffect
  <2>2. ASSUME NEW m \in Merchants, IsNext(r, m), told' = [told EXCEPT ![r][m] = verdict[r]],
               verdict[r] = "settled", MarkSettled(m, input[r].day), status'[s] # status[s]
        PROVE  status[s] = "degraded_to_batch" /\ status'[s] = "settled" /\ SettledBy(s, r)
    <3>1. /\ s \in Waiting(m, input[r].day) /\ status'[s] = "settled"
      BY <2>2 DEF MarkSettled
    <3>2. m = Merchant(s) /\ created[s] = input[r].day /\ status[s] = "degraded_to_batch"
      BY <3>1 DEF Waiting
    <3>3. told'[r][m] = "settled"
      BY <2>2 DEF TypeOK
    <3> QED
      BY <2>1, <2>2, <3>1, <3>2, <3>3 DEF SettledBy
  <2> QED
    BY <2>1, <2>2
<1>5. CASE \/ \E q \in Settlements : Send(q) \/ Age(q)
           \/ \E r \in Runs : Group(r) \/ SendBatch(r)
           \/ \E a \in Actors : Die(a)
           \/ NextDay \/ UNCHANGED vars
  <2>1. UNCHANGED <<status, created, mode>>
    BY <1>5 DEF Send, Age, Group, SendBatch, Die, NextDay, vars, settleVars
  <2> QED
    BY <2>1
<1>6. CASE \E q \in Settlements : Decide(q)
  BY <1>0, <1>1, <1>6 DEF SettleProgress, Working, Ended
<1>7. CASE \E q \in Settlements : Begin(q)
  BY <1>0, <1>2, <1>7 DEF SettleProgress, Working, Ended
<1>8. CASE \E q \in Settlements : Commit(q)
  BY <1>0, <1>3, <1>8 DEF SettleProgress, Working
<1>9. CASE \E r \in Runs : PersistBatch(r)
  BY <1>4, <1>9
<1> QED
  BY <1>5, <1>6, <1>7, <1>8, <1>9 DEF Next, Settle, RunBatch

----
(* What has been read and sent *)

LEMMA BeforeStep == TypeOK /\ ProgressInv /\ BeforeInv /\ [Next]_vars => BeforeInv'
<1> SUFFICES ASSUME TypeOK, ProgressInv, BeforeInv, [Next]_vars PROVE BeforeInv'
  OBVIOUS
<1>1. OnlyMore /\ OwnSteps
  BY CallsEffect
<1>2. ASSUME NEW r \in Runs, Group(r)
      PROVE  before'[r] = {b \in Actors : pc[b] \in Ended} /\ pc'[r] # "group"
  BY <1>2, ActorsDiffer DEF TypeOK, Group, Reading, Move
<1>3. ASSUME NEW s \in Settlements, Decide(s)
      PROVE  before'[s] = before[s] \/ before'[s] = {b \in Settlements : pc[b] \in Ended}
  BY <1>3, DecideEffect, ActorsDiffer DEF TypeOK, Reading
<1>4. ASSUME NEW a \in Actors
      PROVE  before'[a] = before[a] \/ before'[a] \subseteq {b \in Actors : pc[b] \in Ended}
  BY <1>1, <1>2, <1>3, ActorsDiffer DEF OwnSteps, Actors
<1>5. \A a \in Actors : \A b \in before'[a] : pc'[b] \in Ended
  BY <1>1, <1>4 DEF TypeOK, BeforeInv, OnlyMore
<1>6. \A r \in Runs : pc'[r] = "group" => before'[r] = {}
  BY <1>1, <1>2 DEF BeforeInv, OnlyMore, OwnSteps
<1>7. \A s \in Settlements : before'[s] \subseteq Settlements
  BY <1>1, <1>3 DEF BeforeInv, OwnSteps
<1> QED
  BY <1>5, <1>6, <1>7 DEF BeforeInv

LEMMA ReadAllStep ==
    TypeOK /\ ProgressInv /\ BeforeInv /\ ReadAllInv /\ [Next]_vars => ReadAllInv'
<1> SUFFICES ASSUME TypeOK, ProgressInv, BeforeInv, ReadAllInv, [Next]_vars,
                    NEW r \in Runs, NEW m \in Merchants, NEW s \in Settlements,
                    s \in before'[r], s \in Waiting(m, input[r].day)'
             PROVE  s \in group'[r][m]
  BY InputStays DEF ReadAllInv
<1>1. OnlyMore /\ OwnSteps
  BY CallsEffect
<1>2. Merchant(s) = m /\ created'[s] = input[r].day /\ status'[s] = "degraded_to_batch"
  BY InputStays DEF Waiting, Merchant
<1>3. ASSUME pc[s] \in Ended PROVE s \in Waiting(m, input[r].day)
  <2>1. status[s] = "degraded_to_batch" /\ created[s] = created'[s]
    BY <1>2, <1>3, RowsEffect DEF Ended
  <2> QED
    BY <1>2, <2>1 DEF Waiting
<1>4. CASE UNCHANGED <<group[r], before[r]>>
  <2>1. s \in before[r] /\ pc[s] \in Ended
    BY <1>4, ActorsDiffer DEF BeforeInv
  <2> QED
    BY <1>3, <1>4, <2>1 DEF ReadAllInv
<1>5. CASE Group(r)
  <2>1. /\ before'[r] = {b \in Actors : pc[b] \in Ended}
        /\ group'[r][m] = Waiting(m, input[r].day)
    BY <1>5, ActorsDiffer DEF TypeOK, Group, Reading
  <2> QED
    BY <1>3, <2>1
<1> QED
  BY <1>1, <1>4, <1>5 DEF OwnSteps

LEMMA SentStep ==
    /\ TypeOK /\ ProgressInv /\ BeforeInv /\ ReadAllInv /\ SentInv /\ [Next]_vars
    => SentInv'
<1> SUFFICES ASSUME TypeOK, ProgressInv, BeforeInv, ReadAllInv, SentInv, [Next]_vars,
                    NEW s \in Settlements, status'[s] = "settled"
             PROVE  \E x \in bank' : \/ Pays(x, s)'
                                    \/ /\ x[1] \in Runs /\ x[2] = Merchant(s)'
                                       /\ input'[x[1]].day = created'[s] /\ s \notin before'[x[1]]
  BY DEF SentInv
<1> DEFINE Explains(x) ==
              \/ Pays(x, s)
              \/ /\ x[1] \in Runs /\ x[2] = Merchant(s)
                 /\ input[x[1]].day = created[s] /\ s \notin before[x[1]]
<1>1. OnlyMore /\ OwnSteps /\ input' = input /\ Merchant(s)' = Merchant(s) /\ Merchant(s) \in Merchants
  <2>1. Merchant(s) \in Merchants
    BY InputTypes, Zenon
  <2> QED
    BY <2>1, CallsEffect, InputStays DEF Merchant
<1>2. ASSUME NEW r \in Runs, NEW m \in Merchants, <<r, m>> \in bank
      PROVE  UNCHANGED <<group[r], before[r]>>
  <2>1. pc[r] # "group"
    BY <1>2 DEF ProgressInv, RunProgress
  <2>2. ~Group(r)
    BY <2>1 DEF Group
  <2> QED
    BY <1>1, <2>2 DEF OwnSteps
<1>3. status[s] # "none" => created'[s] = created[s]
  BY RowsEffect
<1>4. ASSUME NEW x \in bank, Explains(x), created'[s] = created[s] PROVE Explains(x)' /\ x \in bank'
  <2>1. x \in bank' /\ x = <<x[1], x[2]>> /\ x[1] \in Actors /\ x[2] \in Merchants
    BY <1>1 DEF TypeOK, OnlyMore
  <2>2. CASE x[1] \in Runs
    BY <1>1, <1>2, <1>4, <2>1, <2>2 DEF Pays
  <2>3. CASE x[1] \notin Runs
    BY <1>4, <2>1, <2>3 DEF Pays
  <2> QED
    BY <2>2, <2>3
<1>5. CASE status[s] = "settled"
  <2>1. PICK x \in bank : Explains(x)
    BY <1>5 DEF SentInv
  <2> QED
    BY <1>3, <1>4, <1>5, <2>1
<1>6. CASE pc[s] = "commit" /\ status[s] = "none" /\ verdict[s] = "settled"
  <2>1. <<s, Merchant(s)>> \in bank
    BY <1>6 DEF ProgressInv, SettleProgress, SentProgress
  <2>2. <<s, Merchant(s)>> \in bank' /\ s \notin Runs
    BY <1>1, <2>1, ActorsDiffer DEF OnlyMore
  <2> QED
    BY <2>2 DEF Pays
<1>7. ASSUME status[s] = "degraded_to_batch", NEW r \in Runs, SettledBy(s, r)
      PROVE  \E x \in bank : Explains(x)
  <2>1. <<r, Merchant(s)>> \in bank
    BY <1>1, <1>7 DEF SettledBy, ProgressInv, RunProgress
  <2>2. s \in Waiting(Merchant(s), input[r].day) /\ input[r].day = created[s]
    BY <1>7 DEF SettledBy, Waiting
  <2>3. s \in group[r][Merchant(s)] \/ s \notin before[r]
    BY <1>1, <2>2 DEF ReadAllInv
  <2>4. Explains(<<r, Merchant(s)>>)
    BY <2>2, <2>3 DEF Pays
  <2> QED
    BY <2>1, <2>4
<1> HIDE DEF Explains
<1>8. CASE status[s] = "degraded_to_batch" /\ \E r \in Runs : SettledBy(s, r)
  <2>1. \E x \in bank' : Explains(x)'
    BY <1>3, <1>4, <1>7, <1>8
  <2> QED
    BY <2>1 DEF Explains
<1> QED
  BY <1>5, <1>6, <1>8, RowsEffect

----
(* What the runs of a day settle *)

LEMMA SettledStep ==
    /\ TypeOK /\ ProgressInv /\ BeforeInv /\ SettledInv /\ [Next]_vars
    => SettledInv'
<1> SUFFICES ASSUME TypeOK, ProgressInv, BeforeInv, SettledInv, [Next]_vars PROVE SettledInv'
  OBVIOUS
<1>1. OnlyMore /\ OwnSteps /\ input' = input
  BY CallsEffect, InputStays
<1>2. ASSUME NEW r \in Runs, Group(r)
      PROVE  /\ pc[r] = "group" /\ told'[r] = told[r] /\ \A m \in Merchants : told[r][m] = "none"
             /\ before'[r] = {a \in Actors : pc[a] \in Ended}
             /\ UNCHANGED <<status, told, bank>>
             /\ \A m \in Merchants : \A s \in group'[r][m] : s \in Settlements /\ status[s] = "degraded_to_batch"
  <2>1. pc[r] = "group" /\ UNCHANGED <<status, told, bank>> /\ Reading(r, Actors)
        /\ group' = [group EXCEPT ![r] = [m \in Merchants |-> Waiting(m, input[r].day)]]
    BY <1>2 DEF Group
  <2>2. \A m \in Merchants : group'[r][m] = Waiting(m, input[r].day)
    BY <2>1 DEF TypeOK
  <2>3. before'[r] = {a \in Actors : pc[a] \in Ended}
    BY <2>1, ActorsDiffer DEF TypeOK, Reading
  <2>4. \A m \in Merchants : told[r][m] = "none"
    BY <2>1 DEF ProgressInv, RunProgress
  <2> QED
    BY <2>1, <2>2, <2>3, <2>4 DEF Waiting
<1>3. ASSUME NEW s \in Settlements, status[s] = "settled" PROVE status'[s] = "settled"
  <2>1. pc[s] # "commit" \/ status[s] = "none"
    BY DEF ProgressInv, SettleProgress, Working
  <2> QED
    BY <1>3, <2>1, RowsEffect
<1>4. ASSUME NEW r \in Runs, PersistBatch(r)
      PROVE  /\ pc[r] = "persistBatch" /\ UNCHANGED <<group, before, bank>>
             /\ \A q \in Runs : q # r => told'[q] = told[q]
             /\ \A m \in Merchants : told'[r][m] = "settled" =>
                   \/ told[r][m] = "settled"
                   \/ <<r, m>> \in bank /\ MarkSettled(m, input[r].day)
  <2>1. /\ pc[r] = "persistBatch" /\ UNCHANGED <<group, before, bank>>
        /\ \/ told' = told
           \/ \E m \in Merchants :
                 /\ IsNext(r, m) /\ told' = [told EXCEPT ![r][m] = verdict[r]]
                 /\ verdict[r] = "settled" => MarkSettled(m, input[r].day)
    BY <1>4, PersistBatchEffect
  <2>2. ASSUME NEW m \in Merchants, IsNext(r, m), told' = [told EXCEPT ![r][m] = verdict[r]],
               verdict[r] = "settled" => MarkSettled(m, input[r].day)
        PROVE  /\ \A q \in Runs : q # r => told'[q] = told[q]
               /\ \A n \in Merchants : told'[r][n] = "settled" =>
                     \/ told[r][n] = "settled"
                     \/ <<r, n>> \in bank /\ MarkSettled(n, input[r].day)
    <3>1. verdict[r] = "settled" => <<r, m>> \in bank
      BY <2>1, <2>2 DEF ProgressInv, RunProgress
    <3>2. \A n \in Merchants : told'[r][n] = IF n = m THEN verdict[r] ELSE told[r][n]
      BY <2>2 DEF TypeOK
    <3>3. \A q \in Runs : q # r => told'[q] = told[q]
      BY <2>2 DEF TypeOK
    <3> QED
      BY <2>2, <3>1, <3>2, <3>3
  <2> QED
    BY <2>1, <2>2
<1>5. ASSUME NEW q \in Runs, NEW m \in Merchants, told'[q][m] = "settled", NEW s \in group'[q][m]
      PROVE  status'[s] = "settled"
  <2>1. CASE Group(q)
    BY <1>2, <1>5, <2>1
  <2>2. CASE told[q][m] = "settled" /\ group'[q] = group[q]
    BY <1>3, <1>5, <2>2 DEF TypeOK, SettledInv
  <2>3. CASE PersistBatch(q) /\ MarkSettled(m, input[q].day)
    <3>1. s \in group[q][m] /\ s \in Settlements
      BY <1>4, <1>5, <2>3 DEF TypeOK
    <3>2. Merchant(s) = m /\ created[s] = input[q].day /\ status[s] \in {"degraded_to_batch", "settled"}
      BY <3>1 DEF ProgressInv, GroupProgress
    <3> QED
      BY <2>3, <3>1, <3>2 DEF MarkSettled, Waiting
  <2>4. Group(q) \/ group'[q] = group[q]
    BY <1>1 DEF OwnSteps
  <2>5. told'[q] = told[q] \/ PersistBatch(q)
    BY <1>1 DEF OwnSteps
  <2>6. told[q][m] = "settled" \/ (PersistBatch(q) /\ MarkSettled(m, input[q].day))
    <3>1. CASE told'[q] = told[q]
      BY <1>5, <3>1
    <3>2. CASE PersistBatch(q)
      BY <1>4, <1>5, <3>2
    <3> QED
      BY <2>5, <3>1, <3>2
  <2> QED
    BY <2>1, <2>2, <2>3, <2>4, <2>6
<1>6. ASSUME NEW q \in Runs, NEW r \in Runs, NEW m \in Merchants, q \in before'[r], told'[q][m] = "settled"
      PROVE  group'[q][m] \cap group'[r][m] = {}
  <2>1. CASE Group(r)
    <3>1. pc[q] \in Ended /\ pc[r] = "group" /\ told[q][m] = "settled"
      BY <1>2, <1>6, <2>1
    <3>2. ~Group(q)
      BY <3>1 DEF Group, Ended
    <3>3. \A s \in group'[q][m] : status[s] = "settled"
      BY <1>1, <3>1, <3>2 DEF OwnSteps, SettledInv
    <3> QED
      BY <1>2, <2>1, <3>3
  <2>2. CASE UNCHANGED <<group[r], before[r]>>
    <3>1. q \in before[r] /\ pc[q] \in Ended
      BY <1>6, <2>2, ActorsDiffer DEF BeforeInv
    <3>2. ~Group(q) /\ ~PersistBatch(q)
      BY <3>1 DEF Group, PersistBatch, Ended
    <3>3. group'[q] = group[q] /\ told'[q] = told[q]
      BY <1>1, <3>2 DEF OwnSteps
    <3> QED
      BY <1>6, <2>2, <3>1, <3>3 DEF SettledInv
  <2> QED
    BY <1>1, <2>1, <2>2 DEF OwnSteps
<1>7. ASSUME NEW r \in Runs, NEW m \in Merchants, NEW s \in group'[r][m], status'[s] = "settled"
      PROVE  \E q \in Runs :
                /\ <<q, m>> \in bank' /\ told'[q][m] = "settled"
                /\ input[q].day = input[r].day /\ q \notin before'[r]
  <2>1. ~Group(r)
    BY <1>2, <1>7
  <2>2. UNCHANGED <<group[r], before[r]>>
    BY <1>1, <2>1 DEF OwnSteps
  <2>3. s \in group[r][m] /\ s \in Settlements
    BY <1>7, <2>2 DEF TypeOK
  <2>4. Merchant(s) = m /\ created[s] = input[r].day /\ status[s] \in {"degraded_to_batch", "settled"}
    BY <2>3 DEF ProgressInv, GroupProgress
  <2>5. CASE status[s] = "settled"
    <3>1. PICK q \in Runs : /\ <<q, m>> \in bank /\ told[q][m] = "settled"
                            /\ input[q].day = input[r].day /\ q \notin before[r]
      BY <2>3, <2>5 DEF SettledInv
    <3>2. told'[q][m] = "settled"
      <4>1. CASE PersistBatch(q)
        <5>1. m \notin Remaining(q)
          BY <3>1 DEF Remaining
        <5>2. ~IsNext(q, m)
          BY <5>1 DEF IsNext
        <5>3. told' = told \/ \E n \in Merchants : IsNext(q, n) /\ told' = [told EXCEPT ![q][n] = verdict[q]]
          BY <4>1, PersistBatchEffect
        <5> QED
          BY <3>1, <5>2, <5>3 DEF TypeOK
      <4> QED
        BY <1>1, <3>1, <4>1 DEF OwnSteps
    <3> QED
      BY <1>1, <2>2, <3>1, <3>2 DEF OnlyMore
  <2>6. CASE status[s] = "degraded_to_batch"
    <3>1. PICK q \in Runs : PersistBatch(q) /\ SettledBy(s, q)
      BY <1>7, <2>3, <2>6, RowsEffect DEF ProgressInv, SettleProgress, Working
    <3>2. /\ told'[q][m] = "settled" /\ input[q].day = input[r].day
          /\ IsNext(q, m) /\ pc[q] = "persistBatch" /\ verdict[q] = "settled"
      BY <2>4, <3>1 DEF SettledBy
    <3>3. m \in Merchants /\ <<q, m>> \in bank'
      BY <1>1, <3>2 DEF ProgressInv, RunProgress, OnlyMore
    <3>4. q \notin before'[r]
      BY <2>2, <3>2, ActorsDiffer DEF BeforeInv, Ended
    <3> QED
      BY <3>2, <3>3, <3>4
  <2> QED
    BY <2>4, <2>5, <2>6
<1> QED
  BY <1>1, <1>5, <1>6, <1>7 DEF SettledInv

LEMMA BatchStep ==
    /\ TypeOK /\ ProgressInv /\ BeforeInv /\ BatchInv /\ [Next]_vars
    => BatchInv'
<1> SUFFICES ASSUME TypeOK, ProgressInv, BeforeInv, BatchInv, [Next]_vars,
                    NEW m \in Merchants, NEW d \in 1..LastDay, batch'[m][d].status # "none"
             PROVE  \E r \in Runs :
                      /\ input[r].day = d /\ pc'[r] # "group" /\ Wrote(r, m, d)'
                      /\ \A q \in Runs : input[q].day = d /\ told'[q][m] # "none" => r \notin before'[q]
  BY InputStays DEF BatchInv
<1>1. OnlyMore /\ OwnSteps
  BY CallsEffect
<1>2. ASSUME batch'[m][d] = batch[m][d],
             \A q \in Runs : input[q].day = d => told'[q][m] = told[q][m]
      PROVE  \E r \in Runs :
                /\ input[r].day = d /\ pc'[r] # "group" /\ Wrote(r, m, d)'
                /\ \A q \in Runs : input[q].day = d /\ told'[q][m] # "none" => r \notin before'[q]
  <2>1. PICK r \in Runs :
           /\ input[r].day = d /\ pc[r] # "group" /\ Wrote(r, m, d)
           /\ \A q \in Runs : input[q].day = d /\ told[q][m] # "none" => r \notin before[q]
    BY <1>2 DEF BatchInv
  <2>2. pc'[r] # "group" /\ group'[r] = group[r]
    BY <1>1, <2>1 DEF OnlyMore, OwnSteps, Group
  <2>3. ASSUME NEW q \in Runs, input[q].day = d, told'[q][m] # "none" PROVE r \notin before'[q]
    <3>1. told[q][m] # "none"
      BY <1>2, <2>3
    <3>2. ~Group(q)
      BY <3>1 DEF Group, ProgressInv, RunProgress
    <3> QED
      BY <1>1, <2>1, <2>3, <3>1, <3>2 DEF OwnSteps
  <2> QED
    BY <1>2, <2>1, <2>2, <2>3 DEF Wrote
<1>3. ASSUME NEW r \in Runs, PersistBatch(r)
      PROVE  \E w \in Runs :
                /\ input[w].day = d /\ pc'[w] # "group" /\ Wrote(w, m, d)'
                /\ \A q \in Runs : input[q].day = d /\ told'[q][m] # "none" => w \notin before'[q]
  <2>1. /\ pc[r] = "persistBatch" /\ UNCHANGED <<group, before>>
        /\ \/ UNCHANGED <<batch, told>>
           \/ \E n \in Merchants :
                 /\ batch' = [batch EXCEPT ![n][input[r].day] = [status |-> verdict[r], payouts |-> group[r][n]]]
                 /\ told' = [told EXCEPT ![r][n] = verdict[r]]
    BY <1>3, PersistBatchEffect
  <2>2. CASE UNCHANGED <<batch, told>>
    BY <1>2, <2>2
  <2>3. ASSUME NEW n \in Merchants,
               batch' = [batch EXCEPT ![n][input[r].day] = [status |-> verdict[r], payouts |-> group[r][n]]],
               told' = [told EXCEPT ![r][n] = verdict[r]]
        PROVE  \E w \in Runs :
                /\ input[w].day = d /\ pc'[w] # "group" /\ Wrote(w, m, d)'
                /\ \A q \in Runs : input[q].day = d /\ told'[q][m] # "none" => w \notin before'[q]
    <3>1. CASE n = m /\ input[r].day = d
      <4>1. Wrote(r, m, d)'
        BY <2>1, <2>3, <3>1 DEF Wrote, TypeOK
      <4>2. pc'[r] # "group"
        BY <1>1, <2>1 DEF OnlyMore
      <4>3. \A q \in Runs : r \notin before'[q]
        BY <2>1, ActorsDiffer DEF BeforeInv, Ended
      <4> QED
        BY <2>1, <3>1, <4>1, <4>2, <4>3
    <3>2. CASE ~(n = m /\ input[r].day = d)
      <4>1. batch'[m][d] = batch[m][d]
        BY <2>3, <3>2 DEF TypeOK
      <4>2. \A q \in Runs : input[q].day = d => told'[q][m] = told[q][m]
        BY <2>3, <3>2 DEF TypeOK
      <4> QED
        BY <1>2, <4>1, <4>2
    <3> QED
      BY <3>1, <3>2
  <2> QED
    BY <2>1, <2>2, <2>3
<1>4. ASSUME \A r \in Runs : ~PersistBatch(r) PROVE batch' = batch
  BY <1>4 DEF Next, Settle, Decide, Send, Begin, Commit, RunBatch, Group, SendBatch, Die, Age, NextDay,
              vars, runVars
<1>5. CASE \A r \in Runs : ~PersistBatch(r)
  <2>1. \A q \in Runs : told'[q] = told[q]
    BY <1>1, <1>5 DEF OwnSteps
  <2> QED
    BY <1>2, <1>4, <1>5, <2>1
<1> QED
  BY <1>3, <1>5

----
(* The float *)

LEMMA SumMonotone ==
    ASSUME NEW P, NEW Q, P \subseteq Q, Q \subseteq Settlements
    PROVE  Sum(P) \in Nat /\ Sum(Q) \in Nat /\ Sum(P) <= Sum(Q)
<1> DEFINE Units(payouts) == {u \in payouts \X (1..MaxGross) : u[2] <= Net(u[1])}
<1>1. IsFiniteSet(Q) /\ IsFiniteSet(1..MaxGross)
  <2>1. IsFiniteSet(Q)
    BY ActorsFinite, FS_Subset DEF Actors
  <2>2. IsFiniteSet(1..MaxGross)
    BY MaxGrossIsNat, FS_Interval
  <2> QED
    BY <2>1, <2>2
<1>2. IsFiniteSet(Q \X (1..MaxGross))
  BY <1>1, FS_Product
<1>3. IsFiniteSet(Units(Q))
  BY <1>2, FS_Subset
<1>4. Units(P) \subseteq Units(Q)
  OBVIOUS
<1>5. IsFiniteSet(Units(P)) /\ Cardinality(Units(P)) <= Cardinality(Units(Q))
  BY <1>3, <1>4, FS_Subset
<1>6. Cardinality(Units(P)) \in Nat /\ Cardinality(Units(Q)) \in Nat
  BY <1>3, <1>5, FS_CardinalityType
<1> QED
  BY <1>5, <1>6 DEF Sum

LEMMA DivMonotone ==
    ASSUME NEW x \in Nat, NEW y \in Nat, NEW n \in Nat \ {0}, x <= y
    PROVE  (x \div n) \in Nat /\ (y \div n) \in Nat /\ x \div n <= y \div n
OBVIOUS

\* What goes out at once would have gone out with less outstanding.
LEMMA InstantMonotone ==
    ASSUME NEW P, NEW Q, P \subseteq Q, Q \subseteq Settlements, NEW bps \in Bps,
           Instant(Utilisation(Sum(Q)), bps)
    PROVE  Instant(Utilisation(Sum(P)), bps)
<1>1. Sum(P) \in Nat /\ Sum(Q) \in Nat /\ Sum(P) <= Sum(Q)
  BY SumMonotone
<1>2. /\ Utilisation(Sum(P)) \in Nat /\ Utilisation(Sum(Q)) \in Nat
      /\ Utilisation(Sum(P)) <= Utilisation(Sum(Q))
  <2>1. CASE Limit > 0
    <3>1. Sum(P) * 10000 \in Nat /\ Sum(Q) * 10000 \in Nat /\ Sum(P) * 10000 <= Sum(Q) * 10000
      BY <1>1
    <3>2. Limit \in Nat \ {0}
      BY <2>1, LimitIsInt
    <3> QED
      BY <2>1, <3>1, <3>2, DivMonotone DEF Utilisation
  <2>2. CASE ~(Limit > 0)
    BY <2>2 DEF Utilisation
  <2> QED
    BY <2>1, <2>2
<1> QED
  BY <1>2 DEF Instant, DegradeAllBps, DegradeHighRiskBps

LEMMA FloatStep ==
    /\ TypeOK /\ ProgressInv /\ BeforeInv /\ FloatInv /\ [Next]_vars
    => FloatInv'
<1> SUFFICES ASSUME TypeOK, ProgressInv, BeforeInv, FloatInv, [Next]_vars,
                    NEW s \in Settlements, mode'[s] = "instant"
             PROVE  Instant(Utilisation(Sum((posted \cap before[s]) \ old)), input[s].bps)'
  BY DEF FloatInv
<1>1. OnlyMore /\ OwnSteps /\ input' = input /\ input[s].bps \in Bps
  <2>1. input[s].bps \in Bps
    BY InputTypes, Zenon
  <2> QED
    BY <2>1, CallsEffect, InputStays
<1>2. Instant(Utilisation(Sum((posted \cap before[s]) \ old)), input[s].bps)'
         <=> Instant(Utilisation(Sum((posted' \cap before'[s]) \ old')), input[s].bps)
  BY <1>1 DEF Sum, Net, Utilisation, Instant
<1>3. posted \subseteq Settlements /\ s \in Actors
  BY ActorsDiffer DEF TypeOK
<1>4. ASSUME NEW q \in Settlements, Commit(q)
      PROVE  pc[q] = "commit" /\ posted' \subseteq posted \cup {q} /\ UNCHANGED <<mode, before, old>>
  BY <1>4 DEF Commit, runVars
<1>5. ASSUME NEW q \in Settlements, Decide(q)
      PROVE  /\ UNCHANGED <<posted, old>>
             /\ q # s => mode'[s] = mode[s]
             /\ q = s => /\ before'[s] = {b \in Settlements : pc[b] \in Ended}
                         /\ Instant(Utilisation(Sum({p \in Settlements : OnFloat(p)})), input[s].bps)
             /\ pc[q] = "decide"
  <2>1. /\ UNCHANGED <<posted, old>> /\ pc[q] = "decide"
        /\ \/ /\ mode' = [mode EXCEPT ![q] = "instant"]
              /\ Reading(q, Settlements)
              /\ Instant(Utilisation(Sum({p \in Settlements : OnFloat(p)})), input[q].bps)
           \/ mode' = [mode EXCEPT ![q] = "batch"]
    BY <1>5, DecideEffect
  <2>2. q # s => mode'[s] = mode[s]
    BY <2>1 DEF TypeOK
  <2>3. ASSUME q = s
        PROVE  /\ before'[s] = {b \in Settlements : pc[b] \in Ended}
               /\ Instant(Utilisation(Sum({p \in Settlements : OnFloat(p)})), input[s].bps)
    <3>1. mode' # [mode EXCEPT ![q] = "batch"]
      BY <2>3 DEF TypeOK
    <3>2. /\ Reading(q, Settlements)
          /\ Instant(Utilisation(Sum({p \in Settlements : OnFloat(p)})), input[q].bps)
      BY <2>1, <3>1
    <3> QED
      BY <1>3, <2>3, <3>2 DEF TypeOK, Reading
  <2> QED
    BY <2>1, <2>2, <2>3
<1>6. ASSUME \A q \in Settlements : ~Decide(q) /\ ~Commit(q)
      PROVE  posted' = posted /\ mode' = mode /\ old \subseteq old'
  BY <1>6 DEF Next, Settle, Send, Begin, RunBatch, Group, SendBatch, PersistBatch, Die, Age, NextDay,
              vars, settleVars
<1>7. CASE Decide(s)
  <2> DEFINE P == (posted' \cap before'[s]) \ old'
             Q == {p \in Settlements : OnFloat(p)}
  <2>1. \A p \in posted : mode[p] = "instant" /\ status[p] \in {"sending", "settled"}
    BY <1>3 DEF ProgressInv, SettleProgress
  <2>2. P \subseteq Q /\ Q \subseteq Settlements
    BY <1>3, <1>5, <1>7, <2>1 DEF OnFloat
  <2>3. Instant(Utilisation(Sum(Q)), input[s].bps)
    BY <1>5, <1>7
  <2> HIDE DEF P, Q
  <2>4. Instant(Utilisation(Sum(P)), input[s].bps)
    BY <1>1, <2>2, <2>3, InstantMonotone
  <2> QED
    BY <1>2, <2>4 DEF P
<1>8. CASE ~Decide(s)
  <2> DEFINE P == (posted' \cap before'[s]) \ old'
             Q == (posted \cap before[s]) \ old
  <2>1. before'[s] = before[s]
    BY <1>1, <1>8 DEF OwnSteps
  <2>2. mode[s] = "instant"
    BY <1>4, <1>5, <1>6, <1>8
  <2>3. Instant(Utilisation(Sum(Q)), input[s].bps)
    BY <2>2 DEF FloatInv
  <2>4. P \subseteq Q
    <3>1. \A p \in before[s] : pc[p] \in Ended
      BY <1>3 DEF BeforeInv
    <3>2. posted' \cap before[s] \subseteq posted
      BY <1>4, <1>5, <1>6, <3>1 DEF Ended
    <3>3. old \subseteq old'
      BY <1>4, <1>5, <1>6
    <3> QED
      BY <2>1, <3>2, <3>3
  <2>5. Q \subseteq Settlements
    BY <1>3
  <2> HIDE DEF P, Q
  <2>6. Instant(Utilisation(Sum(P)), input[s].bps)
    BY <1>1, <2>3, <2>4, <2>5, InstantMonotone
  <2> QED
    BY <1>2, <2>6 DEF P
<1> QED
  BY <1>7, <1>8

----
(* The theorems *)

LEMMA InvInit == Init => IInv
<1> SUFFICES ASSUME Init PROVE IInv
  OBVIOUS
<1>1. TypeOK /\ ProgressInv
  BY TypeInit, ProgressInit
<1>2. BeforeInv
  BY ActorsDiffer DEF Init, BeforeInv
<1>3. ReadAllInv
  BY ActorsDiffer DEF Init, ReadAllInv
<1>4. SentInv
  BY DEF Init, SentInv
<1>5. SettledInv
  BY DEF Init, SettledInv
<1>6. BatchInv
  BY DEF Init, BatchInv
<1>7. FloatInv
  BY DEF Init, FloatInv
<1> QED
  BY <1>1, <1>2, <1>3, <1>4, <1>5, <1>6, <1>7 DEF IInv

LEMMA InvStep == IInv /\ [Next]_vars => IInv'
BY TypeStep, ProgressStep, BeforeStep, ReadAllStep, SentStep, SettledStep, BatchStep, FloatStep DEF IInv

LEMMA InvCorrect == Spec => []IInv
BY InvInit, InvStep, PTL DEF Spec

\* A transfer of a settlement is the one it made for its payout.
LEMMA PaymentOfOne ==
    ASSUME IInv, NEW s \in Settlements, NEW x \in bank, Pays(x, s)
    PROVE  \/ x = <<s, Merchant(s)>> /\ mode[s] = "instant"
           \/ /\ x[1] \in Runs /\ x[2] = Merchant(s) /\ x = <<x[1], x[2]>> /\ mode[s] = "batch"
              /\ Merchant(s) \in Merchants /\ s \in group[x[1]][Merchant(s)]
<1>1. x = <<x[1], x[2]>> /\ x[1] \in Actors /\ x[2] \in Merchants
  BY DEF IInv, TypeOK
<1>2. CASE x[1] \in Runs
  BY <1>1, <1>2 DEF IInv, ProgressInv, GroupProgress, Pays
<1>3. CASE x[1] \notin Runs
  BY <1>1, <1>3 DEF IInv, ProgressInv, SentProgress, Pays
<1> QED
  BY <1>2, <1>3

LEMMA InvRows == IInv => RowsAreTrue
<1> SUFFICES ASSUME IInv, NEW s \in Settlements
             PROVE  /\ status[s] = "failed" => \A x \in bank : ~Pays(x, s)
                    /\ <<s, Merchant(s)>> \in bank /\ pc[s] = "done" => s \in posted
                    /\ s \in posted => mode[s] = "instant" /\ status[s] \in {"sending", "settled"}
  BY DEF IInv, SentInv, RowsAreTrue
<1>1. SettleProgress(s) /\ SentProgress(s) /\ Merchant(s) \in Merchants
  <2>1. Merchant(s) \in Merchants
    BY InputTypes, Zenon DEF IInv
  <2> QED
    BY <2>1 DEF IInv, ProgressInv
<1>2. ASSUME status[s] = "failed", NEW x \in bank, Pays(x, s) PROVE FALSE
  <2>1. mode[s] = "instant" /\ verdict[s] = "failed"
    BY <1>1, <1>2 DEF SettleProgress
  <2>2. x = <<s, Merchant(s)>>
    BY <1>2, <2>1, PaymentOfOne
  <2> QED
    BY <1>1, <1>2, <2>1, <2>2 DEF SentProgress
<1>3. <<s, Merchant(s)>> \in bank /\ pc[s] = "done" => s \in posted
  BY <1>1 DEF SettleProgress, SentProgress
<1>4. s \in posted => mode[s] = "instant" /\ status[s] \in {"sending", "settled"}
  BY <1>1 DEF SettleProgress
<1> QED
  BY <1>2, <1>3, <1>4

LEMMA InvTwice == IInv => PaidTwiceNeedsDoubt
<1> SUFFICES ASSUME IInv, NEW s \in Settlements, NEW x \in bank, NEW y \in bank,
                    Pays(x, s), Pays(y, s), x # y
             PROVE  /\ x[1] \in Runs /\ y[1] \in Runs
                    /\ ~(x[1] \in before[y[1]] /\ pc[x[1]] = "done" /\ told[x[1]][Merchant(s)] = "settled")
  BY DEF PaidTwiceNeedsDoubt
<1>1. /\ x[1] \in Runs /\ s \in group[x[1]][Merchant(s)]
      /\ y[1] \in Runs /\ s \in group[y[1]][Merchant(s)]
      /\ Merchant(s) \in Merchants
  BY PaymentOfOne
<1>2. ~(x[1] \in before[y[1]] /\ told[x[1]][Merchant(s)] = "settled")
  BY <1>1 DEF IInv, SettledInv
<1> QED
  BY <1>1, <1>2

LEMMA InvBatch == IInv => UnsettledBatchConsumesNothing
<1> SUFFICES ASSUME IInv, NEW m \in Merchants, NEW d \in 1..LastDay,
                    batch[m][d].status \in {"sending", "failed"}, NEW s \in batch[m][d].payouts,
                    status[s] # "degraded_to_batch"
             PROVE  \E q, r \in Runs :
                       /\ input[r].day = d
                       /\ batch[m][d] = [status |-> told[r][m], payouts |-> group[r][m]]
                       /\ <<q, m>> \in bank /\ told[q][m] = "settled"
                       /\ Overlapped(q, r)
  BY DEF UnsettledBatchConsumesNothing
<1>1. PICK r \in Runs :
         /\ input[r].day = d /\ batch[m][d] = [status |-> told[r][m], payouts |-> group[r][m]]
         /\ \A q \in Runs : input[q].day = d /\ told[q][m] # "none" => r \notin before[q]
  BY DEF IInv, BatchInv, Wrote
<1>2. s \in group[r][m] /\ status[s] = "settled"
  BY <1>1 DEF IInv, ProgressInv, GroupProgress
<1>3. PICK q \in Runs : /\ <<q, m>> \in bank /\ told[q][m] = "settled"
                        /\ input[q].day = input[r].day /\ q \notin before[r]
  BY <1>2 DEF IInv, SettledInv
<1>4. q # r
  BY <1>1, <1>3
<1>5. Overlapped(q, r)
  BY <1>1, <1>3, <1>4 DEF Overlapped
<1> QED
  BY <1>1, <1>3, <1>5

LEMMA InvFloat == IInv => FloatInTurn
BY DEF IInv, FloatInv, ProgressInv, SettleProgress, TypeOK, FloatInTurn

\* A row that says settled was paid for, or came into its day under a run; one that says
\* failed was not; and what was sent at once is in the ledger.
THEOREM RowsCorrect == Spec => []RowsAreTrue
BY InvCorrect, InvRows, PTL

\* Two transfers for one payout are two runs', and the first was not known to have paid.
THEOREM TwiceOnlyInDoubt == Spec => []PaidTwiceNeedsDoubt
BY InvCorrect, InvTwice, PTL

\* Settlements made in turn keep to the float's thresholds.
THEOREM FloatKept == Spec => []FloatInTurn
BY InvCorrect, InvFloat, PTL

\* A batch in doubt or failed leaves what it carries waiting, unless the run that wrote it
\* overlapped another, which had sent and settled it.
THEOREM BatchesConsumeWhatTheyPay == Spec => []UnsettledBatchConsumesNothing
BY InvCorrect, InvBatch, PTL
=============================================================================
