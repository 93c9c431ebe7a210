--------------------------- MODULE RequestsProofs ---------------------------
(***************************************************************************)
(* For any attempts, keys, links and loads: the types of Requests, that a  *)
(* key reports one attempt and pays again only in doubt, and that the      *)
(* payment links of Requests implement PaymentLinks.                       *)
(***************************************************************************)
EXTENDS Requests, TLAPS

----
(* The inductive invariant *)

Final == {"done", "refused"}

\* Before its transaction an attempt has no result and has moved no money.
Early == {"claim", "get", "lookup", "reserve", "mark", "commit"}

\* What the program counter of an attempt says of its effects.
Progress(a) ==
    /\ pc[a] # "ended" => answer[a] = "none"
    /\ pc[a] \in Early => a \notin landed
    /\ pc[a] \in {"lookup", "mark"} => PaysLink(a)
    /\ pc[a] = "invalidate" => a \in landed
    /\ pc[a] = "store" => result[a] \in Final /\ (result[a] = "done" <=> a \in landed)
    /\ pc[a] = "ended" /\ a \in landed => answer[a] \in {"done", "unknown"}

ProgressInv == \A a \in Attempts : Progress(a)

\* A key in progress has at most one owner, and an owner's key is in progress.
OwnerInv ==
    /\ \A a \in Attempts : pc[a] \in Owning =>
          record[Key(a)].status = "in_progress" /\ record[Key(a)].body = Asked(a)
    /\ \A a, b \in Attempts :
          pc[a] \in Owning /\ pc[b] \in Owning /\ Key(a) = Key(b) => a = b

\* Attempt r has ended, and code is what it did under key k.
Reports(r, k, code) ==
    /\ r \in Attempts /\ pc[r] = "ended" /\ Key(r) = k
    /\ code = result[r] /\ code \in Final
    /\ code = "done" <=> r \in landed

\* A completed key reports its own attempt, and keeps that attempt's request.
RecordInv ==
    \A k \in Keys : record[k].status = "completed" =>
        /\ Reports(record[k].by, k, record[k].code)
        /\ Asked(record[k].by) = record[k].body

\* After a 2xx or a 4xx the key has no owner and can have none again.
ReceiptInv ==
    \A a \in Attempts : answer[a] \in Final =>
        /\ Reports(receipt[a], Key(a), answer[a])
        /\ Asked(receipt[a]) = Asked(a)
        /\ record[Key(a)].status # "absent"
        /\ record[Key(a)].status = "completed" => record[Key(a)].by = receipt[a]
        /\ \A b \in Attempts : pc[b] \in Owning => Key(b) # Key(a)

SameReceipt ==
    \A a, b \in Attempts :
        answer[a] \in Final /\ answer[b] \in Final /\ Key(a) = Key(b) => receipt[a] = receipt[b]

KeyInv ==
    TypeOK /\ ProgressInv /\ OwnerInv /\ RecordInv /\ ReceiptInv /\ SameReceipt
        /\ SecondPaymentNeedsDoubt

\* Whoever is about to commit a paid link, or its cancellation, holds the row of an
\* open link.
LockInv ==
    /\ \A a \in Attempts : pc[a] = "commit" /\ PaysLink(a) =>
          lock[Link(a)] = a /\ status[Link(a)] = "open"
    /\ \A l \in Links : lock[l] = Merchant => status[l] = "open"

Collected(l) == {a \in landed : PaysLink(a) /\ Link(a) = l}

\* A link that is not paid has collected nothing.
CollectedInv == \A l \in Links : status[l] = "open" => Collected(l) = {}

LinkInv == TypeOK /\ ProgressInv /\ LockInv /\ CollectedInv

----
(* Types *)

LEMMA LinkType ==
    ASSUME TypeOK, NEW a \in Attempts
    PROVE  /\ Key(a) \in Keys /\ Asked(a) \in Bodies
           /\ PaysLink(a) => Link(a) \in Links
BY BodiesAreBodies DEF TypeOK, Key, Asked, PaysLink, Link, Body

\* The rows of idempotency_keys, as TypeOK has them.
Rows == [status : {"absent", "in_progress", "completed"},
         body : Bodies \cup {NoBody},
         code : {"none", "done", "refused"},
         by : Attempts \cup {NoAttempt}]

LEMMA RowTypes ==
    /\ NoRecord \in Rows
    /\ \A body \in Bodies : InProgress(body) \in Rows
    /\ \A body \in Bodies \cup {NoBody}, code \in Final, a \in Attempts :
          Completed(body, code, a) \in Rows
BY DEF Rows, NoRecord, InProgress, Completed, Final

LEMMA RowFields ==
    /\ NoRecord.status = "absent"
    /\ \A body : InProgress(body).status = "in_progress" /\ InProgress(body).body = body
    /\ \A body, code, a :
          /\ Completed(body, code, a).status = "completed"
          /\ Completed(body, code, a).body = body
          /\ Completed(body, code, a).code = code
          /\ Completed(body, code, a).by = a
BY DEF NoRecord, InProgress, Completed

LEMMA TypeInit == Init => TypeOK
BY LoadsAreLoads DEF Init, TypeOK, NoRecord, Running, Owning, Results, Answers, Nobody

\* A reply leaves its attempt ended and its answer and receipt well typed.
LEMMA ReplyType ==
    ASSUME TypeOK, NEW a \in Attempts, NEW code \in Answers,
           NEW by \in Attempts \cup {NoAttempt}, Reply(a, code, by)
    PROVE  /\ pc' \in [Attempts -> Running \cup {"ended"}]
           /\ answer' \in [Attempts -> Answers]
           /\ receipt' \in [Attempts -> Attempts \cup {NoAttempt}]
BY DEF TypeOK, Reply, Go, Answers, Results

LEMMA TypeStep == TypeOK /\ ProgressInv /\ [Next]_vars => TypeOK'
<1> SUFFICES ASSUME TypeOK, ProgressInv, [Next]_vars PROVE TypeOK'
  OBVIOUS
<1>0. record \in [Keys -> Rows]
  BY DEF TypeOK, Rows
<1> USE DEF Go, Respond, Running, Owning, Results, handlerVars, replyVars, linkVars
<1>1. ASSUME NEW a \in Attempts, Claim(a) PROVE TypeOK'
  <2>1. record' \in [Keys -> Rows]
    BY <1>0, <1>1, LinkType, RowTypes DEF Claim
  <2> QED
    BY <1>1, <2>1 DEF TypeOK, Claim, Rows
<1>2. ASSUME NEW a \in Attempts, Get(a) PROVE TypeOK'
  <2> DEFINE r == record[Key(a)]
  <2>1. r.code \in {"none", "done", "refused"} /\ r.by \in Attempts \cup {NoAttempt}
    BY LinkType DEF TypeOK
  <2>2. PICK code \in Answers, by \in Attempts \cup {NoAttempt} : Reply(a, code, by)
    BY <1>2, <2>1 DEF Get, Answers
  <2> QED
    BY <1>2, <2>2, ReplyType DEF TypeOK, Get
<1>3. ASSUME NEW a \in Attempts, Lookup(a) PROVE TypeOK'
  BY <1>3 DEF TypeOK, Lookup
<1>4. ASSUME NEW a \in Attempts, Reserve(a) PROVE TypeOK'
  BY <1>4 DEF TypeOK, Reserve
<1>5. ASSUME NEW a \in Attempts, MarkPaid(a) PROVE TypeOK'
  BY <1>5 DEF TypeOK, MarkPaid
<1>6. ASSUME NEW a \in Attempts, Commit(a) PROVE TypeOK'
  <2>1. lock' \in [Links -> Attempts \cup {Merchant, Nobody}]
    BY <1>6 DEF TypeOK, Commit, Unlock, Nobody
  <2>2. CASE Land(a)
    <3>1. status' \in [Links -> {"open", "paid", "cancelled"}]
      BY <2>2, LinkType DEF TypeOK, Land
    <3>2. paidBy' \in [Links -> Attempts \cup {NoAttempt}]
      BY <2>2, LinkType DEF TypeOK, Land
    <3>3. landed' \subseteq Attempts
      BY <2>2 DEF TypeOK, Land
    <3> QED
      BY <1>6, <2>1, <3>1, <3>2, <3>3 DEF TypeOK, Commit
  <2>3. CASE UNCHANGED <<landed, status, paidBy>>
    BY <1>6, <2>1, <2>3 DEF TypeOK, Commit
  <2> QED
    BY <1>6, <2>2, <2>3 DEF Commit
<1>7. ASSUME NEW a \in Attempts, Invalidate(a) PROVE TypeOK'
  BY <1>7 DEF TypeOK, Invalidate
<1>8. ASSUME NEW a \in Attempts, Store(a) PROVE TypeOK'
  <2>1. result[a] \in Final
    BY <1>8 DEF Store, ProgressInv, Progress
  <2>2. Reply(a, result[a], a)
    BY <1>8 DEF Store
  <2>3. record[Key(a)].body \in Bodies \cup {NoBody}
    <3>1. record[Key(a)] \in Rows
      BY <1>0, LinkType
    <3> QED
      BY <3>1 DEF Rows
  <2>4. record' \in [Keys -> Rows]
    BY <1>0, <1>8, <2>1, <2>3, LinkType, RowTypes DEF Store
  <2> QED
    BY <1>8, <2>1, <2>2, <2>4, ReplyType DEF TypeOK, Store, Rows, Final, Answers
<1>9. ASSUME NEW a \in Attempts, Drop(a) PROVE TypeOK'
  <2>1. Reply(a, "unknown", NoAttempt)
    BY <1>9 DEF Drop
  <2>2. record' \in [Keys -> Rows]
    BY <1>0, <1>9, LinkType, RowTypes DEF Drop
  <2> QED
    BY <1>9, <2>1, <2>2, ReplyType DEF TypeOK, Drop, Rows, Answers
<1>10. ASSUME NEW a \in Attempts, Die(a) PROVE TypeOK'
  <2>1. Reply(a, "unknown", NoAttempt)
    BY <1>10 DEF Die
  <2> QED
    BY <1>10, <2>1, ReplyType DEF TypeOK, Die, Unlock, Nobody, Answers
<1>11. ASSUME NEW l \in Links, CancelBegin(l) \/ CancelEnd(l) \/ Expire(l) PROVE TypeOK'
  BY <1>11 DEF TypeOK, CancelBegin, CancelEnd, Expire, Merchant, Nobody
<1>12. CASE UNCHANGED vars
  BY <1>12 DEF TypeOK, vars
<1> QED
  BY <1>1, <1>2, <1>3, <1>4, <1>5, <1>6, <1>7, <1>8, <1>9, <1>10, <1>11, <1>12 DEF Next, Work

LEMMA ProgressInit == Init => ProgressInv
BY DEF Init, ProgressInv, Progress

\* A step of one attempt leaves the others where they are.
LEMMA Others ==
    ASSUME TypeOK, NEW a \in Attempts, Work(a) \/ Die(a)
    PROVE  /\ ask' = ask
           /\ \A b \in Attempts \ {a} :
                 /\ pc'[b] = pc[b] /\ result'[b] = result[b]
                 /\ answer'[b] = answer[b] /\ receipt'[b] = receipt[b]
                 /\ b \in landed' <=> b \in landed
<1> USE DEF TypeOK, Go, Respond, Reply, handlerVars, replyVars, linkVars
<1>1. CASE Claim(a) \/ Get(a) \/ Lookup(a) \/ Reserve(a)
  BY <1>1 DEF Claim, Get, Lookup, Reserve
<1>2. CASE MarkPaid(a) \/ Commit(a) \/ Invalidate(a)
  BY <1>2 DEF MarkPaid, Commit, Land, Invalidate
<1>3. CASE Store(a) \/ Drop(a) \/ Die(a)
  BY <1>3 DEF Store, Drop, Die
<1> QED
  BY <1>1, <1>2, <1>3 DEF Work

\* The merchant and the clock leave every attempt where it is.
LEMMA LinkStepFrame ==
    ASSUME NEW l \in Links, CancelBegin(l) \/ CancelEnd(l) \/ Expire(l)
    PROVE  UNCHANGED <<handlerVars, replyVars, landed>>
BY DEF CancelBegin, CancelEnd, Expire

LEMMA ProgressStep == TypeOK /\ ProgressInv /\ [Next]_vars => ProgressInv'
<1> SUFFICES ASSUME TypeOK, ProgressInv, [Next]_vars PROVE ProgressInv'
  OBVIOUS
<1>1. ASSUME NEW a \in Attempts, Work(a) \/ Die(a) PROVE ProgressInv'
  <2>1. \A b \in Attempts \ {a} : Progress(b)'
    BY <1>1, Others DEF ProgressInv, Progress, PaysLink, Asked
  <2>2. Progress(a)
    BY DEF ProgressInv
  <2>3. Progress(a)'
    <3> USE <2>2 DEF TypeOK, Progress, Early, Final, Go, Respond, Reply, PaysLink, Asked, Results,
                     handlerVars, replyVars, linkVars
    <3>1. CASE Claim(a)
      BY <3>1 DEF Claim
    <3>2. CASE Get(a)
      BY <3>2 DEF Get
    <3>3. CASE Lookup(a) \/ Reserve(a)
      BY <3>3 DEF Lookup, Reserve
    <3>4. CASE MarkPaid(a)
      BY <3>4 DEF MarkPaid
    <3>5. CASE Commit(a)
      BY <3>5 DEF Commit, Land
    <3>6. CASE Invalidate(a)
      BY <3>6 DEF Invalidate
    <3>7. CASE Store(a)
      BY <3>7 DEF Store
    <3>8. CASE Drop(a) \/ Die(a)
      BY <3>8 DEF Drop, Die
    <3> QED
      BY <1>1, <3>1, <3>2, <3>3, <3>4, <3>5, <3>6, <3>7, <3>8 DEF Work
  <2> QED
    BY <2>1, <2>3 DEF ProgressInv
<1>2. ASSUME NEW l \in Links, CancelBegin(l) \/ CancelEnd(l) \/ Expire(l) PROVE ProgressInv'
  BY <1>2, LinkStepFrame DEF ProgressInv, Progress, PaysLink, Asked, handlerVars, replyVars
<1>3. CASE UNCHANGED vars
  BY <1>3 DEF ProgressInv, Progress, PaysLink, Asked, vars
<1> QED
  BY <1>1, <1>2, <1>3 DEF Next

\* A key's row keeps its form, and a row lock is held by someone who can let it go.
THEOREM TypeCorrect == Spec => []TypeOK
<1>1. Init => TypeOK /\ ProgressInv
  BY TypeInit, ProgressInit
<1>2. TypeOK /\ ProgressInv /\ [Next]_vars => (TypeOK /\ ProgressInv)'
  BY TypeStep, ProgressStep
<1> QED
  BY <1>1, <1>2, PTL DEF Spec

----
(* Keys *)

LEMMA KeyInit == Init => KeyInv
<1> SUFFICES ASSUME Init PROVE KeyInv
  OBVIOUS
<1>1. TypeOK /\ ProgressInv
  BY TypeInit, ProgressInit
<1>2. \A a \in Attempts : pc[a] = "claim" /\ answer[a] = "none"
  BY DEF Init
<1>3. \A k \in Keys : record[k].status = "absent"
  BY DEF Init, NoRecord
<1>4. landed = {}
  BY DEF Init
<1> QED
  BY <1>1, <1>2, <1>3, <1>4
     DEF KeyInv, OwnerInv, RecordInv, ReceiptInv, SameReceipt, SecondPaymentNeedsDoubt, Owning, Final

\* What a step of attempt a does to the row of its key, and to its ownership.
LEMMA RowStep ==
    ASSUME KeyInv, NEW a \in Attempts, Work(a) \/ Die(a)
    PROVE  /\ \A k \in Keys \ {Key(a)} : record'[k] = record[k]
           /\ \/ record'[Key(a)] = record[Key(a)]
              \/ /\ pc[a] = "claim" /\ record[Key(a)].status = "absent"
                 /\ record'[Key(a)] = InProgress(Asked(a))
              \/ /\ pc[a] = "store" /\ pc'[a] = "ended"
                 /\ record'[Key(a)] = Completed(Asked(a), result[a], a)
              \/ pc[a] = "drop" /\ pc'[a] = "ended" /\ record'[Key(a)] = NoRecord
           /\ pc'[a] \in Owning /\ pc[a] \notin Owning =>
                 record[Key(a)].status = "absent" /\ record'[Key(a)] = InProgress(Asked(a))
           /\ pc[a] = "ended" => FALSE
<1>1. Key(a) \in Keys /\ record \in [Keys -> Rows] /\ pc \in [Attempts -> Running \cup {"ended"}]
  BY LinkType DEF KeyInv, TypeOK, Rows
<1>2. pc[a] = "store" => record[Key(a)].body = Asked(a)
  BY DEF KeyInv, OwnerInv, Owning
<1> USE DEF Owning, Running, Go, Respond, Reply, handlerVars, replyVars, linkVars
<1>3. CASE Claim(a)
  BY <1>1, <1>3 DEF Claim
<1>4. CASE Get(a) \/ Lookup(a) \/ Reserve(a) \/ MarkPaid(a) \/ Commit(a) \/ Invalidate(a) \/ Die(a)
  BY <1>1, <1>4 DEF Get, Lookup, Reserve, MarkPaid, Commit, Invalidate, Die
<1>5. CASE Store(a)
  BY <1>1, <1>2, <1>5 DEF Store
<1>6. CASE Drop(a)
  BY <1>1, <1>6 DEF Drop
<1> QED
  BY <1>3, <1>4, <1>5, <1>6 DEF Work

LEMMA OwnerStep ==
    ASSUME KeyInv, NEW a \in Attempts, Work(a) \/ Die(a)
    PROVE  OwnerInv'
<1>1. \A b \in Attempts : Key(b)' = Key(b) /\ Asked(b)' = Asked(b) /\ Key(b) \in Keys
  BY Others, LinkType DEF KeyInv, Key, Asked
<1>2. \A b \in Attempts \ {a} : pc'[b] = pc[b]
  BY Others DEF KeyInv
<1>3. ASSUME NEW b \in Attempts, b # a, pc[b] \in Owning, Key(b) = Key(a)
      PROVE  record'[Key(a)] = record[Key(a)] /\ pc'[a] \notin Owning
  <2>1. record[Key(a)].status = "in_progress" /\ pc[a] \notin Owning
    BY <1>3 DEF KeyInv, OwnerInv
  <2> QED
    BY <2>1, RowStep DEF Owning
<1>4. pc'[a] \in Owning => record'[Key(a)].status = "in_progress" /\ record'[Key(a)].body = Asked(a)
  <2>1. CASE pc[a] \in Owning /\ pc'[a] \in Owning
    <3>1. record'[Key(a)] = record[Key(a)]
      BY <2>1, RowStep DEF Owning
    <3> QED
      BY <2>1, <3>1 DEF KeyInv, OwnerInv
  <2>2. CASE pc[a] \notin Owning /\ pc'[a] \in Owning
    BY <2>2, RowStep, RowFields
  <2> QED
    BY <2>1, <2>2
<1>5. \A b \in Attempts \ {a} : pc[b] \in Owning =>
        record'[Key(b)].status = "in_progress" /\ record'[Key(b)].body = Asked(b)
  BY <1>1, <1>3, RowStep DEF KeyInv, OwnerInv
<1> QED
  BY <1>1, <1>2, <1>3, <1>4, <1>5 DEF KeyInv, OwnerInv

\* What an attempt that has ended did under its key stays what it did.
LEMMA ReportStays ==
    ASSUME TypeOK, NEW a \in Attempts, Work(a) \/ Die(a), pc[a] # "ended",
           NEW r, NEW k, NEW code, Reports(r, k, code)
    PROVE  Reports(r, k, code)' /\ Asked(r)' = Asked(r)
BY Others DEF Reports, Key, Asked

LEMMA RecordStep ==
    ASSUME KeyInv, NEW a \in Attempts, Work(a) \/ Die(a)
    PROVE  RecordInv'
<1> SUFFICES ASSUME NEW k \in Keys, record'[k].status = "completed"
             PROVE  /\ Reports(record[k].by, k, record[k].code)'
                    /\ (Asked(record[k].by) = record[k].body)'
  BY DEF RecordInv
<1>1. pc[a] # "ended"
  BY RowStep
<1>2. CASE record'[k] = record[k]
  <2>1. Reports(record[k].by, k, record[k].code) /\ Asked(record[k].by) = record[k].body
    BY <1>2 DEF KeyInv, RecordInv
  <2>2. Reports(record[k].by, k, record[k].code)' /\ Asked(record[k].by)' = Asked(record[k].by)
    BY <1>1, <1>2, <2>1, Others DEF KeyInv, Reports, Key, Asked
  <2> QED
    BY <1>2, <2>1, <2>2
<1>3. CASE record'[k] # record[k]
  <2>1. k = Key(a) /\ pc[a] = "store" /\ pc'[a] = "ended"
        /\ record'[k] = Completed(Asked(a), result[a], a)
    BY <1>3, RowStep, RowFields
  <2>2. Key(a)' = Key(a) /\ Asked(a)' = Asked(a)
    BY Others DEF KeyInv, Key, Asked
  <2>3. result' = result /\ landed' = landed
    BY <2>1 DEF Work, Claim, Get, Lookup, Reserve, MarkPaid, Commit, Invalidate, Store, Drop, Die
  <2>4. result[a] \in Final /\ (result[a] = "done" <=> a \in landed)
    BY <2>1 DEF KeyInv, ProgressInv, Progress
  <2> QED
    BY <2>1, <2>2, <2>3, <2>4, RowFields DEF Reports
<1> QED
  BY <1>2, <1>3

\* A 2xx or a 4xx is the response of the attempt itself, or the replay of a stored one.
LEMMA AnswerStep ==
    ASSUME KeyInv, NEW a \in Attempts, Work(a) \/ Die(a), answer'[a] \in Final
    PROVE  /\ pc'[a] = "ended" /\ landed' = landed /\ result' = result
           /\ \/ /\ pc[a] = "get" /\ record' = record
                 /\ record[Key(a)].status = "completed" /\ record[Key(a)].body = Asked(a)
                 /\ answer'[a] = record[Key(a)].code /\ receipt'[a] = record[Key(a)].by
              \/ /\ pc[a] = "store" /\ answer'[a] = result[a] /\ receipt'[a] = a
                 /\ \/ record'[Key(a)] = record[Key(a)]
                    \/ record'[Key(a)] = Completed(Asked(a), result[a], a)
<1>1. TypeOK /\ pc[a] # "ended" /\ answer[a] = "none" /\ Key(a) \in Keys
  BY RowStep, LinkType DEF KeyInv, ProgressInv, Progress
<1>2. answer' # answer
  BY <1>1 DEF Final
<1> USE <1>1, <1>2 DEF Go, Respond, Final, handlerVars, replyVars, linkVars
<1>3. CASE Claim(a) \/ Lookup(a) \/ Reserve(a) \/ MarkPaid(a) \/ Commit(a) \/ Invalidate(a)
  BY <1>3 DEF Claim, Lookup, Reserve, MarkPaid, Commit, Invalidate
<1>4. CASE Get(a)
  BY <1>4 DEF Get, Reply, TypeOK
<1>5. CASE Store(a)
  <2>1. record[Key(a)].body = Asked(a)
    BY <1>5 DEF Store, KeyInv, OwnerInv, Owning
  <2> QED
    BY <1>5, <2>1 DEF Store, Reply, TypeOK
<1>6. CASE Drop(a) \/ Die(a)
  BY <1>6 DEF Drop, Die, Reply, TypeOK
<1> QED
  BY <1>3, <1>4, <1>5, <1>6 DEF Work

\* An attempt that has an answer keeps it, and its key keeps what it reports.
LEMMA ReceiptStays ==
    ASSUME KeyInv, NEW a \in Attempts, Work(a) \/ Die(a),
           NEW b \in Attempts \ {a}, answer[b] \in Final
    PROVE  /\ Reports(receipt[b], Key(b), answer[b])'
           /\ (Asked(receipt[b]) = Asked(b))'
           /\ (record[Key(b)].status # "absent")'
           /\ (record[Key(b)].status = "completed" => record[Key(b)].by = receipt[b])'
           /\ \A c \in Attempts : (pc[c] \in Owning => Key(c) # Key(b))'
<1>1. /\ pc[a] # "ended"
      /\ answer'[b] = answer[b] /\ receipt'[b] = receipt[b]
      /\ \A c \in Attempts : Key(c)' = Key(c) /\ Asked(c)' = Asked(c)
  BY RowStep, Others DEF KeyInv, Key, Asked
<1>2. /\ Reports(receipt[b], Key(b), answer[b]) /\ Asked(receipt[b]) = Asked(b)
      /\ record[Key(b)].status # "absent"
      /\ record[Key(b)].status = "completed" => record[Key(b)].by = receipt[b]
      /\ \A c \in Attempts : pc[c] \in Owning => Key(c) # Key(b)
  BY DEF KeyInv, ReceiptInv
<1>3. Reports(receipt[b], Key(b), answer[b])' /\ (Asked(receipt[b]) = Asked(b))'
  BY <1>1, <1>2, Others DEF KeyInv, Reports
<1>4. record'[Key(b)] = record[Key(b)]
  <2>1. Key(b) \in Keys
    BY LinkType DEF KeyInv
  <2>2. CASE Key(b) = Key(a)
    <3>1. pc[a] \notin Owning /\ record[Key(a)].status # "absent"
      BY <1>2, <2>2
    <3> QED
      BY <2>2, <3>1, RowStep DEF Owning
  <2> QED
    BY <2>1, <2>2, RowStep
<1>5. \A c \in Attempts : pc'[c] \in Owning => Key(c) # Key(b)
  BY <1>2, RowStep, Others DEF KeyInv
<1> QED
  BY <1>1, <1>2, <1>3, <1>4, <1>5

LEMMA ReceiptStep ==
    ASSUME KeyInv, NEW a \in Attempts, Work(a) \/ Die(a), OwnerInv'
    PROVE  ReceiptInv'
<1>1. \A b \in Attempts : Key(b)' = Key(b) /\ Asked(b)' = Asked(b)
  BY Others DEF KeyInv, Key, Asked
<1>2. ASSUME NEW b \in Attempts \ {a}, answer'[b] \in Final
      PROVE  answer[b] \in Final
  BY <1>2, Others DEF KeyInv
<1>3. ASSUME answer'[a] \in Final
      PROVE  /\ Reports(receipt[a], Key(a), answer[a])'
             /\ (Asked(receipt[a]) = Asked(a))'
             /\ (record[Key(a)].status # "absent")'
             /\ (record[Key(a)].status = "completed" => record[Key(a)].by = receipt[a])'
             /\ \A c \in Attempts : (pc[c] \in Owning => Key(c) # Key(a))'
  <2> USE <1>3
  <2>1. pc'[a] = "ended" /\ landed' = landed /\ result' = result
    BY AnswerStep
  <2>2. CASE pc[a] = "get"
    <3>1. /\ record' = record /\ record[Key(a)].status = "completed"
          /\ record[Key(a)].body = Asked(a)
          /\ answer'[a] = record[Key(a)].code /\ receipt'[a] = record[Key(a)].by
      BY <2>2, AnswerStep
    <3>2. Reports(receipt'[a], Key(a), answer'[a]) /\ Asked(receipt'[a]) = Asked(a)
      BY <3>1, LinkType DEF KeyInv, RecordInv
    <3>3. \A c \in Attempts : pc'[c] \in Owning => Key(c) # Key(a)
      BY <1>1, <3>1, <2>1 DEF OwnerInv, Owning
    <3> QED
      BY <1>1, <2>1, <2>2, <3>1, <3>2, <3>3, Others DEF KeyInv, Reports
  <2>3. CASE pc[a] = "store"
    <3>1. /\ answer'[a] = result[a] /\ receipt'[a] = a
          /\ \/ record'[Key(a)] = record[Key(a)]
             \/ record'[Key(a)] = Completed(Asked(a), result[a], a)
      BY <2>3, AnswerStep
    <3>2. result[a] \in Final /\ (result[a] = "done" <=> a \in landed)
      BY <2>3 DEF KeyInv, ProgressInv, Progress
    <3>3. record[Key(a)].status = "in_progress"
      BY <2>3 DEF KeyInv, OwnerInv, Owning
    <3>4. \A c \in Attempts : pc'[c] \in Owning => Key(c) # Key(a)
      BY <1>1, <2>1, <2>3, Others DEF KeyInv, OwnerInv, Owning
    <3> QED
      BY <1>1, <2>1, <3>1, <3>2, <3>3, <3>4, RowFields DEF Reports
  <2> QED
    BY <2>2, <2>3, AnswerStep
<1> QED
  BY <1>2, <1>3, ReceiptStays DEF ReceiptInv

LEMMA SameReceiptStep ==
    ASSUME KeyInv, NEW a \in Attempts, Work(a) \/ Die(a), ReceiptInv'
    PROVE  SameReceipt'
<1>1. \A b \in Attempts : Key(b)' = Key(b)
  BY Others DEF KeyInv, Key
<1>2. \A b \in Attempts \ {a} : answer'[b] = answer[b] /\ receipt'[b] = receipt[b]
  BY Others DEF KeyInv
<1>3. ASSUME NEW b \in Attempts \ {a}, answer'[a] \in Final, answer[b] \in Final, Key(a) = Key(b)
      PROVE  receipt'[a] = receipt[b]
  <2>1. pc[a] \notin Owning
    BY <1>3 DEF KeyInv, ReceiptInv
  <2>2. record[Key(a)].status = "completed" /\ receipt'[a] = record[Key(a)].by
    BY <1>3, <2>1, AnswerStep DEF Owning
  <2> QED
    BY <1>3, <2>2 DEF KeyInv, ReceiptInv
<1> QED
  BY <1>1, <1>2, <1>3 DEF KeyInv, SameReceipt

LEMMA DoubtStep ==
    ASSUME KeyInv, NEW a \in Attempts, Work(a) \/ Die(a), ProgressInv', TypeOK'
    PROVE  SecondPaymentNeedsDoubt'
<1>1. \A b \in Attempts : Key(b)' = Key(b)
  BY Others DEF KeyInv, Key
<1>2. \A b \in Attempts \ {a} : answer'[b] = answer[b] /\ (b \in landed' <=> b \in landed)
  BY Others DEF KeyInv
<1>3. pc[a] # "ended" /\ answer[a] = "none"
  BY RowStep DEF KeyInv, ProgressInv, Progress
<1>4. ASSUME NEW b \in Attempts \ {a}, a \in landed', b \in landed, Key(a) = Key(b)
      PROVE  "unknown" \in {answer'[a], answer[b]}
  <2>1. CASE a \in landed
    BY <1>3, <1>4, <2>1 DEF KeyInv, SecondPaymentNeedsDoubt, TypeOK
  <2>2. CASE a \notin landed
    <3>1. pc[a] \in Owning
      BY <1>4, <2>2 DEF Owning, Work, Claim, Get, Lookup, Reserve, MarkPaid, Commit, Invalidate,
                        Store, Drop, Die
    <3>2. pc[b] \notin Owning
      BY <1>4, <3>1 DEF KeyInv, OwnerInv
    <3>3. pc[b] = "ended" /\ answer[b] \in {"done", "unknown"}
      BY <1>4, <3>2 DEF KeyInv, ProgressInv, Progress, TypeOK, Early, Owning, Running
    <3>4. answer[b] \notin Final
      BY <1>4, <3>1 DEF KeyInv, ReceiptInv
    <3> QED
      BY <3>3, <3>4 DEF Final
  <2> QED
    BY <2>1, <2>2
<1>5. ASSUME NEW b \in Attempts \ {a}, NEW c \in Attempts \ {a},
             b # c, b \in landed, c \in landed, Key(b) = Key(c)
      PROVE  "unknown" \in {answer[b], answer[c]}
  BY <1>5 DEF KeyInv, SecondPaymentNeedsDoubt
<1>6. landed' \subseteq Attempts
  BY DEF TypeOK
<1> QED
  BY <1>1, <1>2, <1>4, <1>5, <1>6 DEF SecondPaymentNeedsDoubt

LEMMA KeyStep == KeyInv /\ [Next]_vars => KeyInv'
<1> SUFFICES ASSUME KeyInv, [Next]_vars PROVE KeyInv'
  OBVIOUS
<1>1. TypeOK' /\ ProgressInv'
  BY TypeStep, ProgressStep DEF KeyInv
<1>2. ASSUME NEW a \in Attempts, Work(a) \/ Die(a) PROVE KeyInv'
  BY <1>1, <1>2, OwnerStep, RecordStep, ReceiptStep, SameReceiptStep, DoubtStep DEF KeyInv
<1>3. ASSUME UNCHANGED <<handlerVars, replyVars, landed>> PROVE KeyInv'
  BY <1>1, <1>3 DEF KeyInv, OwnerInv, RecordInv, ReceiptInv, SameReceipt, SecondPaymentNeedsDoubt,
                    Reports, Key, Asked, handlerVars, replyVars
<1>4. UNCHANGED vars => UNCHANGED <<handlerVars, replyVars, landed>>
  BY DEF vars, handlerVars, replyVars
<1> QED
  BY <1>2, <1>3, <1>4, LinkStepFrame DEF Next

\* All that is told of a key is told of one attempt, and is true of it: replays after
\* crashes, failed stores and released keys never mix two attempts.
THEOREM ReceiptsAgree == Spec => []OneReceiptPerKey
<1>1. KeyInv => OneReceiptPerKey
  BY DEF KeyInv, ReceiptInv, SameReceipt, OneReceiptPerKey, Reports, Final
<1> QED
  BY <1>1, KeyInit, KeyStep, PTL DEF Spec

\* Of two payments of one key, one at least was answered by a 5xx or not at all.
THEOREM PaysAgainInDoubt == Spec => []SecondPaymentNeedsDoubt
<1>1. KeyInv => SecondPaymentNeedsDoubt
  BY DEF KeyInv
<1> QED
  BY <1>1, KeyInit, KeyStep, PTL DEF Spec

\* No step of any attempt changes the response that a key has stored.
THEOREM StoredForGood == Spec => StoredAnswerIsFinal
<1> DEFINE Kept == \A k \in Keys : record[k].status = "completed" => record'[k] = record[k]
<1>1. KeyInv /\ [Next]_vars => [Kept]_vars
  <2> SUFFICES ASSUME KeyInv, Next PROVE Kept
    OBVIOUS
  <2>1. ASSUME NEW a \in Attempts, Work(a) \/ Die(a) PROVE Kept
    <3>1. pc[a] = "store" \/ pc[a] = "drop" => record[Key(a)].status = "in_progress"
      BY DEF KeyInv, OwnerInv, Owning
    <3> QED
      BY <2>1, <3>1, RowStep
  <2>2. ASSUME NEW l \in Links, CancelBegin(l) \/ CancelEnd(l) \/ Expire(l) PROVE Kept
    BY <2>2, LinkStepFrame DEF replyVars
  <2> QED
    BY <2>1, <2>2 DEF Next
<1> QED
  BY <1>1, KeyInit, KeyStep, PTL DEF Spec, StoredAnswerIsFinal

----
(* Payment links *)

LEMMA LinkInit == Init => LinkInv
<1> SUFFICES ASSUME Init PROVE LinkInv
  OBVIOUS
<1>1. TypeOK /\ ProgressInv
  BY TypeInit, ProgressInit
<1>2. LockInv /\ CollectedInv
  BY DEF Init, LockInv, CollectedInv, Collected, Merchant, Nobody
<1> QED
  BY <1>1, <1>2 DEF LinkInv

\* What a step of attempt a does to the links: it locks the free row of an open link,
\* or it ends a transaction, which pays the link if it lands there, or neither.
LEMMA LinkStep ==
    ASSUME LinkInv, NEW a \in Attempts, Work(a) \/ Die(a)
    PROVE  \/ /\ UNCHANGED <<lock, status, paidBy, landed>>
              /\ pc'[a] = "commit" => ~PaysLink(a)
           \/ /\ UNCHANGED <<status, paidBy, landed>>
              /\ PaysLink(a) /\ lock[Link(a)] = Nobody /\ status[Link(a)] = "open"
              /\ lock' = [lock EXCEPT ![Link(a)] = a]
           \/ Unlock(a) /\ UNCHANGED <<status, paidBy, landed>> /\ pc'[a] # "commit"
           \/ Unlock(a) /\ pc[a] = "commit" /\ Land(a) /\ pc'[a] # "commit"
<1> USE DEF LinkInv, TypeOK, Go, Respond, Reply, handlerVars, replyVars, linkVars
<1>1. CASE Claim(a) \/ Get(a) \/ Lookup(a) \/ Reserve(a) \/ Invalidate(a) \/ Store(a) \/ Drop(a)
  BY <1>1 DEF Claim, Get, Lookup, Reserve, Invalidate, Store, Drop
<1>2. CASE MarkPaid(a)
  BY <1>2 DEF MarkPaid, Payable, ProgressInv, Progress
<1>3. CASE Commit(a)
  BY <1>3 DEF Commit
<1>4. CASE Die(a)
  BY <1>4 DEF Die
<1> QED
  BY <1>1, <1>2, <1>3, <1>4 DEF Work

LEMMA LockStep ==
    ASSUME LinkInv, NEW a \in Attempts, Work(a) \/ Die(a)
    PROVE  LockInv'
<1>1. \A b \in Attempts : Asked(b)' = Asked(b) /\ (PaysLink(b)' <=> PaysLink(b)) /\ Link(b)' = Link(b)
  BY Others DEF LinkInv, Asked, PaysLink, Link
<1>2. \A b \in Attempts \ {a} : pc'[b] = pc[b]
  BY Others DEF LinkInv
<1>3. \A b \in Attempts : PaysLink(b) => Link(b) \in Links
  BY LinkType DEF LinkInv
<1>4. a # Nobody /\ a # Merchant /\ Nobody # Merchant /\ Nobody \notin Attempts
  BY NobodyIsAnAttempt DEF Nobody, Merchant
<1>5. lock \in [Links -> Attempts \cup {Merchant, Nobody}]
      /\ status \in [Links -> {"open", "paid", "cancelled"}]
  BY DEF LinkInv, TypeOK
<1>6. \A l \in Links : lock[l] \notin {a, Nobody} => lock'[l] = lock[l] /\ status'[l] = status[l]
  <2>1. CASE pc[a] = "commit" /\ Land(a) /\ Unlock(a)
    <3>1. PaysLink(a) => lock[Link(a)] = a
      BY <2>1 DEF LinkInv, LockInv
    <3> QED
      BY <1>3, <1>5, <2>1, <3>1 DEF Land, Unlock
  <2> QED
    BY <1>3, <1>5, <2>1, LinkStep DEF Unlock
<1>7. ASSUME pc'[a] = "commit", PaysLink(a)
      PROVE  lock'[Link(a)] = a /\ status'[Link(a)] = "open"
  BY <1>3, <1>5, <1>7, LinkStep
<1>8. ASSUME NEW b \in Attempts \ {a}, pc[b] = "commit", PaysLink(b)
      PROVE  lock'[Link(b)] = b /\ status'[Link(b)] = "open"
  <2>1. lock[Link(b)] = b /\ status[Link(b)] = "open"
    BY <1>8 DEF LinkInv, LockInv
  <2> QED
    BY <1>3, <1>4, <1>6, <1>8, <2>1
<1>9. ASSUME NEW l \in Links, lock'[l] = Merchant
      PROVE  status'[l] = "open"
  <2>1. lock[l] = Merchant
    BY <1>3, <1>4, <1>5, <1>9, LinkStep DEF Unlock
  <2> QED
    BY <1>4, <1>6, <2>1 DEF LinkInv, LockInv
<1> QED
  BY <1>1, <1>2, <1>7, <1>8, <1>9 DEF LockInv

LEMMA CollectedStep ==
    ASSUME LinkInv, NEW a \in Attempts, Work(a) \/ Die(a)
    PROVE  CollectedInv'
<1>1. ask' = ask
  BY Others DEF LinkInv
<1>2. CASE UNCHANGED <<status, landed>>
  BY <1>1, <1>2 DEF LinkInv, CollectedInv, Collected, PaysLink, Link, Asked
<1>3. CASE Land(a)
  <2>1. ASSUME NEW l \in Links, status'[l] = "open"
        PROVE  status[l] = "open" /\ Collected(l)' = Collected(l)
    BY <1>1, <1>3, <2>1, LinkType DEF LinkInv, TypeOK, Land, Collected, PaysLink, Link, Asked
  <2> QED
    BY <2>1 DEF LinkInv, CollectedInv
<1> QED
  BY <1>2, <1>3, LinkStep

LEMMA LinkInvStep == LinkInv /\ [Next]_vars => LinkInv'
<1> SUFFICES ASSUME LinkInv, [Next]_vars PROVE LinkInv'
  OBVIOUS
<1>1. TypeOK' /\ ProgressInv'
  BY TypeStep, ProgressStep DEF LinkInv
<1>2. ASSUME NEW a \in Attempts, Work(a) \/ Die(a) PROVE LinkInv'
  BY <1>1, <1>2, LockStep, CollectedStep DEF LinkInv
<1>3. ASSUME NEW l \in Links, CancelBegin(l) \/ CancelEnd(l) \/ Expire(l) PROVE LinkInv'
  <2>1. UNCHANGED <<ask, pc, landed>>
    BY <1>3, LinkStepFrame DEF handlerVars
  <2>2. Merchant # Nobody /\ Merchant \notin Attempts /\ Nobody \notin Attempts
    BY NobodyIsAnAttempt DEF Nobody, Merchant
  <2>3. LockInv'
    BY <1>3, <2>1, <2>2, LinkType
       DEF LinkInv, TypeOK, LockInv, CancelBegin, CancelEnd, Expire, PaysLink, Link, Asked
  <2>4. CollectedInv'
    BY <1>3, <2>1 DEF LinkInv, TypeOK, CollectedInv, Collected, CancelBegin, CancelEnd, Expire,
                      PaysLink, Link, Asked
  <2> QED
    BY <1>1, <2>3, <2>4 DEF LinkInv
<1>4. CASE UNCHANGED vars
  BY <1>1, <1>4 DEF LinkInv, LockInv, CollectedInv, Collected, PaysLink, Link, Asked, vars
<1> QED
  BY <1>2, <1>3, <1>4 DEF Next

\* Whatever their payers, their keys and their merchants do, and however they fail,
\* links go from open to paid or cancelled once, and collect one payment.
THEOREM LinksRefine == Spec => LinksKeepPromise
<1>1. Init => PromisedLinks!Init
  BY DEF Init, PromisedLinks!Init
<1>2. LinkInv /\ [Next]_vars => [PromisedLinks!Next]_(PromisedLinks!vars)
  <2> SUFFICES ASSUME LinkInv, [Next]_vars
               PROVE  PromisedLinks!Next \/ UNCHANGED PromisedLinks!vars
    OBVIOUS
  <2>1. ASSUME UNCHANGED <<ask, landed, status, paidBy>> PROVE UNCHANGED PromisedLinks!vars
    BY <2>1 DEF PromisedLinks!vars, PaysLink, Link, Asked
  <2>2. ASSUME NEW a \in Attempts, Work(a) \/ Die(a)
        PROVE  PromisedLinks!Next \/ UNCHANGED PromisedLinks!vars
    <3>1. ask' = ask
      BY <2>2, Others DEF LinkInv
    <3>2. CASE UNCHANGED <<status, paidBy, landed>>
      BY <2>1, <3>1, <3>2
    <3>3. CASE pc[a] = "commit" /\ Land(a) /\ ~PaysLink(a)
      BY <3>1, <3>3 DEF Land, PromisedLinks!vars, PaysLink, Link, Asked
    <3>4. CASE pc[a] = "commit" /\ Land(a) /\ PaysLink(a)
      <4>1. Link(a) \in Links /\ status[Link(a)] = "open" /\ Collected(Link(a)) = {}
        BY <3>4, LinkType DEF LinkInv, LockInv, CollectedInv
      <4>2. PICK l \in Links : l = Link(a)
        BY <4>1
      <4>3. \A k \in Links : Collected(k)' = IF k = l THEN {a} ELSE Collected(k)
        BY <3>1, <3>4, <4>1, <4>2 DEF Collected, Land, PaysLink, Link, Asked
      <4>4. [k \in Links |-> Collected(k)]' = [[k \in Links |-> Collected(k)] EXCEPT ![l] = {a}]
        BY <4>3
      <4>5. PromisedLinks!Pay(l, a)
        BY <3>4, <4>1, <4>2, <4>4 DEF PromisedLinks!Pay, Land, Collected
      <4> QED
        BY <4>5 DEF PromisedLinks!Next
    <3> QED
      BY <2>2, <3>2, <3>3, <3>4, LinkStep
  <2>3. ASSUME NEW l \in Links, CancelBegin(l) \/ CancelEnd(l) \/ Expire(l)
        PROVE  PromisedLinks!Next \/ UNCHANGED PromisedLinks!vars
    <3>1. UNCHANGED <<ask, landed>>
      BY <2>3, LinkStepFrame DEF handlerVars
    <3>2. CASE UNCHANGED <<status, paidBy>>
      BY <2>1, <3>1, <3>2
    <3>3. CASE CancelEnd(l) /\ status' # status
      <4>1. status[l] = "open" /\ status' = [status EXCEPT ![l] = "cancelled"] /\ paidBy' = paidBy
        BY <3>3 DEF CancelEnd, LinkInv, LockInv
      <4>2. PromisedLinks!Cancel(l)
        BY <3>1, <4>1 DEF PromisedLinks!Cancel, PaysLink, Link, Asked
      <4> QED
        BY <4>2 DEF PromisedLinks!Next
    <3> QED
      BY <2>3, <3>2, <3>3 DEF CancelBegin, CancelEnd, Expire
  <2>4. CASE UNCHANGED vars
    BY <2>1, <2>4 DEF vars
  <2> QED
    BY <2>2, <2>3, <2>4 DEF Next
<1> QED
  BY <1>1, <1>2, LinkInit, LinkInvStep, PTL DEF Spec, LinksKeepPromise, PromisedLinks!Spec
=============================================================================
