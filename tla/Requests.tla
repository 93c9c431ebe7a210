------------------------------ MODULE Requests ------------------------------
(***************************************************************************)
(* Requests that move money, under the idempotency middleware: a payment   *)
(* to a merchant, a payment that settles a payment link, or a transfer.    *)
(* Clients send a request again, with the same key, when they please.      *)
(*                                                                         *)
(* A request claims its key, runs the handler, and completes the key with  *)
(* the response, or releases it when the response is a 5xx.  The handler   *)
(* of a payment link looks the link up, reserves (see Wallet), and in its  *)
(* transaction locks the link's row, checks it again and marks it paid.    *)
(* The merchant may cancel the link meanwhile, and the link expires.       *)
(*                                                                         *)
(* One step is one statement of one connection, or the commit of its       *)
(* transaction.  Die is a crash of the process, or of nothing but the      *)
(* request: the client went away and its context is cancelled.             *)
(***************************************************************************)
EXTENDS FiniteSets

CONSTANTS
    Attempts,    \* requests as they arrive, first tries and retries alike
    Keys,        \* idempotency keys, each within the scope of its user
    Links,       \* payment links
    Bodies,      \* request bodies, with their method and path
    NoAttempt,   \* nobody
    NoBody,      \* no request hash
    Loads,       \* what the attempts ask, one function for each load
    LosesAcks    \* whether a commit may succeed and be reported as failed

\* A body asks for one kind of movement; the body of a payment link names the link.
Body == [kind : {"payment", "transfer"}] \cup [kind : {"charge"}, link : Links]

ASSUME NobodyIsAnAttempt == {NoAttempt, "merchant", "nobody"} \cap Attempts = {}
ASSUME NoBodyIsNoBody == NoBody \notin Bodies
ASSUME BodiesAreBodies == Bodies \subseteq Body
ASSUME LoadsAreLoads == Loads \subseteq [Attempts -> [key : Keys, body : Bodies]]
ASSUME LosesAcksIsBool == LosesAcks \in BOOLEAN

VARIABLES
    ask,        \* the key and the body of each attempt
    pc,         \* what each attempt does next
    result,     \* what the handler answers: done (2xx), refused (4xx), unknown (5xx)
    answer,     \* what the client of the attempt is told
    receipt,    \* the attempt whose payment or refusal that answer reports
    record,     \* the row of each key in idempotency_keys
    landed,     \* the attempts whose transaction is committed
    status,     \* charges.status
    paidBy,     \* charges.payment_id
    expired,    \* the links whose expires_at has passed
    lock        \* who holds the row lock of a link

handlerVars == <<ask, pc, result>>
replyVars   == <<answer, receipt, record>>
linkVars    == <<status, paidBy, expired, lock>>
vars == <<ask, pc, result, answer, receipt, record, landed, status, paidBy, expired, lock>>

Results == {"done", "refused", "unknown"}
Answers == Results \cup {"none", "busy", "reused"}

\* The attempt has its key and its handler is running.
Owning == {"lookup", "reserve", "mark", "commit", "invalidate", "store", "drop"}
Running == {"claim", "get"} \cup Owning

Merchant == "merchant"
Nobody   == "nobody"

Key(a)  == ask[a].key
Asked(a) == ask[a].body
PaysLink(a) == Asked(a).kind = "charge"
Link(a) == Asked(a).link

NoRecord == [status |-> "absent", body |-> NoBody, code |-> "none", by |-> NoAttempt]
InProgress(body) == [status |-> "in_progress", body |-> body, code |-> "none", by |-> NoAttempt]
Completed(body, code, by) == [status |-> "completed", body |-> body, code |-> code, by |-> by]

----
(* The middleware *)

Go(a, p) == pc' = [pc EXCEPT ![a] = p]

\* The attempt is over, and its client has the answer or has lost the connection.
Reply(a, code, by) ==
    /\ Go(a, "ended")
    /\ \/ /\ answer' = [answer EXCEPT ![a] = code]
          /\ receipt' = [receipt EXCEPT ![a] = by]
       \/ /\ answer' = [answer EXCEPT ![a] = "unknown"]
          /\ receipt' = [receipt EXCEPT ![a] = NoAttempt]

\* The handler has its response r: the middleware completes the key, or releases it.
Respond(a, r) ==
    /\ result' = [result EXCEPT ![a] = r]
    /\ Go(a, IF r = "unknown" THEN "drop" ELSE "store")

\* Faulty variant: a key in progress is taken over, as if its owner were gone.
ClaimTakesOver(a) ==
    /\ pc[a] = "claim"
    /\ \/ /\ record[Key(a)].status # "completed"
          /\ record' = [record EXCEPT ![Key(a)] = InProgress(Asked(a))]
          /\ Go(a, IF PaysLink(a) THEN "lookup" ELSE "reserve")
       \/ /\ record[Key(a)].status = "completed"
          /\ Go(a, "get")
          /\ UNCHANGED record
    /\ UNCHANGED <<ask, result, answer, receipt, landed, linkVars>>

\* Faulty variant: ON CONFLICT DO UPDATE.
ClaimUpserts(a) ==
    /\ pc[a] = "claim"
    /\ record' = [record EXCEPT ![Key(a)] = InProgress(Asked(a))]
    /\ Go(a, IF PaysLink(a) THEN "lookup" ELSE "reserve")
    /\ UNCHANGED <<ask, result, answer, receipt, landed, linkVars>>

\* INSERT ... ON CONFLICT DO NOTHING.
Claim(a) ==
    /\ pc[a] = "claim"
    /\ \/ /\ record[Key(a)].status = "absent"
          /\ record' = [record EXCEPT ![Key(a)] = InProgress(Asked(a))]
          /\ Go(a, IF PaysLink(a) THEN "lookup" ELSE "reserve")
       \/ /\ record[Key(a)].status # "absent"
          /\ Go(a, "get")
          /\ UNCHANGED record
    /\ UNCHANGED <<ask, result, answer, receipt, landed, linkVars>>

\* Faulty variant: the request hash is not compared.
GetAnyBody(a) ==
    LET r == record[Key(a)] IN
    /\ pc[a] = "get"
    /\ \/ r.status = "absent" /\ Reply(a, "unknown", NoAttempt)
       \/ r.status = "in_progress" /\ Reply(a, "busy", NoAttempt)
       \/ r.status = "completed" /\ Reply(a, r.code, r.by)
    /\ UNCHANGED <<ask, result, record, landed, linkVars>>

\* The row is read by a second statement: it may be gone by then, which is a 5xx.
Get(a) ==
    LET r == record[Key(a)] IN
    /\ pc[a] = "get"
    /\ \/ r.status = "absent" /\ Reply(a, "unknown", NoAttempt)
       \/ r.status # "absent" /\ r.body # Asked(a) /\ Reply(a, "reused", NoAttempt)
       \/ r.status = "in_progress" /\ r.body = Asked(a) /\ Reply(a, "busy", NoAttempt)
       \/ r.status = "completed" /\ r.body = Asked(a) /\ Reply(a, r.code, r.by)
    /\ UNCHANGED <<ask, result, record, landed, linkVars>>

\* An error of Complete is ignored, and the client is answered all the same.
Store(a) ==
    /\ pc[a] = "store"
    /\ Reply(a, result[a], a)
    /\ \/ record' = [record EXCEPT ![Key(a)] = Completed(@.body, result[a], a)]
       \/ UNCHANGED record
    /\ UNCHANGED <<ask, result, landed, linkVars>>

\* DELETE ... WHERE status = 'in_progress'; an error is ignored here too.
Drop(a) ==
    /\ pc[a] = "drop"
    /\ Reply(a, "unknown", NoAttempt)
    /\ \/ /\ record[Key(a)].status = "in_progress"
          /\ record' = [record EXCEPT ![Key(a)] = NoRecord]
       \/ UNCHANGED record
    /\ UNCHANGED <<ask, result, landed, linkVars>>

----
(* The handler *)

Payable(l) == status[l] = "open" /\ l \notin expired

\* Charges.Lookup, outside of any transaction.
Lookup(a) ==
    /\ pc[a] = "lookup"
    /\ \/ Payable(Link(a)) /\ Go(a, "reserve") /\ UNCHANGED result
       \/ ~Payable(Link(a)) /\ Respond(a, "refused")
    /\ UNCHANGED <<ask, replyVars, landed, linkVars>>

\* Validation, blocks, velocity and the reservation: each may refuse or fail.
Reserve(a) ==
    /\ pc[a] = "reserve"
    /\ \/ Go(a, IF PaysLink(a) THEN "mark" ELSE "commit") /\ UNCHANGED result
       \/ Respond(a, "refused")
       \/ Respond(a, "unknown")
    /\ UNCHANGED <<ask, replyVars, landed, linkVars>>

\* Faulty variant: the row is read without FOR UPDATE.
MarkPaidUnlocked(a) ==
    /\ pc[a] = "mark"
    /\ \/ Payable(Link(a)) /\ Go(a, "commit") /\ UNCHANGED result
       \/ ~Payable(Link(a)) /\ Respond(a, "refused")
    /\ UNCHANGED <<ask, replyVars, landed, linkVars>>

\* Faulty variant: a payment that finds the link closed leaves its transaction open.
MarkPaidLeavesOpen(a) ==
    LET l == Link(a) IN
    /\ pc[a] = "mark"
    /\ lock[l] = Nobody
    /\ lock' = [lock EXCEPT ![l] = a]
    /\ \/ Payable(l) /\ Go(a, "commit") /\ UNCHANGED result
       \/ ~Payable(l) /\ Respond(a, "refused")
    /\ UNCHANGED <<ask, replyVars, landed, status, paidBy, expired>>

\* Charges.MarkPaid: SELECT ... FOR UPDATE waits for whoever holds the row.
MarkPaid(a) ==
    LET l == Link(a) IN
    /\ pc[a] = "mark"
    /\ lock[l] = Nobody
    /\ \/ /\ Payable(l)
          /\ lock' = [lock EXCEPT ![l] = a]
          /\ Go(a, "commit")
          /\ UNCHANGED result
       \/ ~Payable(l) /\ Respond(a, "refused") /\ UNCHANGED lock
    /\ UNCHANGED <<ask, replyVars, landed, status, paidBy, expired>>

\* The end of a transaction, committed or rolled back, frees the rows it locked.
Unlock(a) == lock' = [l \in Links |-> IF lock[l] = a THEN Nobody ELSE lock[l]]

\* The posting, the payment's row and the paid link become visible together.
Land(a) ==
    /\ landed' = landed \cup {a}
    /\ IF PaysLink(a)
       THEN /\ status' = [status EXCEPT ![Link(a)] = "paid"]
            /\ paidBy' = [paidBy EXCEPT ![Link(a)] = a]
       ELSE UNCHANGED <<status, paidBy>>

Commit(a) ==
    /\ pc[a] = "commit"
    /\ Unlock(a)
    /\ \/ /\ Land(a)
          /\ \/ Asked(a).kind = "transfer" /\ Go(a, "invalidate") /\ UNCHANGED result
             \/ Asked(a).kind # "transfer" /\ Respond(a, "done")
             \/ LosesAcks /\ Respond(a, "unknown")
       \/ /\ Respond(a, "unknown")
          /\ UNCHANGED <<landed, status, paidBy>>
    /\ UNCHANGED <<ask, replyVars, expired>>

\* After the commit a transfer drops its payee's cache entry; if Redis does not
\* answer, the response is a 5xx for a transfer that was made.
Invalidate(a) ==
    /\ pc[a] = "invalidate"
    /\ \E r \in {"done", "unknown"} : Respond(a, r)
    /\ UNCHANGED <<ask, replyVars, landed, linkVars>>

Die(a) ==
    /\ pc[a] \in Running
    /\ Reply(a, "unknown", NoAttempt)
    /\ Unlock(a)
    /\ UNCHANGED <<ask, result, record, landed, status, paidBy, expired>>

----
(* The merchant and the clock *)

\* Charges.Cancel: UPDATE ... WHERE status = 'open' locks the row it changes.
CancelBegin(l) ==
    /\ lock[l] = Nobody
    /\ status[l] = "open"
    /\ lock' = [lock EXCEPT ![l] = Merchant]
    /\ UNCHANGED <<handlerVars, replyVars, landed, status, paidBy, expired>>

\* The transition is recorded and the transaction commits, or it is rolled back.
CancelEnd(l) ==
    /\ lock[l] = Merchant
    /\ lock' = [lock EXCEPT ![l] = Nobody]
    /\ \/ status' = [status EXCEPT ![l] = "cancelled"]
       \/ UNCHANGED status
    /\ UNCHANGED <<handlerVars, replyVars, landed, paidBy, expired>>

Expire(l) ==
    /\ l \notin expired
    /\ expired' = expired \cup {l}
    /\ UNCHANGED <<handlerVars, replyVars, landed, status, paidBy, lock>>

----
Init ==
    /\ ask \in Loads
    /\ pc = [a \in Attempts |-> "claim"]
    /\ result = [a \in Attempts |-> "none"]
    /\ answer = [a \in Attempts |-> "none"]
    /\ receipt = [a \in Attempts |-> NoAttempt]
    /\ record = [k \in Keys |-> NoRecord]
    /\ landed = {}
    /\ status = [l \in Links |-> "open"]
    /\ paidBy = [l \in Links |-> NoAttempt]
    /\ expired = {}
    /\ lock = [l \in Links |-> Nobody]

\* A step of the handler or of the middleware that is not a failure of the process.
Work(a) ==
    \/ Claim(a)
    \/ Get(a)
    \/ Lookup(a)
    \/ Reserve(a)
    \/ MarkPaid(a)
    \/ Commit(a)
    \/ Invalidate(a)
    \/ Store(a)
    \/ Drop(a)

Next ==
    \/ \E a \in Attempts : Work(a) \/ Die(a)
    \/ \E l \in Links : CancelBegin(l) \/ CancelEnd(l) \/ Expire(l)

\* A request that arrived runs to its end unless its process dies, a row lock is
\* granted to someone who waits for it, and a begun cancellation ends.
Fairness ==
    /\ \A a \in Attempts : SF_vars(MarkPaid(a)) /\ WF_vars(Work(a))
    /\ \A l \in Links : WF_vars(CancelEnd(l))

Spec == Init /\ [][Next]_vars /\ Fairness

----
(* Properties *)

\* A key's row keeps the form of its table: only a 2xx or a 4xx is ever stored as the
\* response of a completed key, and a row lock is held by someone who can let it go.
TypeOK ==
    /\ ask \in [Attempts -> [key : Keys, body : Bodies]]
    /\ pc \in [Attempts -> Running \cup {"ended"}]
    /\ result \in [Attempts -> Results \cup {"none"}]
    /\ answer \in [Attempts -> Answers]
    /\ receipt \in [Attempts -> Attempts \cup {NoAttempt}]
    /\ record \in [Keys -> [status : {"absent", "in_progress", "completed"},
                            body : Bodies \cup {NoBody},
                            code : {"none", "done", "refused"},
                            by : Attempts \cup {NoAttempt}]]
    /\ landed \subseteq Attempts
    /\ status \in [Links -> {"open", "paid", "cancelled"}]
    /\ paidBy \in [Links -> Attempts \cup {NoAttempt}]
    /\ expired \subseteq Links
    /\ lock \in [Links -> Attempts \cup {Merchant, Nobody}]

\* A key makes a second payment only after an answer that told its client nothing:
\* of two attempts with one key whose money moved, at least one ended in a 5xx or
\* in no answer, and the client chose to try again.
SecondPaymentNeedsDoubt ==
    \A a, b \in landed :
        a # b /\ Key(a) = Key(b) => "unknown" \in {answer[a], answer[b]}

\* Every 2xx and 4xx for a key reports the same attempt, with that attempt's own
\* result, and reports it truly: money that moved, or money that did not.
OneReceiptPerKey ==
    /\ \A a \in Attempts : answer[a] \in {"done", "refused"} =>
          /\ Key(receipt[a]) = Key(a) /\ Asked(receipt[a]) = Asked(a)
          /\ answer[a] = result[receipt[a]]
          /\ (answer[a] = "done") <=> (receipt[a] \in landed)
    /\ \A a, b \in Attempts :
          answer[a] \in {"done", "refused"} /\ answer[b] \in {"done", "refused"} /\ Key(a) = Key(b)
              => receipt[a] = receipt[b]

\* A response once stored is the response for good.
StoredAnswerIsFinal ==
    [][\A k \in Keys : record[k].status = "completed" => record'[k] = record[k]]_vars

\* A link keeps the promise of PaymentLinks, whatever keys its payers use.
PromisedLinks == INSTANCE PaymentLinks WITH
    Payments <- Attempts,
    NoPayment <- NoAttempt,
    collected <- [l \in Links |-> {a \in landed : PaysLink(a) /\ Link(a) = l}]

LinksKeepPromise == PromisedLinks!Spec

\* Nobody waits for a link's row for ever: every request comes to an end.
RequestsEnd == \A a \in Attempts : pc[a] = "mark" ~> pc[a] = "ended"
=============================================================================
