----------------------------- MODULE Compliance -----------------------------
(***************************************************************************)
(* What operators may do to an account, and what a merchant may do to its  *)
(* keys and staff: blocks and their flag in Redis, KYC submissions and     *)
(* their review, credentials, and the audit log behind all of them.        *)
(*                                                                         *)
(* One user.  The statements of a request are steps of their own, because  *)
(* none of them but the decision of a review shares a transaction with     *)
(* another.  Fail ends a request at any statement.                         *)
(***************************************************************************)

CONSTANTS
    Requests,   \* a row that a request inserts is named after it
    Actions,    \* what requests may be about, as records with a field op
    Keys,       \* API keys that exist at first
    Staff       \* members of the staff that exist at first

Grants == Keys \cup Staff

ASSUME ActionsAreActions ==
    Actions \subseteq [op : {"block", "unblock", "pay", "transfer", "submit"}]
                    \cup [op : {"review"}, verdict : {"approved", "rejected", "resubmit", "escalated"}]
                    \cup [op : {"create", "hire"}, key : Keys \cup {"none"}]
                    \cup [op : {"revoke"}, key : Keys \cup {"none"}, g : Grants]
ASSUME NamesDiffer == Requests \cap Grants = {} /\ Keys \cap Staff = {} /\ "none" \notin Requests \cup Grants

VARIABLES
    open,       \* the rows of account_blocks with no lifted_at
    standing,   \* users.status
    flag,       \* the entry of Redis: absent, clear ("-") or set (a reason)
    tier,       \* kyc_tier of the user
    subs,       \* status of the submission each request has inserted
    live,       \* keys and staff with no revoked_at
    log,        \* the requests that have an entry in audit_log
    at,
    what,       \* what each request is about
    read,       \* what a request has read and uses later
    answer,     \* none, ok, refused or error
    changed,    \* requests whose change is made
    flagged,    \* blocks whose request has set the flag
    shut,       \* of each request: the blocks that were open and flagged when it came, and
                \* the keys and staff that had been revoked
    overwritten,\* blocks whose flag was overwritten with what had been read before them
    slipped,    \* requests that passed a block of shut that was not overwritten
    torn,       \* two changes of the blocks have overlapped, or one has ended half done
    disturbed,  \* requests on a submission that have read what another has changed since
    outdated    \* such a request has made its change

blockVars   == <<open, standing, flag>>
kycVars     == <<tier, subs>>
requestVars == <<at, what, read, answer>>
blockNotes  == <<flagged, shut, overwritten, slipped, torn>>
kycNotes    == <<disturbed, outdated>>
accountVars == <<blockVars, kycVars, live, log, requestVars, changed, blockNotes, kycNotes>>

GoOn(c, step) == at' = [at EXCEPT ![c] = step]

Reply(c, with) ==
    /\ answer' = [answer EXCEPT ![c] = with]
    /\ GoOn(c, "done")

See(c, value) == read' = [read EXCEPT ![c] = value]

Pending == {s \in Requests : subs[s] = "pending"}

----
(* A request comes in *)

FirstStep ==
    [block |-> "insert", unblock |-> "lift", pay |-> "get", transfer |-> "status",
     submit |-> "tier", review |-> "pick", create |-> "key", hire |-> "key", revoke |-> "key"]

\* There is no end of payments.
Arrive(c) ==
    /\ \E l \in Actions :
          /\ \/ at[c] = "new"
             \/ at[c] = "done" /\ l.op = "pay" /\ what[c] = l
          /\ what' = [what EXCEPT ![c] = l]
          /\ GoOn(c, FirstStep[l.op])
    /\ shut' = [shut EXCEPT ![c] = (open \cap flagged) \cup (Grants \ live)]
    /\ answer' = [answer EXCEPT ![c] = "none"]
    /\ UNCHANGED <<blockVars, kycVars, live, log, read, changed, flagged, overwritten, slipped, torn, kycNotes>>

----
(* POST /internal/v1/blocks and .../unblock *)

\* A change of the blocks is between its first two statements.
UnderWay == {c \in Requests : at[c] = "mark"}

InsertBlock(c) ==
    /\ at[c] = "insert"
    /\ open' = open \cup {c}
    /\ changed' = changed \cup {c}
    /\ torn' = (torn \/ UnderWay # {})
    /\ GoOn(c, "mark")
    /\ UNCHANGED <<standing, flag, kycVars, live, log, what, read, answer, flagged, shut, overwritten,
                   slipped, kycNotes>>

\* Faulty variant: one block of several is lifted.
LiftedOne == {CHOOSE b \in open : TRUE}

\* UPDATE account_blocks ... WHERE lifted_at IS NULL.
Lifted == open

LiftBlocks(c) ==
    /\ at[c] = "lift"
    /\ \/ /\ open = {}
          /\ Reply(c, "refused")
          /\ UNCHANGED <<open, changed, torn>>
       \/ /\ open # {}
          /\ open' = open \ Lifted
          /\ changed' = changed \cup {c}
          /\ torn' = (torn \/ UnderWay # {})
          /\ GoOn(c, "mark") /\ UNCHANGED answer
    /\ UNCHANGED <<standing, flag, kycVars, live, log, what, read, flagged, shut, overwritten, slipped, kycNotes>>

MarkUser(c) ==
    /\ at[c] = "mark"
    /\ standing' = IF what[c].op = "block" THEN "blocked" ELSE "active"
    /\ GoOn(c, "flag")
    /\ UNCHANGED <<open, flag, kycVars, live, log, what, read, answer, changed, blockNotes, kycNotes>>

\* A block sets the flag, an unblock deletes it.
NewFlag(c) == IF what[c].op = "block" THEN "set" ELSE "absent"

WriteFlag(c) ==
    /\ at[c] = "flag"
    /\ flag' = NewFlag(c)
    /\ flagged' = IF what[c].op = "block" THEN flagged \cup {c} ELSE flagged
    /\ GoOn(c, "log")
    /\ UNCHANGED <<open, standing, kycVars, live, log, what, read, answer, changed, shut, overwritten,
                   slipped, torn, kycNotes>>

\* Faulty variant: an error of the log is ignored.
LoggedMaybe(c) == log' \in {log, log \cup {c}}

Logged(c) == log' = log \cup {c}

\* The entry of the audit log, the last statement of every change that has one.
Record(c) ==
    /\ at[c] = "log"
    /\ Logged(c)
    /\ Reply(c, "ok")
    /\ UNCHANGED <<blockVars, kycVars, live, what, read, changed, blockNotes, kycNotes>>

----
(* Assert, before money moves *)

\* assertActive reads the user before it asks for blocks; a payment does not.
ReadStatus(c) ==
    /\ at[c] = "status"
    /\ IF standing = "active" THEN GoOn(c, "get") /\ UNCHANGED answer
                              ELSE Reply(c, "refused")
    /\ UNCHANGED <<blockVars, kycVars, live, log, what, read, changed, blockNotes, kycNotes>>

Passes(c, blocked) ==
    /\ Reply(c, IF blocked THEN "refused" ELSE "ok")
    /\ slipped' = IF blocked \/ (shut[c] \cap open) \subseteq overwritten THEN slipped
                                                                        ELSE slipped \cup {c}

\* A flag that is there is believed; a Redis that fails is Fail.
GetFlag(c) ==
    /\ at[c] = "get"
    /\ IF flag # "absent" THEN Passes(c, flag = "set")
                          ELSE GoOn(c, "rows") /\ UNCHANGED <<answer, slipped>>
    /\ UNCHANGED <<blockVars, kycVars, live, log, what, read, changed, flagged, shut, overwritten, torn, kycNotes>>

ReadBlocks(c) ==
    /\ at[c] = "rows"
    /\ See(c, IF open = {} THEN "clear" ELSE "set")
    /\ GoOn(c, "put")
    /\ UNCHANGED <<blockVars, kycVars, live, log, what, answer, changed, blockNotes, kycNotes>>

\* What was read is written for twelve hours, whatever has happened since; an error
\* of the write is ignored.
PutFlag(c) ==
    /\ at[c] = "put"
    /\ \/ /\ flag' = read[c]
          /\ overwritten' = IF read[c] = "clear" THEN overwritten \cup open ELSE overwritten
       \/ UNCHANGED <<flag, overwritten>>
    /\ Passes(c, read[c] = "set")
    /\ UNCHANGED <<open, standing, kycVars, live, log, what, read, changed, flagged, shut, torn, kycNotes>>

\* Faulty variant: "-" is written without an expiry.
StaleSet == flag = "set"

Stale == flag # "absent"

FlagExpires ==
    /\ Stale
    /\ flag' = "absent"
    /\ UNCHANGED <<open, standing, kycVars, live, log, requestVars, changed, blockNotes, kycNotes>>

----
(* POST /v1/me/kyc and the review *)

ReadTier(c) ==
    /\ at[c] = "tier"
    /\ IF tier = "verified" THEN Reply(c, "refused") ELSE GoOn(c, "count") /\ UNCHANGED answer
    /\ UNCHANGED <<blockVars, kycVars, live, log, what, read, changed, blockNotes, kycNotes>>

\* Faulty variant: another submission does not matter.
WaitsNone == FALSE

Waits == Pending # {}

CountPending(c) ==
    /\ at[c] = "count"
    /\ IF Waits THEN Reply(c, "refused") ELSE GoOn(c, "submit") /\ UNCHANGED answer
    /\ UNCHANGED <<blockVars, kycVars, live, log, what, read, changed, blockNotes, kycNotes>>

\* Nothing but the two reads stands between a user and a second submission.
InsertSubmission(c) ==
    /\ at[c] = "submit"
    /\ subs' = [subs EXCEPT ![c] = "pending"]
    /\ disturbed' = disturbed \cup ({d \in Requests : at[d] = "submit"} \ {c})
    /\ outdated' = (outdated \/ c \in disturbed)
    /\ changed' = changed \cup {c}
    /\ Reply(c, "ok")
    /\ UNCHANGED <<blockVars, tier, live, log, what, read, blockNotes>>

\* The submission is read outside of the transaction that decides it.
PickSubmission(c) ==
    /\ at[c] = "pick"
    /\ \E s \in Requests :
          /\ subs[s] # "none"
          /\ IF subs[s] = "pending"
             THEN See(c, s) /\ GoOn(c, "decide") /\ UNCHANGED answer
             ELSE Reply(c, "refused") /\ UNCHANGED read
    /\ UNCHANGED <<blockVars, kycVars, live, log, what, changed, blockNotes, kycNotes>>

\* One transaction: the UPDATE, which does not ask for the status, the transition and
\* the tier.
Decide(c) ==
    /\ at[c] = "decide"
    /\ disturbed' = disturbed \cup ({d \in Requests : at[d] \in {"count", "submit", "decide"}} \ {c})
    /\ outdated' = (outdated \/ c \in disturbed)
    /\ subs' = [subs EXCEPT ![read[c]] = what[c].verdict]
    /\ tier' = IF what[c].verdict = "approved" THEN "verified" ELSE tier
    /\ changed' = changed \cup {c}
    /\ GoOn(c, "log")
    /\ UNCHANGED <<blockVars, live, log, what, read, answer, blockNotes>>

----
(* Keys and staff of a merchant *)

\* A request comes with a key or with the session of the console.
ValidKey(c) == what[c].key = "none" \/ what[c].key \in live

\* The key is looked up in the database, not in a cache, before every such request.
UseKey(c) ==
    /\ at[c] = "key"
    /\ IF ValidKey(c) THEN GoOn(c, what[c].op) /\ UNCHANGED answer ELSE Reply(c, "refused")
    /\ UNCHANGED <<blockVars, kycVars, live, log, what, read, changed, blockNotes, kycNotes>>

\* A key is inserted and logged.
CreateKey(c) ==
    /\ at[c] = "create"
    /\ live' = live \cup {c} /\ changed' = changed \cup {c}
    /\ GoOn(c, "log")
    /\ UNCHANGED <<blockVars, kycVars, log, what, read, answer, blockNotes, kycNotes>>

\* A member of the staff is inserted without an entry in the log, unless the outlet is
\* not one of the merchant's.
AddStaff(c) ==
    /\ at[c] = "hire"
    /\ \/ Reply(c, "refused") /\ UNCHANGED <<live, changed>>
       \/ Reply(c, "ok") /\ live' = live \cup {c} /\ changed' = changed \cup {c}
    /\ UNCHANGED <<blockVars, kycVars, log, what, read, blockNotes, kycNotes>>

\* UPDATE ... WHERE revoked_at IS NULL, which keys and staff have in common.
Revoke(c) ==
    /\ IF what[c].g \in live
       THEN live' = live \ {what[c].g} /\ changed' = changed \cup {c} /\ GoOn(c, "log") /\ UNCHANGED answer
       ELSE Reply(c, "refused") /\ UNCHANGED <<live, changed>>
    /\ UNCHANGED <<blockVars, kycVars, log, what, read, blockNotes, kycNotes>>

RevokeKey(c) == at[c] = "revoke" /\ what[c].g \in Keys /\ Revoke(c)

RevokeStaff(c) == at[c] = "revoke" /\ what[c].g \in Staff /\ Revoke(c)

----
Fail(c) ==
    /\ at[c] \notin {"new", "done"}
    /\ torn' = (torn \/ at[c] = "mark")
    /\ Reply(c, "error")
    /\ UNCHANGED <<blockVars, kycVars, live, log, what, read, changed, flagged, shut, overwritten, slipped, kycNotes>>

AccountInit ==
    /\ open = {} /\ standing = "active" /\ flag = "absent"
    /\ tier = "unverified" /\ subs = [c \in Requests |-> "none"]
    /\ live = Grants
    /\ log = {}
    /\ at = [c \in Requests |-> "new"]
    /\ what = [c \in Requests |-> [op |-> "none"]]
    /\ read = [c \in Requests |-> "none"]
    /\ answer = [c \in Requests |-> "none"]
    /\ changed = {}
    /\ flagged = {} /\ shut = [c \in Requests |-> {}] /\ overwritten = {} /\ slipped = {}
    /\ torn = FALSE /\ disturbed = {} /\ outdated = FALSE

RequestStep(c) ==
    \/ Arrive(c)
    \/ InsertBlock(c) \/ LiftBlocks(c) \/ MarkUser(c) \/ WriteFlag(c) \/ Record(c)
    \/ ReadStatus(c) \/ GetFlag(c) \/ ReadBlocks(c) \/ PutFlag(c)
    \/ ReadTier(c) \/ CountPending(c) \/ InsertSubmission(c) \/ PickSubmission(c) \/ Decide(c)
    \/ UseKey(c) \/ CreateKey(c) \/ AddStaff(c) \/ RevokeKey(c) \/ RevokeStaff(c)
    \/ Fail(c)

AccountNext ==
    \/ \E c \in Requests : RequestStep(c)
    \/ FlagExpires

\* Redis drops the flag when its time has passed.  No request is obliged to finish.
AccountSpec == AccountInit /\ [][AccountNext]_accountVars /\ WF_accountVars(FlagExpires)

----
(* Properties *)

\* What a request has read fits what it does with it.
AccountTypeOK ==
    /\ open \subseteq changed /\ flagged \subseteq changed
    /\ standing \in {"active", "blocked"} /\ flag \in {"absent", "clear", "set"}
    /\ tier \in {"unverified", "verified"}
    /\ \A c \in Requests :
          /\ subs[c] \in {"none", "pending", "approved", "rejected", "resubmit", "escalated"}
          /\ answer[c] \in {"none", "ok", "refused", "error"}
          /\ at[c] = "put" => read[c] \in {"clear", "set"}
          /\ at[c] = "decide" => subs[read[c]] # "none"

\* "A blocked user cannot move money" (internal/api/compliance_test.go): a request that
\* comes after a block was answered is refused until the block is lifted, unless a
\* request that had read the rows before the block has overwritten the flag since.  And
\* users.status agrees with the rows, unless two changes overlapped or one was cut short.
BlocksHold ==
    /\ slipped = {}
    /\ ~torn /\ UnderWay = {} => (standing = "blocked" <=> open # {})

\* A flag that is wrong does not stay: the twelve hours end it, and no request brings it
\* back.
FlagHeals == <>[](flag # "absent" => (flag = "set" <=> open # {}))

\* One submission waits at most, and none of a verified user, unless a request acted on
\* what it had read before another one's statement.
SubmissionsInTurn ==
    ~outdated => (\A s, t \in Pending : s = t) /\ (tier = "verified" => Pending = {})

\* "The audit trail is append-only" (README.md) and true: an entry stands for a change
\* that was made; a change of an operator or of a key that was answered with success has
\* its entry; and no change is made with a key that was revoked when the request came.
LogIsTrue ==
    /\ log \subseteq changed
    /\ \A c \in changed :
          /\ answer[c] = "ok" /\ what[c].op \notin {"submit", "hire"} => c \in log
          /\ what[c].op \in {"create", "hire", "revoke"} => what[c].key \notin shut[c]
=============================================================================
