------------------------------ MODULE Sessions ------------------------------
(***************************************************************************)
(* Signing in and staying signed in, for one user: one-time codes, the     *)
(* PIN, devices, and sessions whose tokens rotate, with a cache in front   *)
(* of them.                                                                *)
(*                                                                         *)
(* A call is one request.  Its pc names its next statement.  Transactions  *)
(* hold the row locks they have taken until they end; a call that waits    *)
(* for a lock is a step that is not enabled.  Die ends a call at any       *)
(* statement: an error, a cancelled request, a crash, or Postgres breaking *)
(* a deadlock; an open transaction is rolled back.                         *)
(***************************************************************************)
EXTENDS Naturals, FiniteSets

CONSTANTS
    Devices,        \* rows of devices, those not yet made included
    Sessions,       \* rows of sessions, those not yet issued included
    Challenges,     \* one-time codes that were sent
    Calls,
    Loads,          \* what calls may be about, as records with a field op
    First,          \* a session that is alive at first
    Home,           \* its device
    User,           \* the row of the user, as something to lock
    MaxCodes,       \* max_attempts of a challenge
    MaxPins,        \* MaxPinAttempts
    None

Rows == Devices \cup Sessions \cup Challenges \cup {User}

ASSUME FirstAndHome == First \in Sessions /\ Home \in Devices
ASSUME NoneIsNone == None \notin Sessions \cup Devices \cup Calls
ASSUME RowsDiffer ==
    /\ Devices \cap Sessions = {} /\ Devices \cap Challenges = {} /\ Sessions \cap Challenges = {}
    /\ User \notin Devices \cup Sessions \cup Challenges
ASSUME LimitsAreNatural == MaxCodes \in Nat \ {0} /\ MaxPins \in Nat \ {0}
ASSUME LoadsAreLoads ==
    Loads \subseteq
        [op : {"token"}, ch : Challenges, code : BOOLEAN, pin : BOOLEAN, dev : Devices \cup {None}]
        \cup [op : {"refresh", "logout", "verify"}, s : Sessions]
        \cup [op : {"revoke"}, d : Devices]
        \cup [op : {"block", "unblock"}]

VARIABLES
    reason,     \* of each session: unissued, alive, or why it was revoked
    device,     \* device_id of each session
    rotated,    \* rotated_to
    age,        \* 0, 1 once the access token has expired, 2 once the refresh token has
    known,      \* the devices that have a row
    gone,       \* the devices with a revoked_at
    status,     \* of the user: active or blocked
    pins,       \* pin_attempts
    locked,     \* whether pin_locked_until is still to come
    codes,      \* attempts of each challenge
    spent,      \* the challenges with a consumed_at
    stale,      \* the challenges past their five minutes
    cached,     \* the sessions that have an entry in the cache
    lock,       \* who holds the lock of each row, None if nobody
    share,      \* calls that hold the user's row FOR KEY SHARE, by inserting a session
    pc,
    in,         \* the load of each call
    seen,       \* the sessions a statement of each call has picked to revoke
    late,       \* sessions signed in on a device that was revoked by then, and their heirs
    escaped,    \* sessions issued while a replay was revoking their ancestors, and their heirs
    signins     \* how often each challenge has signed in

sessionVars   == <<reason, device, rotated, age>>
deviceVars    == <<known, gone>>
userVars      == <<status, pins, locked>>
challengeVars == <<codes, spent, stale>>
lockVars      == <<lock, share>>
callVars      == <<pc, in, seen>>
history       == <<late, escaped, signins>>
vars == <<sessionVars, deviceVars, userVars, challengeVars, cached, lockVars, callVars, history>>

Issued == {s \in Sessions : reason[s] # "unissued"}
Alive  == {s \in Sessions : reason[s] = "alive"}

\* Rows no other transaction holds.
Free(c, x) == lock[x] \in {None, c}
Take(c, x) == lock' = [lock EXCEPT ![x] = c]

\* The transaction of c ends.
Release(c) ==
    /\ lock' = [x \in Rows |-> IF lock[x] = c THEN None ELSE lock[x]]
    /\ share' = share \ {c}

Goto(c, step) == pc' = [pc EXCEPT ![c] = step]

----
(* A request comes in *)

Entry == [token |-> "code", refresh |-> "find", logout |-> "logout", verify |-> "lookup",
          revoke |-> "device", block |-> "status", unblock |-> "status"]

\* A client sends tokens it was given.  There is no end of requests to be verified.
Begin(c) ==
    /\ \E l \in Loads :
          /\ \/ pc[c] = "new"
             \/ pc[c] = "done" /\ in[c].op = "verify" /\ l = in[c]
          /\ l.op \in {"refresh", "logout", "verify"} => l.s \in Issued
          /\ in' = [in EXCEPT ![c] = l]
          /\ Goto(c, Entry[l.op])
    /\ UNCHANGED <<sessionVars, deviceVars, userVars, challengeVars, cached, lockVars, seen, history>>

----
(* POST /v1/auth/token: VerifyOTP and Login *)

Usable(ch) == ch \notin spent /\ ch \notin stale

\* Faulty variant: the challenge is read without a lock.
LockCodeNot(c) == lock[in[c].ch] \in {None, c} /\ lock' = lock

\* SELECT ... FOR UPDATE.
LockCode(c) == Free(c, in[c].ch) /\ Take(c, in[c].ch)

\* VerifyOTP.  A right code is not spent yet; a wrong one is counted under the lock.
CheckCode(c) ==
    LET ch == in[c].ch IN
    /\ pc[c] = "code"
    /\ IF Usable(ch) /\ codes[ch] < MaxCodes /\ ~in[c].code
       THEN LockCode(c) /\ Goto(c, "wrong code")
       ELSE /\ Free(c, ch)
            /\ Goto(c, IF Usable(ch) /\ codes[ch] < MaxCodes THEN "user" ELSE "done")
            /\ UNCHANGED lock
    /\ UNCHANGED <<sessionVars, deviceVars, userVars, challengeVars, cached, share, in, seen, history>>

CountCode(c) ==
    /\ pc[c] = "wrong code"
    /\ codes' = [codes EXCEPT ![in[c].ch] = @ + 1]
    /\ Release(c)
    /\ Goto(c, "done")
    /\ UNCHANGED <<sessionVars, deviceVars, userVars, spent, stale, cached, in, seen, history>>

\* Login begins: the row of the user FOR UPDATE, which waits for those who insert a
\* session of the same user, too.
LockUser(c) ==
    /\ pc[c] = "user"
    /\ Free(c, User) /\ share \subseteq {c}
    /\ IF status = "active" /\ ~locked
       THEN Take(c, User) /\ Goto(c, "pin")
       ELSE Goto(c, "done") /\ UNCHANGED lock
    /\ UNCHANGED <<sessionVars, deviceVars, userVars, challengeVars, cached, share, in, seen, history>>

WrongPin(c) ==
    /\ pc[c] = "pin" /\ ~in[c].pin
    /\ IF pins + 1 >= MaxPins THEN pins' = 0 /\ locked' = TRUE
                              ELSE pins' = pins + 1 /\ locked' = FALSE
    /\ Release(c)
    /\ Goto(c, "done")
    /\ UNCHANGED <<sessionVars, deviceVars, status, challengeVars, cached, in, seen, history>>

\* consumeChallenge: the mark is seen by others when Login commits.
Consume(c) ==
    /\ pc[c] = "pin" /\ in[c].pin
    /\ IF Usable(in[c].ch)
       THEN LockCode(c) /\ Goto(c, "read device") /\ UNCHANGED share
       ELSE Free(c, in[c].ch) /\ Release(c) /\ Goto(c, "done")
    /\ UNCHANGED <<sessionVars, deviceVars, userVars, challengeVars, cached, in, seen, history>>

\* upsertDevice reads the device without a lock.
ReadDevice(c) ==
    /\ pc[c] = "read device"
    /\ Goto(c, IF in[c].dev \in known \ gone THEN "touch" ELSE "issue")
    /\ UNCHANGED <<sessionVars, deviceVars, userVars, challengeVars, cached, lockVars, in, seen, history>>

\* UPDATE devices SET last_seen_at, by a sign-in or a refresh.
TouchDevice(c) ==
    LET d == IF in[c].op = "token" THEN in[c].dev ELSE device[in[c].s] IN
    /\ pc[c] = "touch"
    /\ Free(c, d) /\ Take(c, d)
    /\ Goto(c, IF in[c].op = "token" THEN "issue" ELSE "rotate")
    /\ UNCHANGED <<sessionVars, deviceVars, userVars, challengeVars, cached, share, in, seen, history>>

\* A row of sessions for device d, and whether it belongs to the history variables.
Issue(s, d, isLate, isEscaped) ==
    /\ device' = [device EXCEPT ![s] = d]
    /\ age' = [age EXCEPT ![s] = 0]
    /\ late' = late \cup {t \in {s} : isLate}
    /\ escaped' = escaped \cup {t \in {s} : isEscaped}

\* Login commits, with the device it has locked or a new one.
SignIn(c) ==
    /\ pc[c] = "issue"
    /\ \E s \in Sessions \ Issued, d \in Devices :
          /\ IF lock[d] = c THEN TRUE ELSE d \notin known /\ \A x \in Devices : lock[x] # c
          /\ Issue(s, d, d \in gone, FALSE)
          /\ reason' = [reason EXCEPT ![s] = "alive"]
          /\ known' = known \cup {d}
    /\ pins' = 0 /\ locked' = FALSE
    /\ spent' = spent \cup {in[c].ch}
    /\ signins' = [signins EXCEPT ![in[c].ch] = @ + 1]
    /\ Release(c)
    /\ Goto(c, "done")
    /\ UNCHANGED <<rotated, gone, status, codes, stale, cached, in, seen>>

----
(* POST /v1/auth/refresh *)

\* Faulty variant: the session is read without a lock.
LockSessionNot(c) == lock[in[c].s] \in {None, c} /\ lock' = lock

LockSession(c) == Free(c, in[c].s) /\ Take(c, in[c].s)

\* SELECT ... FOR UPDATE by the hash of the refresh token.
FindSession(c) ==
    LET s == in[c].s IN
    /\ pc[c] = "find"
    /\ \/ /\ rotated[s] # None
          /\ LockSession(c) /\ Goto(c, "chain")
       \/ /\ rotated[s] = None /\ reason[s] = "alive" /\ age[s] < 2
          /\ LockSession(c) /\ Goto(c, "insert")
       \/ /\ rotated[s] = None /\ (reason[s] # "alive" \/ age[s] = 2)
          /\ Free(c, s) /\ Goto(c, "done") /\ UNCHANGED lock
    /\ UNCHANGED <<sessionVars, deviceVars, userVars, challengeVars, cached, share, in, seen, history>>

\* The next session is inserted.  Its foreign key takes the user's row FOR KEY SHARE
\* and waits while a sign-in holds it.
InsertSession(c) ==
    /\ pc[c] = "insert"
    /\ Free(c, User)
    /\ share' = share \cup {c}
    /\ Goto(c, "touch")
    /\ UNCHANGED <<sessionVars, deviceVars, userVars, challengeVars, cached, lock, in, seen, history>>

\* A replay is revoking this session at this moment, and does not know its heirs.
BeingRevoked(s) ==
    \E c \in Calls : pc[c] = "mark" /\ in[c].op = "refresh" /\ s \in seen[c]

\* Refresh commits: the old session points at the new one, which is now there.
Rotate(c) ==
    LET s == in[c].s IN
    /\ pc[c] = "rotate"
    /\ \E t \in Sessions \ Issued :
          /\ Issue(t, device[s], s \in late, s \in escaped \/ BeingRevoked(s))
          /\ reason' = [reason EXCEPT ![s] = "rotated", ![t] = "alive"]
          /\ rotated' = [rotated EXCEPT ![s] = t]
    /\ Release(c)
    /\ Goto(c, "forget")
    /\ UNCHANGED <<deviceVars, userVars, challengeVars, cached, in, seen, signins>>

\* What is reached from s by rotated_to: what every set that holds s and is closed
\* under rotated_to has in common.
Chain(s) ==
    {t \in Sessions : \A H \in SUBSET Sessions :
        (s \in H /\ \A x \in H : rotated[x] # None => rotated[x] \in H) => t \in H}

\* The sessions that UPDATE ... WHERE finds: those of the device, or the chain.
OfDevice(d) == {t \in Alive : device[t] = d}

\* Faulty variant: a replay revokes only the session whose token came back.
PickedOne(c) == IF in[c].op = "refresh" THEN {in[c].s} ELSE OfDevice(in[c].d)

Picked(c) ==
    IF in[c].op = "refresh" THEN {t \in Chain(in[c].s) : reason[t] # "replayed"}
                            ELSE OfDevice(in[c].d)

\* The statement sees the rows that are committed when it starts.
PickSessions(c) ==
    /\ pc[c] \in {"chain", "sessions"}
    /\ seen' = [seen EXCEPT ![c] = Picked(c)]
    /\ Goto(c, "mark")
    /\ UNCHANGED <<sessionVars, deviceVars, userVars, challengeVars, cached, lockVars, in, history>>

\* The UPDATE locks the rows it has picked, one after the other, and waits.
LockPicked(c) ==
    /\ pc[c] = "mark"
    /\ \E t \in seen[c] :
          /\ lock[t] = None
          /\ Take(c, t)
    /\ UNCHANGED <<sessionVars, deviceVars, userVars, challengeVars, cached, share, callVars, history>>

\* The commit of a replay, which revokes whatever the rows are by then, or of a
\* revoked device, which leaves out those revoked meanwhile.
RevokePicked(c) ==
    LET why == IF in[c].op = "refresh" THEN "replayed" ELSE "device" IN
    /\ pc[c] = "mark"
    /\ \A t \in seen[c] : lock[t] = c
    /\ reason' = [t \in Sessions |->
          IF t \in seen[c] /\ (why = "replayed" \/ reason[t] = "alive") THEN why ELSE reason[t]]
    /\ gone' = IF in[c].op = "revoke" THEN gone \cup {in[c].d} ELSE gone
    /\ seen' = [seen EXCEPT ![c] = {}]
    /\ Release(c)
    /\ Goto(c, "forget")
    /\ UNCHANGED <<device, rotated, age, known, userVars, challengeVars, cached, in, history>>

\* The cache entries go after the commit: of a refresh only the one of its own token.
Forget(c) ==
    /\ pc[c] = "forget"
    /\ cached' = IF in[c].op = "revoke" THEN {s \in cached : device[s] # in[c].d}
                                        ELSE cached \ {in[c].s}
    /\ Goto(c, "done")
    /\ UNCHANGED <<sessionVars, deviceVars, userVars, challengeVars, lockVars, in, seen, history>>

----
(* POST /v1/auth/logout and /v1/devices/{id}/revoke *)

\* One UPDATE of the session, guarded by revoked_at IS NULL.
Logout(c) ==
    LET s == in[c].s IN
    /\ pc[c] = "logout"
    /\ Free(c, s)
    /\ IF reason[s] = "alive"
       THEN reason' = [reason EXCEPT ![s] = "logout"] /\ Goto(c, "forget")
       ELSE Goto(c, "done") /\ UNCHANGED reason
    /\ UNCHANGED <<device, rotated, age, deviceVars, userVars, challengeVars, cached, lockVars, in,
                   seen, history>>

\* The UPDATE of the device; its sessions follow, and the commit after them.
LockDevice(c) ==
    LET d == in[c].d IN
    /\ pc[c] = "device"
    /\ IF d \in known \ gone
       THEN Free(c, d) /\ Take(c, d) /\ Goto(c, "sessions")
       ELSE Free(c, d) /\ Goto(c, "done") /\ UNCHANGED lock
    /\ UNCHANGED <<sessionVars, deviceVars, userVars, challengeVars, cached, share, in, seen, history>>

----
(* Verify, before every request *)

\* A cache that has the session is believed; one that is down has nothing.
Lookup(c) ==
    /\ pc[c] = "lookup"
    /\ \/ in[c].s \in cached /\ Goto(c, "done")
       \/ Goto(c, "row")
    /\ UNCHANGED <<sessionVars, deviceVars, userVars, challengeVars, cached, lockVars, in, seen, history>>

\* Faulty variant: the row is not asked whether it was revoked.
ValidThough(s) == age[s] = 0 /\ status = "active"

Valid(s) == reason[s] = "alive" /\ age[s] = 0 /\ status = "active"

ReadSession(c) ==
    /\ pc[c] = "row"
    /\ Goto(c, IF Valid(in[c].s) THEN "fill" ELSE "done")
    /\ UNCHANGED <<sessionVars, deviceVars, userVars, challengeVars, cached, lockVars, in, seen, history>>

\* The entry is written for at most a minute, and never beyond the access token.
Fill(c) ==
    /\ pc[c] = "fill"
    /\ cached' = cached \cup {s \in {in[c].s} : age[s] = 0}
    /\ Goto(c, "done")
    /\ UNCHANGED <<sessionVars, deviceVars, userVars, challengeVars, lockVars, in, seen, history>>

----
(* The rest *)

\* Block and Unblock write the status of the user.
SetStatus(c) ==
    /\ pc[c] = "status"
    /\ Free(c, User)
    /\ status' = IF in[c].op = "block" THEN "blocked" ELSE "active"
    /\ Goto(c, "done")
    /\ UNCHANGED <<sessionVars, deviceVars, pins, locked, challengeVars, cached, lockVars, in, seen, history>>

Die(c) ==
    /\ pc[c] \notin {"new", "done"}
    /\ Release(c)
    /\ seen' = [seen EXCEPT ![c] = {}]
    /\ Goto(c, "done")
    /\ UNCHANGED <<sessionVars, deviceVars, userVars, challengeVars, cached, in, history>>

CacheExpires(s) ==
    /\ s \in cached
    /\ cached' = cached \ {s}
    /\ UNCHANGED <<sessionVars, deviceVars, userVars, challengeVars, lockVars, callVars, history>>

\* The access token expires after 15 minutes, and its entry has expired before.
TokenExpires(s) ==
    /\ s \in Issued \ cached
    /\ age[s] < 2
    /\ age' = [age EXCEPT ![s] = @ + 1]
    /\ UNCHANGED <<reason, device, rotated, deviceVars, userVars, challengeVars, cached, lockVars,
                   callVars, history>>

ChallengeExpires(ch) ==
    /\ ch \notin stale
    /\ stale' = stale \cup {ch}
    /\ UNCHANGED <<sessionVars, deviceVars, userVars, codes, spent, cached, lockVars, callVars, history>>

PinLockEnds ==
    /\ locked
    /\ locked' = FALSE
    /\ UNCHANGED <<sessionVars, deviceVars, status, pins, challengeVars, cached, lockVars, callVars, history>>

----
Init ==
    /\ reason = [s \in Sessions |-> IF s = First THEN "alive" ELSE "unissued"]
    /\ device = [s \in Sessions |-> Home]
    /\ rotated = [s \in Sessions |-> None]
    /\ age = [s \in Sessions |-> 0]
    /\ known = {Home}
    /\ gone = {}
    /\ status = "active"
    /\ pins = 0
    /\ locked = FALSE
    /\ codes = [ch \in Challenges |-> 0]
    /\ spent = {}
    /\ stale = {}
    /\ cached = {}
    /\ lock = [x \in Rows |-> None]
    /\ share = {}
    /\ pc = [c \in Calls |-> "new"]
    /\ in = [c \in Calls |-> [op |-> "none"]]
    /\ seen = [c \in Calls |-> {}]
    /\ late = {}
    /\ escaped = {}
    /\ signins = [ch \in Challenges |-> 0]

Step(c) ==
    \/ Begin(c)
    \/ CheckCode(c) \/ CountCode(c) \/ LockUser(c) \/ WrongPin(c) \/ Consume(c) \/ ReadDevice(c)
    \/ TouchDevice(c) \/ SignIn(c)
    \/ FindSession(c) \/ InsertSession(c) \/ Rotate(c)
    \/ PickSessions(c) \/ LockPicked(c) \/ RevokePicked(c) \/ Forget(c)
    \/ Logout(c) \/ LockDevice(c)
    \/ Lookup(c) \/ ReadSession(c) \/ Fill(c)
    \/ SetStatus(c) \/ Die(c)

Next ==
    \/ \E c \in Calls : Step(c)
    \/ \E s \in Sessions : CacheExpires(s) \/ TokenExpires(s)
    \/ \E ch \in Challenges : ChallengeExpires(ch)
    \/ PinLockEnds

\* Redis drops an entry when its time has passed.  No call is obliged to finish.
Fairness == \A s \in Sessions : WF_vars(CacheExpires(s))

Spec == Init /\ [][Next]_vars /\ Fairness

----
(* Properties *)

\* A lock is held by a call that has a transaction open.
TypeOK ==
    /\ reason \in [Sessions -> {"unissued", "alive", "rotated", "replayed", "logout", "device"}]
    /\ device \in [Sessions -> Devices]
    /\ rotated \in [Sessions -> Sessions \cup {None}]
    /\ age \in [Sessions -> 0..2]
    /\ known \subseteq Devices /\ gone \subseteq known
    /\ status \in {"active", "blocked"} /\ pins \in 0..(MaxPins - 1) /\ locked \in BOOLEAN
    /\ codes \in [Challenges -> 0..MaxCodes]
    /\ spent \subseteq Challenges /\ stale \subseteq Challenges
    /\ cached \subseteq Issued
    /\ lock \in [Rows -> Calls \cup {None}]
    /\ \A x \in Rows : lock[x] # None => pc[lock[x]] \notin {"new", "done"}
    /\ share \subseteq Calls
    /\ seen \in [Calls -> SUBSET Sessions]
    /\ late \subseteq Sessions /\ escaped \subseteq Sessions
    /\ signins \in [Challenges -> Nat]

\* "Revoking a device signs out every session on it" (docs/api.md): a session of a
\* revoked device is alive only if a sign-in had read the device before, and never
\* because a refresh ran beside the revocation.
RevokedDeviceStaysOut ==
    \A s \in Alive : device[s] \in gone => s \in late

\* "Every session descended from it is revoked" (README.md): what is reached from a
\* replayed session is alive only if it was issued while the replay was being revoked.
ReplayEndsChain ==
    \A s \in Sessions : reason[s] = "replayed" => Chain(s) \cap Alive \subseteq escaped

\* A code signs in once, and is guessed MaxCodes times at most.
OneSignInPerChallenge ==
    \A ch \in Challenges : signins[ch] <= 1 /\ codes[ch] <= MaxCodes

\* A revoked session is refused for good after a while: no request that came after
\* the revocation writes the entry of the cache again.
RevokedIsRefused ==
    \A s \in Sessions : <>[](s \in Issued \ Alive => s \notin cached)
=============================================================================
