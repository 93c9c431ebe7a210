---------------------------- MODULE AccessProofs ----------------------------
(***************************************************************************)
(* Who may act, for every number of devices, sessions, codes, keys and     *)
(* requests: what signing in and staying signed in promise, and what the   *)
(* operators' changes of an account do.                                    *)
(***************************************************************************)
EXTENDS Sessions, Compliance, TLAPS

----
(* The invariant *)

TokenSteps   == {"code", "wrong code", "user", "pin", "read device", "touch", "issue", "done"}
RefreshSteps == {"find", "insert", "touch", "rotate", "chain", "mark", "forget", "done"}
RevokeSteps  == {"device", "sessions", "mark", "forget", "done"}
LogoutSteps  == {"logout", "forget", "done"}
VerifySteps  == {"lookup", "row", "fill", "done"}

AllSteps == {"new", "status"} \cup TokenSteps \cup RefreshSteps \cup RevokeSteps
                \cup LogoutSteps \cup VerifySteps

\* A call takes the steps of its load.
Fits(p, l) ==
    /\ l.op = "token" => p \in TokenSteps
    /\ l.op = "refresh" => p \in RefreshSteps
    /\ l.op = "revoke" => p \in RevokeSteps
    /\ l.op = "logout" => p \in LogoutSteps
    /\ l.op = "verify" => p \in VerifySteps
    /\ l.op \in {"block", "unblock"} => p \in {"status", "done"}

StepsInv ==
    /\ pc \in [Calls -> AllSteps]
    /\ in \in [Calls -> Loads \cup {[op |-> "none"]}]
    /\ \A c \in Calls : pc[c] # "new" =>
          /\ in[c] \in Loads /\ Fits(pc[c], in[c])
          /\ in[c].op \in {"refresh", "logout", "verify"} => in[c].s \in Issued

\* The rows a call has locked on its way, and what cannot have changed under the lock.
Holding == {"wrong code", "pin", "read device", "touch", "issue", "insert", "rotate", "chain",
            "sessions", "mark"}

HoldingInv == \A x \in Rows : lock[x] # None => pc[lock[x]] \in Holding

CodeLocked(c) == lock[in[c].ch] = c
LockedBy(c) ==
    /\ pc[c] = "wrong code" => lock[in[c].ch] = c /\ codes[in[c].ch] < MaxCodes
    /\ in[c].op = "token" /\ pc[c] \in {"read device", "touch", "issue"} =>
          lock[in[c].ch] = c /\ in[c].ch \notin spent
    /\ in[c].op = "refresh" /\ pc[c] \in {"insert", "touch", "rotate"} =>
          lock[in[c].s] = c /\ reason[in[c].s] = "alive"
    /\ pc[c] = "rotate" => lock[device[in[c].s]] = c
    /\ in[c].op = "revoke" /\ pc[c] \in {"sessions", "mark"} => lock[in[c].d] = c /\ in[c].d \in known

LockInv == \A c \in Calls : LockedBy(c)

\* A code is spent by the sign-in that commits with it.
SpentInv ==
    \A ch \in Challenges : signins[ch] = IF ch \in spent THEN 1 ELSE 0

\* The chains of sessions: the old ones point at the ones that replaced them.
RotatedInv ==
    \A s \in Sessions :
        /\ rotated[s] # None => rotated[s] \in Issued
        /\ reason[s] \in {"unissued", "alive"} => rotated[s] = None

\* What a revocation has picked and what it has missed.
Knows(c) ==
    /\ in[c].op = "revoke" => OfDevice(in[c].d) \subseteq seen[c]
    /\ in[c].op = "refresh" => seen[c] \subseteq Chain(in[c].s)
                               /\ Chain(in[c].s) \cap Alive \subseteq seen[c] \cup escaped

PickedInv == \A c \in Calls : pc[c] = "mark" => Knows(c)

IInv ==
    /\ TypeOK /\ StepsInv /\ HoldingInv /\ LockInv /\ SpentInv /\ RotatedInv /\ PickedInv
    /\ RevokedDeviceStaysOut /\ ReplayEndsChain

----
(* Types and steps *)

\* The fields of the loads.
LEMMA Fields ==
    ASSUME NEW l \in Loads
    PROVE  /\ l.op \in {"token", "refresh", "logout", "verify", "revoke", "block", "unblock"}
           /\ l.op = "token" => l.ch \in Challenges /\ l.dev \in Devices \cup {None}
           /\ l.op \in {"refresh", "logout", "verify"} => l.s \in Sessions
           /\ l.op = "revoke" => l.d \in Devices
BY LoadsAreLoads

\* What a call is about, by its step.
LEMMA OpOfStep ==
    ASSUME StepsInv, NEW c \in Calls, pc[c] # "new"
    PROVE  /\ in[c] \in Loads
           /\ pc[c] \in {"code", "wrong code", "user", "pin", "read device", "issue"} => in[c].op = "token"
           /\ pc[c] = "touch" => in[c].op \in {"token", "refresh"}
           /\ pc[c] \in {"find", "insert", "rotate", "chain"} => in[c].op = "refresh"
           /\ pc[c] \in {"device", "sessions"} => in[c].op = "revoke"
           /\ pc[c] = "mark" => in[c].op \in {"refresh", "revoke"}
           /\ pc[c] = "forget" => in[c].op \in {"refresh", "revoke", "logout"}
           /\ pc[c] = "logout" => in[c].op = "logout"
           /\ pc[c] \in {"lookup", "row", "fill"} => in[c].op = "verify"
           /\ pc[c] = "status" => in[c].op \in {"block", "unblock"}
BY Fields DEF StepsInv, Fits, TokenSteps, RefreshSteps, RevokeSteps, LogoutSteps, VerifySteps

LEMMA Entries ==
    /\ Entry["token"] = "code" /\ Entry["refresh"] = "find" /\ Entry["logout"] = "logout"
    /\ Entry["verify"] = "lookup" /\ Entry["revoke"] = "device"
    /\ Entry["block"] = "status" /\ Entry["unblock"] = "status"
BY DEF Entry

LEMMA StepsInit == Init => StepsInv
BY DEF Init, StepsInv, AllSteps

\* A call goes on to the step p.
Moves(c, p) ==
    /\ pc' = [pc EXCEPT ![c] = p] /\ in' = in
    /\ pc[c] # "new" /\ p \in AllSteps /\ Fits(p, in[c])

LEMMA MoveKeepsSteps ==
    ASSUME StepsInv, NEW c \in Calls, NEW p, Moves(c, p), Issued \subseteq Issued'
    PROVE  StepsInv'
BY DEF StepsInv, Moves

LEMMA EveryStepMoves ==
    ASSUME StepsInv, TypeOK, NEW c \in Calls, Step(c), ~Begin(c), ~LockPicked(c)
    PROVE  Moves(c, pc'[c]) /\ Issued \subseteq Issued'
<1> USE OpOfStep DEF Moves, Fits, AllSteps, TokenSteps, RefreshSteps, RevokeSteps, LogoutSteps,
        VerifySteps, Goto, Issued, StepsInv, sessionVars
<1>1. CASE CheckCode(c)
  BY <1>1 DEF CheckCode
<1>2. CASE CountCode(c)
  BY <1>2 DEF CountCode
<1>3. CASE LockUser(c)
  BY <1>3 DEF LockUser
<1>4. CASE WrongPin(c)
  BY <1>4 DEF WrongPin
<1>5. CASE Consume(c)
  BY <1>5 DEF Consume
<1>6. CASE ReadDevice(c)
  BY <1>6 DEF ReadDevice
<1>7. CASE TouchDevice(c)
  BY <1>7 DEF TouchDevice
<1>8. CASE SignIn(c)
  BY <1>8 DEF SignIn, TypeOK
<1>9. CASE FindSession(c)
  BY <1>9 DEF FindSession
<1>10. CASE InsertSession(c)
  BY <1>10 DEF InsertSession
<1>11. CASE Rotate(c)
  <2>1. PICK t \in Sessions \ Issued : reason' = [reason EXCEPT ![in[c].s] = "rotated", ![t] = "alive"]
    BY <1>11 DEF Rotate
  <2>2. Issued \subseteq Issued'
    BY <2>1 DEF TypeOK
  <2> QED
    BY <1>11, <2>2 DEF Rotate
<1>12. CASE PickSessions(c)
  BY <1>12 DEF PickSessions
<1>13. CASE RevokePicked(c)
  BY <1>13 DEF RevokePicked, TypeOK
<1>14. CASE Forget(c)
  BY <1>14 DEF Forget
<1>15. CASE Logout(c)
  <2>1. reason' = reason \/ reason' = [reason EXCEPT ![in[c].s] = "logout"]
    BY <1>15 DEF Logout
  <2>2. Issued \subseteq Issued'
    BY <2>1 DEF TypeOK
  <2>3. (pc' = [pc EXCEPT ![c] = "forget"] \/ pc' = [pc EXCEPT ![c] = "done"]) /\ in' = in /\ pc[c] = "logout"
    BY <1>15 DEF Logout
  <2> QED
    BY <2>2, <2>3
<1>16. CASE LockDevice(c)
  BY <1>16 DEF LockDevice
<1>17. CASE Lookup(c)
  BY <1>17 DEF Lookup
<1>18. CASE ReadSession(c)
  BY <1>18 DEF ReadSession
<1>19. CASE Fill(c)
  BY <1>19 DEF Fill
<1>20. CASE SetStatus(c)
  BY <1>20 DEF SetStatus
<1>21. CASE Die(c)
  BY <1>21 DEF Die
<1> QED
  BY <1>1, <1>2, <1>3, <1>4, <1>5, <1>6, <1>7, <1>8, <1>9, <1>10, <1>11, <1>12, <1>13, <1>14, <1>15,
     <1>16, <1>17, <1>18, <1>19, <1>20, <1>21 DEF Step

LEMMA StepsStep ==
    ASSUME StepsInv, TypeOK, [Next]_vars
    PROVE  StepsInv' /\ Issued \subseteq Issued'
<1>1. ASSUME NEW c \in Calls, Begin(c)
      PROVE  StepsInv' /\ Issued \subseteq Issued'
  <2>1. PICK l \in Loads :
          /\ l.op \in {"refresh", "logout", "verify"} => l.s \in Issued
          /\ in' = [in EXCEPT ![c] = l] /\ pc' = [pc EXCEPT ![c] = Entry[l.op]]
    BY <1>1 DEF Begin, Goto
  <2>2. Entry[l.op] \in AllSteps /\ Fits(Entry[l.op], l)
    BY Fields, Entries DEF Fits, AllSteps, TokenSteps, RefreshSteps, RevokeSteps, LogoutSteps,
       VerifySteps
  <2>3. Issued' = Issued
    BY <1>1 DEF Begin, Issued, sessionVars
  <2> QED
    BY <2>1, <2>2, <2>3 DEF StepsInv
<1>2. ASSUME pc' = pc, in' = in, Issued \subseteq Issued'
      PROVE  StepsInv'
  BY <1>2 DEF StepsInv
<1>3. ASSUME NEW c \in Calls, LockPicked(c)
      PROVE  pc' = pc /\ in' = in /\ Issued \subseteq Issued'
  BY <1>3 DEF LockPicked, callVars, sessionVars, Issued
<1>4. CASE \E s \in Sessions : CacheExpires(s) \/ TokenExpires(s)
  BY <1>2, <1>4 DEF CacheExpires, TokenExpires, callVars, sessionVars, Issued
<1>5. CASE (\E ch \in Challenges : ChallengeExpires(ch)) \/ PinLockEnds \/ UNCHANGED vars
  BY <1>2, <1>5 DEF ChallengeExpires, PinLockEnds, vars, callVars, sessionVars, Issued
<1> QED
  BY <1>1, <1>2, <1>3, <1>4, <1>5, EveryStepMoves, MoveKeepsSteps DEF Next

----
(* Locks *)

\* A call takes a lock, or lets go of all it has, or neither; and it goes on in its
\* transaction unless it has no lock.
Locks(c) ==
    \/ lock' = lock /\ (pc'[c] \in Holding \/ pc[c] \notin Holding)
    \/ pc'[c] \in Holding /\ \E x : Free(c, x) /\ Take(c, x)
    \/ Release(c)

LEMMA EveryStepLocks ==
    ASSUME StepsInv, NEW c \in Calls, Step(c)
    PROVE  Locks(c) /\ \A d \in Calls \ {c} : pc'[d] = pc[d]
<1> USE DEF Locks, Holding, StepsInv, Goto, lockVars, callVars
<1>1. CASE Begin(c)
  BY <1>1 DEF Begin
<1>2. CASE CheckCode(c)
  BY <1>2 DEF CheckCode, LockCode
<1>3. CASE CountCode(c)
  BY <1>3 DEF CountCode
<1>4. CASE LockUser(c)
  BY <1>4 DEF LockUser
<1>5. CASE WrongPin(c)
  BY <1>5 DEF WrongPin
<1>6. CASE Consume(c)
  BY <1>6 DEF Consume, LockCode
<1>7. CASE ReadDevice(c)
  BY <1>7 DEF ReadDevice
<1>8. CASE TouchDevice(c)
  BY <1>8 DEF TouchDevice
<1>9. CASE SignIn(c)
  BY <1>9 DEF SignIn
<1>10. CASE FindSession(c)
  BY <1>10 DEF FindSession, LockSession
<1>11. CASE InsertSession(c)
  BY <1>11 DEF InsertSession
<1>12. CASE Rotate(c)
  BY <1>12 DEF Rotate
<1>13. CASE PickSessions(c)
  BY <1>13 DEF PickSessions
<1>14. CASE LockPicked(c)
  BY <1>14 DEF LockPicked, Free
<1>15. CASE RevokePicked(c)
  BY <1>15 DEF RevokePicked
<1>16. CASE Forget(c)
  BY <1>16 DEF Forget
<1>17. CASE Logout(c)
  BY <1>17 DEF Logout
<1>18. CASE LockDevice(c)
  BY <1>18 DEF LockDevice
<1>19. CASE Lookup(c)
  BY <1>19 DEF Lookup
<1>20. CASE ReadSession(c)
  BY <1>20 DEF ReadSession
<1>21. CASE Fill(c)
  BY <1>21 DEF Fill
<1>22. CASE SetStatus(c)
  BY <1>22 DEF SetStatus
<1>23. CASE Die(c)
  BY <1>23 DEF Die
<1> QED
  BY <1>1, <1>2, <1>3, <1>4, <1>5, <1>6, <1>7, <1>8, <1>9, <1>10, <1>11, <1>12, <1>13, <1>14, <1>15,
     <1>16, <1>17, <1>18, <1>19, <1>20, <1>21, <1>22, <1>23 DEF Step

\* Who holds a lock is in a transaction: the calls that end have let go of theirs.
LEMMA HoldingStep ==
    ASSUME StepsInv, lock \in [Rows -> Calls \cup {None}], HoldingInv, [Next]_vars
    PROVE  HoldingInv' /\ lock' \in [Rows -> Calls \cup {None}]
<1>1. ASSUME NEW c \in Calls, Step(c)
      PROVE  HoldingInv' /\ lock' \in [Rows -> Calls \cup {None}]
  <2>1. \A d \in Calls \ {c} : pc'[d] = pc[d]
    BY <1>1, EveryStepLocks
  <2>2. CASE lock' = lock /\ (pc'[c] \in Holding \/ pc[c] \notin Holding)
    BY <2>1, <2>2 DEF HoldingInv
  <2>3. CASE pc'[c] \in Holding /\ \E x : Free(c, x) /\ Take(c, x)
    <3>1. PICK x : lock' = [lock EXCEPT ![x] = c]
      BY <2>3 DEF Take
    <3> QED
      BY <2>1, <2>3, <3>1 DEF HoldingInv
  <2>4. CASE Release(c)
    BY <2>1, <2>4 DEF HoldingInv, Release
  <2> QED
    BY <1>1, <2>2, <2>3, <2>4, EveryStepLocks DEF Locks
<1>2. CASE ~\E c \in Calls : Step(c)
  BY <1>2 DEF Next, vars, lockVars, callVars, CacheExpires, TokenExpires, ChallengeExpires,
     PinLockEnds, HoldingInv
<1> QED
  BY <1>1, <1>2

\* All of TypeOK but the cache and the locks.
Types ==
    /\ reason \in [Sessions -> {"unissued", "alive", "rotated", "replayed", "logout", "device"}]
    /\ device \in [Sessions -> Devices]
    /\ rotated \in [Sessions -> Sessions \cup {None}]
    /\ age \in [Sessions -> 0..2]
    /\ known \subseteq Devices /\ gone \subseteq known
    /\ status \in {"active", "blocked"} /\ pins \in 0..(MaxPins - 1) /\ locked \in BOOLEAN
    /\ codes \in [Challenges -> 0..MaxCodes]
    /\ spent \subseteq Challenges /\ stale \subseteq Challenges
    /\ share \subseteq Calls
    /\ seen \in [Calls -> SUBSET Sessions]
    /\ late \subseteq Sessions /\ escaped \subseteq Sessions
    /\ signins \in [Challenges -> Nat]

LEMMA TypesStep ==
    ASSUME Types, StepsInv, LockInv, [Next]_vars
    PROVE  Types'
<1> USE DEF Types, sessionVars, deviceVars, userVars, challengeVars, lockVars, callVars, history
<1>1. ASSUME NEW c \in Calls, Step(c)
      PROVE  Types'
  <2>1. CASE Begin(c)
    BY <2>1 DEF Begin
  <2>2. CASE CheckCode(c)
    BY <2>2 DEF CheckCode
  <2>3. CASE CountCode(c)
    <3>1. codes' \in [Challenges -> 0..MaxCodes]
      <4>1. in[c].ch \in Challenges /\ codes[in[c].ch] < MaxCodes
        BY <2>3, Fields, OpOfStep DEF CountCode, LockInv, LockedBy
      <4>2. codes[in[c].ch] + 1 \in 0..MaxCodes
        BY <4>1, LimitsAreNatural
      <4> QED
        BY <2>3, <4>2 DEF CountCode
    <3>2. share' \subseteq Calls
      BY <2>3 DEF CountCode, Release
    <3> QED
      BY <2>3, <3>1, <3>2 DEF CountCode
  <2>4. CASE LockUser(c)
    BY <2>4 DEF LockUser
  <2>5. CASE WrongPin(c)
    <3>1. pins' \in 0..(MaxPins - 1) /\ locked' \in BOOLEAN
      <4>1. pins' \in 0..(MaxPins - 1)
        BY <2>5, LimitsAreNatural DEF WrongPin
      <4>2. locked' \in BOOLEAN
        BY <2>5 DEF WrongPin
      <4> QED
        BY <4>1, <4>2
    <3>2. share' \subseteq Calls
      BY <2>5 DEF WrongPin, Release
    <3> QED
      BY <2>5, <3>1, <3>2 DEF WrongPin
  <2>6. CASE Consume(c)
    BY <2>6 DEF Consume, Release
  <2>7. CASE ReadDevice(c)
    BY <2>7 DEF ReadDevice
  <2>8. CASE TouchDevice(c)
    BY <2>8 DEF TouchDevice
  <2>9. CASE SignIn(c)
    <3>1. PICK s \in Sessions \ Issued, d \in Devices :
            /\ Issue(s, d, d \in gone, FALSE)
            /\ reason' = [reason EXCEPT ![s] = "alive"]
            /\ known' = known \cup {d}
      BY <2>9 DEF SignIn
    <3>2. /\ reason' \in [Sessions -> {"unissued", "alive", "rotated", "replayed", "logout", "device"}]
          /\ device' \in [Sessions -> Devices] /\ age' \in [Sessions -> 0..2]
          /\ late' \subseteq Sessions /\ escaped' \subseteq Sessions
          /\ known' \subseteq Devices /\ gone \subseteq known'
      BY <3>1 DEF Issue
    <3>3. in[c].ch \in Challenges
      BY <2>9, Fields, OpOfStep DEF SignIn
    <3>4. pins' \in 0..(MaxPins - 1) /\ locked' \in BOOLEAN
      <4>1. pins' \in 0..(MaxPins - 1)
        BY <2>9, LimitsAreNatural DEF SignIn
      <4>2. locked' \in BOOLEAN
        BY <2>9 DEF SignIn
      <4> QED
        BY <4>1, <4>2
    <3>5. share' \subseteq Calls /\ spent' \subseteq Challenges /\ signins' \in [Challenges -> Nat]
      BY <2>9, <3>3 DEF SignIn, Release
    <3> QED
      BY <2>9, <3>2, <3>4, <3>5 DEF SignIn
  <2>10. CASE FindSession(c)
    BY <2>10 DEF FindSession
  <2>11. CASE InsertSession(c)
    BY <2>11 DEF InsertSession
  <2>12. CASE Rotate(c)
    <3>1. PICK t \in Sessions \ Issued :
            /\ Issue(t, device[in[c].s], in[c].s \in late, in[c].s \in escaped \/ BeingRevoked(in[c].s))
            /\ reason' = [reason EXCEPT ![in[c].s] = "rotated", ![t] = "alive"]
            /\ rotated' = [rotated EXCEPT ![in[c].s] = t]
      BY <2>12 DEF Rotate
    <3>2. in[c].s \in Sessions
      BY <2>12, Fields, OpOfStep DEF Rotate
    <3>3. /\ reason' \in [Sessions -> {"unissued", "alive", "rotated", "replayed", "logout", "device"}]
          /\ rotated' \in [Sessions -> Sessions \cup {None}] /\ age' \in [Sessions -> 0..2]
          /\ late' \subseteq Sessions /\ escaped' \subseteq Sessions
      <4>1. /\ reason' \in [Sessions -> {"unissued", "alive", "rotated", "replayed", "logout", "device"}]
            /\ rotated' \in [Sessions -> Sessions \cup {None}]
        BY <3>1
      <4>2. age' \in [Sessions -> 0..2]
        BY <3>1 DEF Issue
      <4>3. late' \subseteq Sessions /\ escaped' \subseteq Sessions
        BY <3>1 DEF Issue
      <4> QED
        BY <4>1, <4>2, <4>3
    <3>4. device' \in [Sessions -> Devices]
      BY <3>1, <3>2 DEF Issue
    <3>5. share' \subseteq Calls
      BY <2>12 DEF Rotate, Release
    <3> QED
      BY <2>12, <3>3, <3>4, <3>5 DEF Rotate
  <2>13. CASE PickSessions(c)
    BY <2>13 DEF PickSessions, Picked, Chain, OfDevice, Alive
  <2>14. CASE LockPicked(c)
    BY <2>14 DEF LockPicked
  <2>15. CASE RevokePicked(c)
    <3>1. reason' \in [Sessions -> {"unissued", "alive", "rotated", "replayed", "logout", "device"}]
      BY <2>15 DEF RevokePicked
    <3>2. gone' \subseteq known
      <4>1. in[c].op = "revoke" => in[c].d \in known
        BY <2>15 DEF RevokePicked, LockInv, LockedBy
      <4> QED
        BY <2>15, <4>1 DEF RevokePicked
    <3>3. share' \subseteq Calls /\ seen' \in [Calls -> SUBSET Sessions]
      BY <2>15 DEF RevokePicked, Release
    <3> QED
      BY <2>15, <3>1, <3>2, <3>3 DEF RevokePicked
  <2>16. CASE Forget(c)
    BY <2>16 DEF Forget
  <2>17. CASE Logout(c)
    BY <2>17 DEF Logout
  <2>18. CASE LockDevice(c)
    BY <2>18 DEF LockDevice
  <2>19. CASE Lookup(c)
    BY <2>19 DEF Lookup
  <2>20. CASE ReadSession(c)
    BY <2>20 DEF ReadSession
  <2>21. CASE Fill(c)
    BY <2>21 DEF Fill
  <2>22. CASE SetStatus(c)
    BY <2>22 DEF SetStatus
  <2>23. CASE Die(c)
    BY <2>23 DEF Die, Release
  <2> QED
    BY <1>1, <2>1, <2>2, <2>3, <2>4, <2>5, <2>6, <2>7, <2>8, <2>9, <2>10, <2>11, <2>12, <2>13, <2>14,
       <2>15, <2>16, <2>17, <2>18, <2>19, <2>20, <2>21, <2>22, <2>23 DEF Step
<1>2. CASE \E s \in Sessions : CacheExpires(s) \/ TokenExpires(s)
  <2>1. PICK s \in Sessions : CacheExpires(s) \/ TokenExpires(s)
    BY <1>2
  <2>2. CASE CacheExpires(s)
    BY <2>2 DEF CacheExpires
  <2>3. CASE TokenExpires(s)
    <3>1. age[s] + 1 \in 0..2
      BY <2>3 DEF TokenExpires
    <3>2. age' \in [Sessions -> 0..2]
      BY <2>3, <3>1 DEF TokenExpires
    <3> QED
      BY <2>3, <3>2 DEF TokenExpires
  <2> QED
    BY <2>1, <2>2, <2>3
<1>3. CASE (\E ch \in Challenges : ChallengeExpires(ch)) \/ PinLockEnds \/ UNCHANGED vars
  BY <1>3 DEF ChallengeExpires, PinLockEnds, vars
<1> QED
  BY <1>1, <1>2, <1>3 DEF Next

LEMMA TypeStep ==
    ASSUME TypeOK, StepsInv, HoldingInv, LockInv, [Next]_vars
    PROVE  TypeOK'
<1>1. Types'
  BY TypesStep DEF TypeOK, Types
<1>2. /\ lock' \in [Rows -> Calls \cup {None}]
      /\ \A x \in Rows : lock'[x] # None => pc'[lock'[x]] \notin {"new", "done"}
  BY HoldingStep DEF TypeOK, HoldingInv, Holding
<1>3. cached' \subseteq cached \cup Issued
  <2>1. ASSUME NEW c \in Calls, Step(c)
        PROVE  cached' \subseteq cached \cup Issued
    <3>1. CASE Fill(c)
      BY <3>1, OpOfStep DEF Fill, StepsInv
    <3> QED
      BY <2>1, <3>1 DEF Step, Begin, CheckCode, CountCode, LockUser, WrongPin, Consume, ReadDevice,
         TouchDevice, SignIn, FindSession, InsertSession, Rotate, PickSessions, LockPicked, RevokePicked,
         Forget, Logout, LockDevice, Lookup, ReadSession, SetStatus, Die
  <2>2. CASE ~\E c \in Calls : Step(c)
    BY <2>2 DEF Next, vars, CacheExpires, TokenExpires, ChallengeExpires, PinLockEnds
  <2> QED
    BY <2>1, <2>2
<1>4. cached' \subseteq Issued'
  BY <1>3, StepsStep DEF TypeOK
<1> QED
  BY <1>1, <1>2, <1>4 DEF TypeOK, Types

\* What a call does not do to the rows that another call has locked.
Respects(d) ==
    /\ pc'[d] = pc[d] /\ in'[d] = in[d]
    /\ \A x \in Rows : lock[x] = d => lock'[x] = d
    /\ \A ch \in Challenges : lock[ch] = d => codes'[ch] = codes[ch] /\ (ch \in spent' => ch \in spent)
    /\ \A s \in Sessions : lock[s] = d /\ reason[s] = "alive" => reason'[s] = "alive"
    /\ \A s \in Issued : device'[s] = device[s]
    /\ known \subseteq known'

\* Most steps write no row of sessions, devices or challenges.
LEMMA QuietSteps ==
    ASSUME NEW c \in Calls, Step(c)
    PROVE  \/ UNCHANGED <<reason, device, rotated, known, gone, codes, spent, signins, late, escaped>>
           \/ CountCode(c) \/ SignIn(c) \/ Rotate(c) \/ RevokePicked(c) \/ Logout(c)
BY DEF Step, Begin, CheckCode, LockUser, WrongPin, Consume, ReadDevice, TouchDevice, FindSession,
   InsertSession,
   PickSessions, LockPicked, Forget, LockDevice, Lookup, ReadSession, Fill, SetStatus, Die,
   sessionVars, deviceVars, userVars, challengeVars, history

LEMMA StepRespects ==
    ASSUME TypeOK, StepsInv, LockInv, NEW c \in Calls, Step(c), NEW d \in Calls \ {c}
    PROVE  Respects(d)
<1>1. pc'[d] = pc[d] /\ in'[d] = in[d]
  <2>1. in' = in \/ Begin(c)
    BY EveryStepMoves DEF Moves, LockPicked, callVars
  <2> QED
    BY <2>1, EveryStepLocks DEF Begin, StepsInv
<1>2. \A x \in Rows : lock[x] = d => lock'[x] = d
  BY EveryStepLocks, NoneIsNone DEF Locks, TypeOK, Free, Take, Release
<1>3. /\ \A ch \in Challenges : lock[ch] = d => codes'[ch] = codes[ch] /\ (ch \in spent' => ch \in spent)
      /\ \A s \in Sessions : lock[s] = d /\ reason[s] = "alive" => reason'[s] = "alive"
      /\ \A s \in Issued : device'[s] = device[s]
      /\ known \subseteq known'
  <2>1. CASE CountCode(c)
    <3>1. in[c].ch \in Challenges /\ lock[in[c].ch] = c
      BY <2>1, Fields, OpOfStep DEF CountCode, LockInv, LockedBy
    <3>2. \A ch \in Challenges : lock[ch] = d => codes'[ch] = codes[ch]
      BY <2>1, <3>1 DEF CountCode, TypeOK
    <3>3. UNCHANGED <<spent, reason, device, known>>
      BY <2>1 DEF CountCode, sessionVars, deviceVars
    <3> QED
      BY <3>2, <3>3
  <2>2. CASE SignIn(c)
    <3>1. lock[in[c].ch] = c
      BY <2>2, OpOfStep DEF SignIn, LockInv, LockedBy
    <3>2. \A ch \in Challenges : lock[ch] = d => codes'[ch] = codes[ch] /\ (ch \in spent' => ch \in spent)
      BY <2>2, <3>1 DEF SignIn
    <3>3. PICK s \in Sessions \ Issued, e \in Devices :
            /\ device' = [device EXCEPT ![s] = e]
            /\ reason' = [reason EXCEPT ![s] = "alive"]
            /\ known' = known \cup {e}
      BY <2>2 DEF SignIn, Issue
    <3> QED
      BY <3>2, <3>3 DEF TypeOK, Issued
  <2>3. CASE Rotate(c)
    <3>1. lock[in[c].s] = c
      BY <2>3, OpOfStep DEF Rotate, LockInv, LockedBy
    <3>2. PICK t \in Sessions \ Issued :
            /\ device' = [device EXCEPT ![t] = device[in[c].s]]
            /\ reason' = [reason EXCEPT ![in[c].s] = "rotated", ![t] = "alive"]
      BY <2>3 DEF Rotate, Issue
    <3> QED
      BY <2>3, <3>1, <3>2 DEF Rotate, TypeOK, Issued, deviceVars, challengeVars
  <2>4. CASE RevokePicked(c)
    BY <2>4 DEF RevokePicked, TypeOK, challengeVars
  <2>5. CASE Logout(c)
    BY <2>5, NoneIsNone DEF Logout, Free, TypeOK, deviceVars, challengeVars
  <2> QED
    BY <2>1, <2>2, <2>3, <2>4, <2>5, QuietSteps
<1> QED
  BY <1>1, <1>2, <1>3 DEF Respects

LEMMA LockStep ==
    ASSUME TypeOK, StepsInv, LockInv, [Next]_vars
    PROVE  LockInv'
<1>1. ASSUME NEW c \in Calls, Step(c)
      PROVE  LockInv'
  <2>1. ASSUME NEW d \in Calls \ {c}
        PROVE  LockedBy(d)'
    <3>1. Respects(d) /\ LockedBy(d)
      BY <1>1, StepRespects DEF LockInv
    <3>2. CASE pc[d] = "new"
      BY <3>1, <3>2 DEF Respects, LockedBy
    <3>3. CASE pc[d] # "new"
      <4>1. /\ in[d].op = "token" => in[d].ch \in Challenges
            /\ in[d].op = "refresh" => in[d].s \in Issued /\ device[in[d].s] \in Devices
            /\ in[d].op = "revoke" => in[d].d \in Devices
        BY <3>3, Fields, OpOfStep DEF StepsInv, TypeOK, Issued
      <4>2. Challenges \subseteq Rows /\ Devices \subseteq Rows /\ Issued \subseteq Rows /\ Issued \subseteq Sessions
        BY DEF Rows, Issued
      <4>3. pc'[d] = pc[d] /\ in'[d] = in[d]
        BY <3>1 DEF Respects
      <4>4. (pc[d] = "wrong code" => lock[in[d].ch] = d /\ codes[in[d].ch] < MaxCodes)'
        <5>1. pc[d] = "wrong code" => in[d].op = "token"
          BY <3>3, OpOfStep
        <5> QED
          BY <3>1, <4>1, <4>2, <4>3, <5>1 DEF Respects, LockedBy
      <4>5. (in[d].op = "token" /\ pc[d] \in {"read device", "touch", "issue"} =>
                lock[in[d].ch] = d /\ in[d].ch \notin spent)'
        BY <3>1, <4>1, <4>2, <4>3 DEF Respects, LockedBy
      <4>6. (in[d].op = "refresh" /\ pc[d] \in {"insert", "touch", "rotate"} =>
                lock[in[d].s] = d /\ reason[in[d].s] = "alive")'
        BY <3>1, <4>1, <4>2, <4>3 DEF Respects, LockedBy
      <4>7. (pc[d] = "rotate" => lock[device[in[d].s]] = d)'
        <5>1. pc[d] = "rotate" => in[d].op = "refresh"
          BY <3>3, OpOfStep
        <5> QED
          BY <3>1, <4>1, <4>2, <4>3, <5>1 DEF Respects, LockedBy
      <4>8. (in[d].op = "revoke" /\ pc[d] \in {"sessions", "mark"} => lock[in[d].d] = d /\ in[d].d \in known)'
        BY <3>1, <4>1, <4>2, <4>3 DEF Respects, LockedBy
      <4> QED
        BY <4>4, <4>5, <4>6, <4>7, <4>8 DEF LockedBy
    <3> QED
      BY <3>2, <3>3
  <2>2. LockedBy(c)'
    <3> DEFINE Guarded == {"wrong code", "read device", "touch", "issue", "insert", "rotate", "sessions", "mark"}
    <3>1. CASE pc'[c] \notin Guarded
      BY <3>1 DEF LockedBy
    <3>2. CASE CheckCode(c) /\ pc'[c] \in Guarded
      <4>1. pc'[c] = "wrong code" /\ in' = in /\ codes' = codes
        BY <3>2 DEF CheckCode, Goto, StepsInv, challengeVars
      <4>2. lock' = [lock EXCEPT ![in[c].ch] = c] /\ codes[in[c].ch] < MaxCodes
        BY <3>2, <4>1 DEF CheckCode, Goto, StepsInv, LockCode, Take
      <4>3. in[c].op = "token" /\ in[c].ch \in Rows
        BY <3>2, OpOfStep, Fields DEF CheckCode, Rows
      <4> QED
        BY <4>1, <4>2, <4>3 DEF LockedBy, TypeOK
    <3>3. CASE Consume(c) /\ pc'[c] \in Guarded
      <4>1. pc'[c] = "read device" /\ in' = in /\ spent' = spent
        BY <3>3 DEF Consume, Goto, StepsInv, challengeVars
      <4>2. lock' = [lock EXCEPT ![in[c].ch] = c] /\ in[c].ch \notin spent
        BY <3>3, <4>1 DEF Consume, Goto, StepsInv, LockCode, Take, Usable
      <4>3. in[c].op = "token" /\ in[c].ch \in Rows
        BY <3>3, OpOfStep, Fields DEF Consume, Rows
      <4> QED
        BY <4>1, <4>2, <4>3 DEF LockedBy, TypeOK
    <3>4. CASE ReadDevice(c)
      <4>1. in[c].op = "token"
        BY <3>4, OpOfStep DEF ReadDevice
      <4> QED
        BY <3>4, <4>1 DEF ReadDevice, LockInv, LockedBy, Goto, StepsInv, lockVars, challengeVars
    <3>5. CASE TouchDevice(c)
      <4>1. LockedBy(c) /\ in[c] \in Loads /\ in[c].op \in {"token", "refresh"}
        BY <3>5, OpOfStep DEF TouchDevice, LockInv
      <4>2. CASE in[c].op = "token"
        <5>1. in[c].ch \in Rows
          BY <4>1, <4>2, Fields DEF Rows
        <5>2. lock' = [lock EXCEPT ![in[c].dev] = c] /\ pc'[c] = "issue" /\ in' = in /\ spent' = spent
          BY <3>5, <4>2 DEF TouchDevice, Take, Goto, StepsInv, challengeVars
        <5> QED
          BY <3>5, <4>1, <4>2, <5>1, <5>2 DEF TouchDevice, LockedBy, TypeOK
      <4>3. CASE in[c].op = "refresh"
        <5>1. in[c].s \in Rows /\ device[in[c].s] \in Rows
          BY <4>1, <4>3, Fields DEF Rows, TypeOK
        <5>2. /\ lock' = [lock EXCEPT ![device[in[c].s]] = c] /\ pc'[c] = "rotate" /\ in' = in
              /\ reason' = reason /\ device' = device
          BY <3>5, <4>3 DEF TouchDevice, Take, Goto, StepsInv, sessionVars
        <5> QED
          BY <3>5, <4>1, <4>3, <5>1, <5>2 DEF TouchDevice, LockedBy, TypeOK
      <4> QED
        BY <4>1, <4>2, <4>3
    <3>6. CASE FindSession(c) /\ pc'[c] \in Guarded
      <4>1. pc'[c] = "insert" /\ in' = in /\ reason' = reason
        BY <3>6 DEF FindSession, Goto, StepsInv, sessionVars
      <4>2. lock' = [lock EXCEPT ![in[c].s] = c] /\ reason[in[c].s] = "alive"
        BY <3>6, <4>1 DEF FindSession, Goto, StepsInv, LockSession, Take
      <4>3. in[c].op = "refresh" /\ in[c].s \in Rows
        BY <3>6, OpOfStep, Fields DEF FindSession, Rows
      <4> QED
        BY <4>1, <4>2, <4>3 DEF LockedBy, TypeOK
    <3>7. CASE InsertSession(c)
      <4>1. in[c].op = "refresh"
        BY <3>7, OpOfStep DEF InsertSession
      <4> QED
        BY <3>7, <4>1 DEF InsertSession, LockInv, LockedBy, Goto, StepsInv, sessionVars
    <3>8. CASE PickSessions(c)
      <4>1. pc[c] = "chain" => in[c].op = "refresh"
        BY OpOfStep
      <4> QED
        BY <3>8, <4>1 DEF PickSessions, LockInv, LockedBy, Goto, StepsInv, lockVars, deviceVars
    <3>9. CASE LockPicked(c)
      <4>1. in[c].op = "revoke" => in[c].d \in Rows
        BY <3>9, OpOfStep, Fields DEF LockPicked, Rows
      <4>2. LockedBy(c) /\ pc[c] = "mark" /\ pc' = pc /\ in' = in /\ known' = known
        BY <3>9 DEF LockPicked, LockInv, callVars, deviceVars
      <4>3. \A x \in Rows : lock[x] = c => lock'[x] = c
        BY <3>9 DEF LockPicked, Take, TypeOK
      <4> QED
        BY <4>1, <4>2, <4>3 DEF LockedBy
    <3>10. CASE LockDevice(c) /\ pc'[c] \in Guarded
      <4>1. in[c].op = "revoke" /\ in[c].d \in Rows
        BY <3>10, OpOfStep, Fields DEF LockDevice, Rows
      <4>2. pc'[c] = "sessions" /\ in' = in /\ known' = known
        BY <3>10 DEF LockDevice, Goto, StepsInv, deviceVars
      <4>3. lock' = [lock EXCEPT ![in[c].d] = c] /\ in[c].d \in known
        BY <3>10, <4>2 DEF LockDevice, Goto, StepsInv, Take
      <4> QED
        BY <4>1, <4>2, <4>3 DEF LockedBy, TypeOK
    <3>11. CASE Begin(c)
      <4>1. PICK l \in Loads : pc' = [pc EXCEPT ![c] = Entry[l.op]]
        BY <3>11 DEF Begin, Goto
      <4>2. Entry[l.op] \notin Guarded
        BY Fields, Entries
      <4> QED
        BY <3>1, <4>1, <4>2 DEF StepsInv
    <3> QED
      BY <1>1, <3>1, <3>2, <3>3, <3>4, <3>5, <3>6, <3>7, <3>8, <3>9, <3>10, <3>11
      DEF Step, CountCode, LockUser, WrongPin, SignIn, Rotate, RevokePicked, Forget, Logout, Lookup,
         ReadSession,
          Fill, SetStatus, Die, Goto, StepsInv
  <2> QED
    BY <2>1, <2>2 DEF LockInv
<1>2. ASSUME UNCHANGED <<pc, in, lock, codes, spent, reason, device, known>>
      PROVE  LockInv'
  BY <1>2 DEF LockInv, LockedBy
<1>3. CASE ~\E c \in Calls : Step(c)
  BY <1>2, <1>3 DEF Next, vars, sessionVars, deviceVars, challengeVars, lockVars, callVars,
     CacheExpires, TokenExpires,
     ChallengeExpires, PinLockEnds
<1> QED
  BY <1>1, <1>3
----
(* Codes *)

LEMMA SpentStep ==
    ASSUME TypeOK, StepsInv, LockInv, SpentInv, [Next]_vars
    PROVE  SpentInv'
<1>1. ASSUME NEW c \in Calls, SignIn(c)
      PROVE  SpentInv'
  <2>1. in[c].ch \in Challenges /\ in[c].ch \notin spent
    BY <1>1, Fields, OpOfStep DEF SignIn, LockInv, LockedBy
  <2>2. spent' = spent \cup {in[c].ch} /\ signins' = [signins EXCEPT ![in[c].ch] = @ + 1]
    BY <1>1 DEF SignIn
  <2> QED
    BY <2>1, <2>2 DEF SpentInv, TypeOK
<1>2. ASSUME UNCHANGED <<spent, signins>>
      PROVE  SpentInv'
  BY <1>2 DEF SpentInv
<1>3. ASSUME NEW c \in Calls, Step(c), ~SignIn(c)
      PROVE  UNCHANGED <<spent, signins>>
  BY <1>3, QuietSteps DEF CountCode, Rotate, RevokePicked, Logout, challengeVars, history
<1>4. CASE ~\E c \in Calls : Step(c)
  BY <1>2, <1>4 DEF Next, vars, challengeVars, history, CacheExpires, TokenExpires, ChallengeExpires,
     PinLockEnds
<1> QED
  BY <1>1, <1>2, <1>3, <1>4

----
(* Chains *)

Closed(f, H) == \A x \in H : f[x] # None => f[x] \in H

\* Chain, of any function that says which session replaced which.
Reach(f, s) == {t \in Sessions : \A H \in SUBSET Sessions : s \in H /\ Closed(f, H) => t \in H}

Links == [Sessions -> Sessions \cup {None}]

LEMMA ChainIsReach == \A s : Chain(s) = Reach(rotated, s)
BY DEF Chain, Reach, Closed

LEMMA ReachIsClosed ==
    ASSUME NEW f \in Links, NEW s \in Sessions
    PROVE  s \in Reach(f, s) /\ Closed(f, Reach(f, s)) /\ Reach(f, s) \in SUBSET Sessions
<1>1. s \in Reach(f, s) /\ Reach(f, s) \in SUBSET Sessions
  BY DEF Reach
<1>2. ASSUME NEW x \in Reach(f, s), f[x] # None
      PROVE  f[x] \in Reach(f, s)
  <2>1. f[x] \in Sessions
    BY <1>2 DEF Reach, Links
  <2>2. ASSUME NEW H \in SUBSET Sessions, s \in H, Closed(f, H)
        PROVE  f[x] \in H
    BY <1>2, <2>2 DEF Reach, Closed
  <2> QED
    BY <2>1, <2>2 DEF Reach
<1> QED
  BY <1>1, <1>2 DEF Closed

LEMMA ReachIsLeast ==
    ASSUME NEW f, NEW s, NEW H \in SUBSET Sessions, s \in H, Closed(f, H)
    PROVE  Reach(f, s) \subseteq H
BY DEF Reach

\* More links, longer chains.
LEMMA ReachGrows ==
    ASSUME NEW f \in Links, NEW g \in Links, NEW s \in Sessions,
           \A x \in Sessions : f[x] # None => g[x] = f[x]
    PROVE  Reach(f, s) \subseteq Reach(g, s)
<1>1. s \in Reach(g, s) /\ Closed(g, Reach(g, s)) /\ Reach(g, s) \in SUBSET Sessions
  BY ReachIsClosed
<1>2. Closed(f, Reach(g, s))
  BY <1>1 DEF Closed
<1> QED
  BY <1>1, <1>2, ReachIsLeast

\* A new link from the end x of a chain adds its target t, to the chains through x.
LEMMA ReachOfLink ==
    ASSUME NEW f \in Links, NEW r \in Sessions, NEW x \in Sessions, NEW t \in Sessions,
           t # x, f[t] = None
    PROVE  /\ Reach([f EXCEPT ![x] = t], r) \subseteq Reach(f, r) \cup {t}
           /\ x \notin Reach(f, r) => Reach([f EXCEPT ![x] = t], r) \subseteq Reach(f, r)
<1> DEFINE g == [f EXCEPT ![x] = t]
<1>1. r \in Reach(f, r) /\ Closed(f, Reach(f, r)) /\ Reach(f, r) \in SUBSET Sessions
  BY ReachIsClosed
<1>2. \A y \in Sessions : g[y] = IF y = x THEN t ELSE f[y]
  BY DEF Links
<1>3. Closed(g, Reach(f, r) \cup {t})
  BY <1>1, <1>2 DEF Closed
<1>4. x \notin Reach(f, r) => Closed(g, Reach(f, r))
  BY <1>1, <1>2 DEF Closed
<1> HIDE DEF g
<1>5. Reach(g, r) \subseteq Reach(f, r) \cup {t}
  BY <1>1, <1>3, ReachIsLeast
<1>6. x \notin Reach(f, r) => Reach(g, r) \subseteq Reach(f, r)
  BY <1>1, <1>4, ReachIsLeast
<1> QED
  BY <1>5, <1>6 DEF g

\* The chain of a session that was issued holds issued sessions only.
LEMMA ChainIsIssued ==
    ASSUME TypeOK, RotatedInv, NEW s \in Issued
    PROVE  Chain(s) \subseteq Issued
<1>1. Issued \in SUBSET Sessions
  BY DEF Issued
<1>2. Closed(rotated, Issued)
  BY <1>1 DEF Closed, RotatedInv
<1> QED
  BY <1>1, <1>2, ReachIsLeast, ChainIsReach

----
(* What happens to the rows of sessions *)

\* No session becomes alive or is issued, and every row that stays alive stays as it is.
Quiet ==
    /\ UNCHANGED <<device, rotated, late, escaped, gone>>
    /\ \A s \in Sessions : reason'[s] = reason[s] \/ reason'[s] \notin {"unissued", "alive", "replayed"}

\* A sign-in issues a session for a device whose lock it holds or that is new.
SignsIn(c, s, d) ==
    /\ s \in Sessions \ Issued /\ d \in Devices
    /\ lock[d] = c \/ d \notin known
    /\ device' = [device EXCEPT ![s] = d] /\ reason' = [reason EXCEPT ![s] = "alive"]
    /\ late' = late \cup {t \in {s} : d \in gone}
    /\ UNCHANGED <<rotated, gone, escaped, in, seen>>

\* A refresh replaces x by t.
Rotates(c, x, t) ==
    /\ x \in Sessions /\ t \in Sessions \ Issued /\ reason[x] = "alive"
    /\ lock[device[x]] = c
    /\ device' = [device EXCEPT ![t] = device[x]]
    /\ reason' = [reason EXCEPT ![x] = "rotated", ![t] = "alive"]
    /\ rotated' = [rotated EXCEPT ![x] = t]
    /\ late' = late \cup {y \in {t} : x \in late}
    /\ escaped' = escaped \cup {y \in {t} : x \in escaped \/ BeingRevoked(x)}
    /\ UNCHANGED <<gone, in, seen>>

LEMMA SessionSteps ==
    ASSUME TypeOK, StepsInv, LockInv, [Next]_vars
    PROVE  \/ Quiet
           \/ \E c \in Calls, s \in Sessions, d \in Devices : SignIn(c) /\ SignsIn(c, s, d)
           \/ \E c \in Calls, x \in Sessions, t \in Sessions : Rotate(c) /\ Rotates(c, x, t)
           \/ \E c \in Calls : RevokePicked(c)
<1>1. ASSUME NEW c \in Calls, SignIn(c)
      PROVE  \E s \in Sessions, d \in Devices : SignsIn(c, s, d)
  <2>1. PICK s \in Sessions \ Issued, d \in Devices :
          /\ lock[d] = c \/ d \notin known
          /\ Issue(s, d, d \in gone, FALSE)
          /\ reason' = [reason EXCEPT ![s] = "alive"]
    BY <1>1 DEF SignIn
  <2>2. SignsIn(c, s, d)
    BY <1>1, <2>1 DEF SignIn, SignsIn, Issue
  <2> QED
    BY <2>2
<1>2. ASSUME NEW c \in Calls, Rotate(c)
      PROVE  \E x \in Sessions, t \in Sessions : Rotates(c, x, t)
  <2> DEFINE x == in[c].s
  <2>1. PICK t \in Sessions \ Issued :
          /\ Issue(t, device[x], x \in late, x \in escaped \/ BeingRevoked(x))
          /\ reason' = [reason EXCEPT ![x] = "rotated", ![t] = "alive"]
          /\ rotated' = [rotated EXCEPT ![x] = t]
    BY <1>2 DEF Rotate
  <2>2. x \in Sessions /\ reason[x] = "alive" /\ lock[device[x]] = c
    BY <1>2, Fields, OpOfStep DEF Rotate, LockInv, LockedBy
  <2>3. Rotates(c, x, t)
    BY <1>2, <2>1, <2>2 DEF Rotate, Rotates, Issue, deviceVars
  <2> QED
    BY <2>2, <2>3
<1>3. ASSUME NEW c \in Calls, Logout(c)
      PROVE  Quiet
  BY <1>3 DEF Logout, Quiet, deviceVars, history, TypeOK
<1>4. ASSUME NEW c \in Calls, CountCode(c)
      PROVE  Quiet
  BY <1>4 DEF CountCode, Quiet, sessionVars, deviceVars, history
<1>5. ASSUME NEW c \in Calls, Step(c), ~SignIn(c), ~Rotate(c), ~RevokePicked(c)
      PROVE  Quiet
  BY <1>3, <1>4, <1>5, QuietSteps DEF Quiet
<1>6. CASE ~\E c \in Calls : Step(c)
  BY <1>6 DEF Next, vars, sessionVars, deviceVars, history, CacheExpires, TokenExpires,
     ChallengeExpires, PinLockEnds, Quiet
<1>7. ASSUME NEW c \in Calls, Step(c)
      PROVE  \/ Quiet
             \/ \E s \in Sessions, d \in Devices : SignIn(c) /\ SignsIn(c, s, d)
             \/ \E x \in Sessions, t \in Sessions : Rotate(c) /\ Rotates(c, x, t)
             \/ RevokePicked(c)
  BY <1>1, <1>2, <1>5, <1>7
<1> QED
  BY <1>6, <1>7

\* Who marks and with which rows in mind changes by the call itself.
LEMMA SeenStep ==
    ASSUME TypeOK, StepsInv, LockInv, [Next]_vars, NEW c \in Calls, pc'[c] = "mark"
    PROVE  \/ PickSessions(c)
           \/ pc[c] = "mark" /\ in'[c] = in[c] /\ seen'[c] = seen[c]
<1>1. ASSUME NEW d \in Calls, Step(d), d # c
      PROVE  pc[c] = "mark" /\ in'[c] = in[c] /\ seen'[c] = seen[c]
  <2>1. Respects(c)
    BY <1>1, StepRespects
  <2>2. seen'[c] = seen[c]
    BY <1>1 DEF TypeOK, Step, Begin, CheckCode, CountCode, LockUser, WrongPin, Consume, ReadDevice,
       TouchDevice,
       SignIn, FindSession, InsertSession, Rotate, PickSessions, LockPicked, RevokePicked, Forget, Logout,
       LockDevice, Lookup, ReadSession, Fill, SetStatus, Die, callVars
  <2> QED
    BY <2>1, <2>2 DEF Respects
<1>2. CASE Step(c)
  <2>1. CASE Begin(c)
    <3>1. PICK l \in Loads : pc' = [pc EXCEPT ![c] = Entry[l.op]]
      BY <2>1 DEF Begin, Goto
    <3>2. Entry[l.op] # "mark"
      BY Fields, Entries
    <3> QED
      BY <3>1, <3>2 DEF StepsInv
  <2>2. CASE LockPicked(c)
    BY <2>2 DEF LockPicked, callVars
  <2> QED
    BY <1>2, <2>1, <2>2 DEF Step, CheckCode, CountCode, LockUser, WrongPin, Consume, ReadDevice,
       TouchDevice,
       SignIn, FindSession, InsertSession, Rotate, RevokePicked, Forget, Logout,
       LockDevice, Lookup, ReadSession, Fill, SetStatus, Die, Goto, StepsInv
<1>3. CASE ~\E d \in Calls : Step(d)
  BY <1>3 DEF Next, vars, callVars, CacheExpires, TokenExpires, ChallengeExpires, PinLockEnds
<1> QED
  BY <1>1, <1>2, <1>3

LEMMA RotatedStep ==
    ASSUME TypeOK, StepsInv, LockInv, RotatedInv, [Next]_vars
    PROVE  RotatedInv'
<1>1. Issued \subseteq Issued'
  BY StepsStep
<1>2. CASE Quiet
  BY <1>1, <1>2 DEF Quiet, RotatedInv, TypeOK
<1>3. ASSUME NEW c \in Calls, NEW s \in Sessions, NEW d \in Devices, SignsIn(c, s, d)
      PROVE  RotatedInv'
  BY <1>1, <1>3 DEF SignsIn, RotatedInv, TypeOK, Issued
<1>4. ASSUME NEW c \in Calls, NEW x \in Sessions, NEW t \in Sessions, Rotates(c, x, t)
      PROVE  RotatedInv'
  <2>1. t # x /\ rotated[t] = None /\ t \in Issued'
    BY <1>4 DEF Rotates, Issued, RotatedInv, TypeOK
  <2>2. reason' = [reason EXCEPT ![x] = "rotated", ![t] = "alive"] /\ rotated' = [rotated EXCEPT ![x] = t]
    BY <1>4 DEF Rotates
  <2> QED
    BY <1>1, <2>1, <2>2 DEF RotatedInv, TypeOK
<1>5. ASSUME NEW c \in Calls, RevokePicked(c)
      PROVE  RotatedInv'
  BY <1>1, <1>5 DEF RevokePicked, RotatedInv, TypeOK
<1> QED
  BY <1>2, <1>3, <1>4, <1>5, SessionSteps

----
(* Revocations *)

\* What a new session adds to a chain: nothing, unless the session it replaces is in it.
LEMMA ChainOfRotation ==
    ASSUME TypeOK, RotatedInv, NEW c \in Calls, NEW x \in Sessions, NEW t \in Sessions, Rotates(c, x, t),
           NEW r \in Issued
    PROVE  /\ Chain(r) \subseteq Chain(r)'
           /\ Chain(r)' \subseteq Chain(r) \cup {t}
           /\ t \in Chain(r)' => x \in Chain(r)
<1>1. /\ rotated \in Links /\ r \in Sessions /\ t # x /\ t \notin Issued
      /\ rotated[x] = None /\ rotated[t] = None /\ rotated' = [rotated EXCEPT ![x] = t]
  BY DEF TypeOK, RotatedInv, Rotates, Issued, Links
<1>2. /\ Reach(rotated', r) \subseteq Reach(rotated, r) \cup {t}
      /\ x \notin Reach(rotated, r) => Reach(rotated', r) \subseteq Reach(rotated, r)
  BY <1>1, ReachOfLink
<1>3. rotated' \in Links /\ \A y \in Sessions : rotated[y] # None => rotated'[y] = rotated[y]
  BY <1>1 DEF Links
<1>4. Reach(rotated, r) \subseteq Reach(rotated', r)
  BY <1>1, <1>3, ReachGrows
<1>5. Chain(r) = Reach(rotated, r) /\ Chain(r)' = Reach(rotated', r)
  BY DEF Chain, Reach, Closed
<1>6. Chain(r) \subseteq Issued
  BY ChainIsIssued
<1> QED
  BY <1>1, <1>2, <1>4, <1>5, <1>6

LEMMA ChainUnlessRotated ==
    ASSUME rotated' = rotated
    PROVE  \A s : Chain(s)' = Chain(s)
BY DEF Chain

LEMMA PickedStep ==
    ASSUME TypeOK, StepsInv, LockInv, RotatedInv, PickedInv, [Next]_vars
    PROVE  PickedInv'
<1> SUFFICES ASSUME NEW c \in Calls, pc'[c] = "mark"
             PROVE  Knows(c)'
  BY DEF PickedInv, Knows
<1>1. CASE PickSessions(c)
  <2>1. /\ seen'[c] = Picked(c) /\ in' = in
        /\ UNCHANGED <<reason, device, rotated, escaped>>
    BY <1>1 DEF PickSessions, TypeOK, sessionVars, history
  <2>2. OfDevice(in[c].d)' = OfDevice(in[c].d) /\ Alive' = Alive /\ Chain(in[c].s)' = Chain(in[c].s)
    BY <2>1 DEF OfDevice, Alive, Chain
  <2>3. in[c].op = "refresh" => /\ Picked(c) \subseteq Chain(in[c].s)
                                /\ Chain(in[c].s) \cap Alive \subseteq Picked(c)
    BY DEF Picked, Alive
  <2>4. in[c].op = "revoke" => Picked(c) = OfDevice(in[c].d)
    BY DEF Picked
  <2> QED
    BY <2>1, <2>2, <2>3, <2>4 DEF Knows
<1>2. CASE pc[c] = "mark" /\ in'[c] = in[c] /\ seen'[c] = seen[c]
  <2>1. PICK l : l = in[c]
    OBVIOUS
  <2> DEFINE Later == /\ l.op = "revoke" => OfDevice(l.d)' \subseteq seen[c]
                      /\ l.op = "refresh" => /\ seen[c] \subseteq Chain(l.s)'
                                                 /\ Chain(l.s)' \cap Alive' \subseteq seen[c] \cup escaped'
  <2>2. /\ l.op = "revoke" => OfDevice(l.d) \subseteq seen[c] /\ lock[l.d] = c /\ l.d \in known
        /\ l.op = "refresh" => /\ l.s \in Issued
                                   /\ seen[c] \subseteq Chain(l.s)
                                   /\ Chain(l.s) \cap Alive \subseteq seen[c] \cup escaped
        /\ l.op \in {"refresh", "revoke"}
    BY <1>2, <2>1, OpOfStep DEF PickedInv, Knows, LockInv, LockedBy, StepsInv
  <2>3. ASSUME UNCHANGED <<device, rotated, escaped>>, Alive' \subseteq Alive
        PROVE  Later
    BY <2>2, <2>3, ChainUnlessRotated DEF OfDevice
  <2>4. ASSUME NEW d \in Calls, NEW s \in Sessions, NEW e \in Devices, SignIn(d), SignsIn(d, s, e)
        PROVE  Later
    <3>1. /\ Alive' = Alive \cup {s} /\ device' = [device EXCEPT ![s] = e] /\ rotated' = rotated
          /\ escaped' = escaped /\ s \notin Issued
      BY <2>4 DEF SignsIn, Alive, TypeOK
    <3>2. c # d
      BY <2>4, <1>2 DEF SignIn
    <3>3. l.op = "revoke" => e # l.d
      BY <2>2, <2>4, <3>2 DEF SignsIn
    <3>4. l.op = "revoke" => OfDevice(l.d)' \subseteq OfDevice(l.d)
      BY <3>1, <3>3 DEF OfDevice, TypeOK, Alive
    <3>5. l.op = "refresh" => s \notin Chain(l.s)
      BY <2>2, <3>1, ChainIsIssued
    <3> QED
      BY <2>2, <3>1, <3>4, <3>5, ChainUnlessRotated
  <2>5. ASSUME NEW d \in Calls, NEW x \in Sessions, NEW t \in Sessions, Rotate(d), Rotates(d, x, t)
        PROVE  Later
    <3>1. /\ Alive' = (Alive \ {x}) \cup {t} /\ device' = [device EXCEPT ![t] = device[x]]
          /\ x \in Alive /\ t \notin Issued /\ lock[device[x]] = d
          /\ escaped \subseteq escaped' /\ (x \in escaped \/ BeingRevoked(x) => t \in escaped')
      BY <2>5 DEF Rotates, Alive, TypeOK, Issued
    <3>2. c # d
      BY <2>5, <1>2 DEF Rotate
    <3>3. l.op = "revoke" => OfDevice(l.d)' \subseteq OfDevice(l.d)
      BY <2>2, <3>1, <3>2 DEF OfDevice, TypeOK, Alive
    <3>4. CASE l.op = "refresh"
      <4>1. /\ Chain(l.s) \subseteq Chain(l.s)'
            /\ Chain(l.s)' \subseteq Chain(l.s) \cup {t}
            /\ t \in Chain(l.s)' => x \in Chain(l.s)
        BY <2>2, <2>5, <3>4, ChainOfRotation
      <4>2. x \in seen[c] => BeingRevoked(x)
        BY <1>2, <2>1, <3>4 DEF BeingRevoked
      <4>3. t \in Chain(l.s)' => t \in escaped'
        BY <2>2, <3>1, <3>4, <4>1, <4>2
      <4> QED
        BY <2>2, <3>1, <3>4, <4>1, <4>3
    <3> QED
      BY <2>2, <3>3, <3>4
  <2>6. Quiet => UNCHANGED <<device, rotated, escaped>> /\ Alive' \subseteq Alive
    BY DEF Quiet, Alive
  <2>7. ASSUME NEW d \in Calls, RevokePicked(d)
        PROVE  UNCHANGED <<device, rotated, escaped>> /\ Alive' \subseteq Alive
    BY <2>7 DEF RevokePicked, Alive, history
  <2>8. Later
    BY <2>3, <2>4, <2>5, <2>6, <2>7, SessionSteps
  <2>9. Knows(c)' <=> Later
    BY <1>2, <2>1 DEF Knows, OfDevice, Chain
  <2> QED
    BY <2>8, <2>9
<1> QED
  BY <1>1, <1>2, SeenStep

LEMMA RevokedStep ==
    ASSUME TypeOK, StepsInv, LockInv, PickedInv, RevokedDeviceStaysOut, [Next]_vars
    PROVE  RevokedDeviceStaysOut'
<1>1. CASE Quiet
  BY <1>1 DEF Quiet, RevokedDeviceStaysOut, Alive
<1>2. ASSUME NEW c \in Calls, NEW s \in Sessions, NEW d \in Devices, SignsIn(c, s, d)
      PROVE  RevokedDeviceStaysOut'
  BY <1>2 DEF SignsIn, RevokedDeviceStaysOut, Alive, TypeOK
<1>3. ASSUME NEW c \in Calls, NEW x \in Sessions, NEW t \in Sessions, Rotates(c, x, t)
      PROVE  RevokedDeviceStaysOut'
  BY <1>3 DEF Rotates, RevokedDeviceStaysOut, Alive, TypeOK
<1>4. ASSUME NEW c \in Calls, RevokePicked(c)
      PROVE  RevokedDeviceStaysOut'
  <2>1. Alive' \subseteq Alive /\ UNCHANGED <<device, late>>
    BY <1>4 DEF RevokePicked, Alive, history
  <2>2. CASE in[c].op = "refresh"
    BY <1>4, <2>1, <2>2 DEF RevokePicked, RevokedDeviceStaysOut
  <2>3. CASE in[c].op = "revoke"
    <3>1. OfDevice(in[c].d) \subseteq seen[c]
      BY <1>4, <2>3 DEF RevokePicked, PickedInv, Knows
    <3>2. seen[c] \cap Alive' = {} /\ gone' = gone \cup {in[c].d}
      BY <1>4, <2>3 DEF RevokePicked, Alive
    <3> QED
      BY <2>1, <3>1, <3>2 DEF RevokedDeviceStaysOut, OfDevice
  <2> QED
    BY <1>4, <2>2, <2>3, OpOfStep DEF RevokePicked
<1> QED
  BY <1>1, <1>2, <1>3, <1>4, SessionSteps

LEMMA ReplayStep ==
    ASSUME TypeOK, StepsInv, LockInv, RotatedInv, PickedInv, ReplayEndsChain, [Next]_vars
    PROVE  ReplayEndsChain'
<1>1. ASSUME Alive' \subseteq Alive, UNCHANGED <<rotated, escaped>>,
             NEW s \in Sessions, reason[s] = "replayed"
      PROVE  Chain(s)' \cap Alive' \subseteq escaped'
  BY <1>1, ChainUnlessRotated DEF ReplayEndsChain
<1>2. CASE Quiet
  <2>1. Alive' \subseteq Alive /\ UNCHANGED <<rotated, escaped>>
    BY <1>2 DEF Quiet, Alive
  <2>2. \A s \in Sessions : reason'[s] = "replayed" => reason[s] = "replayed"
    BY <1>2 DEF Quiet
  <2> QED
    BY <1>1, <2>1, <2>2 DEF ReplayEndsChain, Chain
<1>3. ASSUME NEW c \in Calls, NEW s \in Sessions, NEW d \in Devices, SignsIn(c, s, d)
      PROVE  ReplayEndsChain'
  <2> SUFFICES ASSUME NEW r \in Sessions, reason'[r] = "replayed"
               PROVE  Chain(r)' \cap Alive' \subseteq escaped'
    BY DEF ReplayEndsChain, Chain
  <2>1. /\ reason[r] = "replayed" /\ r \in Issued /\ s \notin Issued
        /\ Alive' = Alive \cup {s} /\ UNCHANGED <<rotated, escaped>>
    BY <1>3 DEF SignsIn, TypeOK, Alive, Issued
  <2>2. Chain(r) \subseteq Issued
    BY <2>1, ChainIsIssued
  <2> QED
    BY <2>1, <2>2, ChainUnlessRotated DEF ReplayEndsChain
<1>4. ASSUME NEW c \in Calls, NEW x \in Sessions, NEW t \in Sessions, Rotates(c, x, t)
      PROVE  ReplayEndsChain'
  <2> SUFFICES ASSUME NEW r \in Sessions, reason'[r] = "replayed"
               PROVE  Chain(r)' \cap Alive' \subseteq escaped'
    BY DEF ReplayEndsChain, Chain
  <2>1. /\ reason[r] = "replayed" /\ r \in Issued /\ x \in Alive
        /\ Alive' = (Alive \ {x}) \cup {t}
        /\ escaped \subseteq escaped' /\ (x \in escaped => t \in escaped')
    BY <1>4 DEF Rotates, TypeOK, Alive, Issued
  <2>2. Chain(r)' \subseteq Chain(r) \cup {t} /\ (t \in Chain(r)' => x \in Chain(r))
    BY <1>4, <2>1, ChainOfRotation
  <2>3. Chain(r) \cap Alive \subseteq escaped
    BY <2>1 DEF ReplayEndsChain
  <2> QED
    BY <2>1, <2>2, <2>3
<1>5. ASSUME NEW c \in Calls, RevokePicked(c)
      PROVE  ReplayEndsChain'
  <2> SUFFICES ASSUME NEW r \in Sessions, reason'[r] = "replayed"
               PROVE  Chain(r)' \cap Alive' \subseteq escaped'
    BY DEF ReplayEndsChain, Chain
  <2>1. Alive' \subseteq Alive /\ UNCHANGED <<rotated, escaped>>
    BY <1>5 DEF RevokePicked, Alive, history
  <2>2. reason[r] = "replayed" \/ (in[c].op = "refresh" /\ r \in seen[c])
    BY <1>5 DEF RevokePicked
  <2>3. CASE in[c].op = "refresh" /\ r \in seen[c]
    <3>1. /\ seen[c] \subseteq Chain(in[c].s)
          /\ Chain(in[c].s) \cap Alive \subseteq seen[c] \cup escaped
      BY <1>5, <2>3 DEF RevokePicked, PickedInv, Knows
    <3>2. seen[c] \cap Alive' = {}
      BY <1>5, <2>3 DEF RevokePicked, Alive
    <3>3. Chain(r) \subseteq Chain(in[c].s)
      <4>1. in[c].s \in Sessions /\ rotated \in Links
        BY <1>5, <2>3, Fields, OpOfStep DEF RevokePicked, TypeOK, Links
      <4>2. Closed(rotated, Chain(in[c].s)) /\ Chain(in[c].s) \in SUBSET Sessions
        BY <4>1, ReachIsClosed, ChainIsReach
      <4> QED
        BY <2>3, <3>1, <4>2, ReachIsLeast, ChainIsReach
    <3> QED
      BY <2>1, <3>1, <3>2, <3>3, ChainUnlessRotated
  <2> QED
    BY <1>1, <2>1, <2>2, <2>3
<1> QED
  BY <1>2, <1>3, <1>4, <1>5, SessionSteps

----
(* The theorems *)

LEMMA InitOK == Init => IInv
<1> SUFFICES ASSUME Init
             PROVE  IInv
  OBVIOUS
<1>1. TypeOK
  <2>1. /\ reason \in [Sessions -> {"unissued", "alive", "rotated", "replayed", "logout", "device"}]
        /\ device \in [Sessions -> Devices] /\ rotated \in [Sessions -> Sessions \cup {None}]
        /\ age \in [Sessions -> 0..2] /\ known \subseteq Devices /\ gone \subseteq known
    BY FirstAndHome DEF Init
  <2>2. /\ pins \in 0..(MaxPins - 1) /\ codes \in [Challenges -> 0..MaxCodes]
        /\ signins \in [Challenges -> Nat]
    BY LimitsAreNatural DEF Init
  <2>3. locked \in BOOLEAN
    BY DEF Init
  <2> QED
    BY <2>1, <2>2, <2>3 DEF Init, TypeOK
<1>2. StepsInv
  BY StepsInit
<1>3. HoldingInv /\ LockInv /\ SpentInv /\ PickedInv
  BY DEF Init, HoldingInv, LockInv, LockedBy, SpentInv, PickedInv
<1>4. RotatedInv /\ RevokedDeviceStaysOut /\ ReplayEndsChain
  BY DEF Init, RotatedInv, RevokedDeviceStaysOut, ReplayEndsChain
<1> QED
  BY <1>1, <1>2, <1>3, <1>4 DEF IInv

LEMMA NextOK == IInv /\ [Next]_vars => IInv'
<1> SUFFICES ASSUME IInv, [Next]_vars
             PROVE  IInv'
  OBVIOUS
<1>1. TypeOK' /\ HoldingInv'
  BY TypeStep, HoldingStep DEF IInv, TypeOK
<1>2. StepsInv' /\ LockInv' /\ SpentInv'
  BY StepsStep, LockStep, SpentStep DEF IInv
<1>3. RotatedInv' /\ PickedInv'
  BY RotatedStep, PickedStep DEF IInv
<1>4. RevokedDeviceStaysOut' /\ ReplayEndsChain'
  BY RevokedStep, ReplayStep DEF IInv
<1> QED
  BY <1>1, <1>2, <1>3, <1>4 DEF IInv

\* Every reachable state satisfies the invariant.
THEOREM Invariance == Spec => []IInv
BY InitOK, NextOK, PTL DEF Spec

\* The rows of sessions, devices and codes keep their types, and whoever holds a row
\* lock has a transaction open (store.go: every lock is taken FOR UPDATE or by an UPDATE
\* inside one).
THEOREM TypeCorrect == Spec => []TypeOK
<1>1. IInv => TypeOK
  BY DEF IInv
<1> QED
  BY <1>1, Invariance, PTL

\* A device that was revoked keeps no session alive but those of sign-ins that had read
\* it before: the revocation's lock on the device keeps refreshes away, and what it
\* picks is all there is.
THEOREM RevokedDevices == Spec => []RevokedDeviceStaysOut
<1>1. IInv => RevokedDeviceStaysOut
  BY DEF IInv
<1> QED
  BY <1>1, Invariance, PTL

\* A refresh token that comes back ends everything that descends from it, except what a
\* refresh issued while the replay was waiting for its rows.
THEOREM Replays == Spec => []ReplayEndsChain
<1>1. IInv => ReplayEndsChain
  BY DEF IInv
<1> QED
  BY <1>1, Invariance, PTL

\* A one-time code signs in once, however many sign-ins race with it, and is guessed
\* MaxCodes times at most.
THEOREM CodesSignInOnce == Spec => []OneSignInPerChallenge
<1>1. IInv => OneSignInPerChallenge
  <2> SUFFICES ASSUME IInv, NEW ch \in Challenges
               PROVE  signins[ch] <= 1 /\ codes[ch] <= MaxCodes
    BY DEF OneSignInPerChallenge
  <2>1. signins[ch] \in {0, 1}
    BY DEF IInv, SpentInv
  <2>2. codes[ch] \in 0..MaxCodes
    BY DEF IInv, TypeOK
  <2> QED
    BY <2>1, <2>2, LimitsAreNatural
<1> QED
  BY <1>1, Invariance, PTL
----
(* What operators may do to an account, and who may use which key *)

\* The statements of each kind of request.
Suits(p, l) ==
    /\ l.op = "block" => p \in {"insert", "mark", "flag", "log", "done"}
    /\ l.op = "unblock" => p \in {"lift", "mark", "flag", "log", "done"}
    /\ l.op = "pay" => p \in {"get", "rows", "put", "done"}
    /\ l.op = "transfer" => p \in {"status", "get", "rows", "put", "done"}
    /\ l.op = "submit" => p \in {"tier", "count", "submit", "done"}
    /\ l.op = "review" => p \in {"pick", "decide", "log", "done"}
    /\ l.op = "create" => p \in {"key", "create", "log", "done"}
    /\ l.op = "hire" => p \in {"key", "hire", "done"}
    /\ l.op = "revoke" => p \in {"key", "revoke", "log", "done"}

Statements ==
    {"insert", "lift", "mark", "flag", "log", "status", "get", "rows", "put", "tier", "count", "submit",
     "pick", "decide", "key", "create", "hire", "revoke", "done"}

\* A request takes the steps of what it is about.
RequestInv ==
    /\ at \in [Requests -> Statements \cup {"new"}]
    /\ what \in [Requests -> Actions \cup {[op |-> "none"]}]
    /\ \A c \in Requests : at[c] # "new" => what[c] \in Actions /\ Suits(at[c], what[c])

\* The rows, and what a request has read of them.
RowsInv ==
    /\ read \in [Requests -> Requests \cup {"none", "clear", "set"}]
    /\ subs \in [Requests -> {"none", "pending", "approved", "rejected", "resubmit", "escalated"}]
    /\ answer \in [Requests -> {"none", "ok", "refused", "error"}]
    /\ shut \in [Requests -> SUBSET (flagged \cup Grants)]
    /\ standing \in {"active", "blocked"} /\ flag \in {"absent", "clear", "set"}
    /\ tier \in {"unverified", "verified"}
    /\ open \subseteq changed /\ flagged \subseteq changed /\ changed \subseteq Requests
    /\ \A c \in Requests :
          /\ at[c] = "put" => read[c] \in {"clear", "set"}
          /\ at[c] = "decide" => read[c] \in Requests /\ subs[read[c]] # "none"

\* A change is made once, and no request that has made one comes in again.
ProgressInv ==
    \A c \in Requests :
        /\ c \in changed => at[c] \in {"mark", "flag", "log", "done"} /\ what[c].op \notin {"pay", "transfer"}
        /\ at[c] \in {"mark", "flag", "log"} => c \in changed
        /\ at[c] \notin {"new", "done"} => answer[c] = "none"

\* Until changes overlap, the last one decides what the rows say.
StandingInv ==
    ~torn => /\ \A c, d \in UnderWay : c = d
             /\ \A c \in UnderWay : what[c].op = "block" <=> open # {}
             /\ UnderWay = {} => (standing = "blocked" <=> open # {})

\* A flag that says clear says so of the blocks that have set it, and so does a request
\* about to write it of the blocks it must know.
FlagInv ==
    /\ flag = "clear" => (open \cap flagged) \subseteq overwritten
    /\ \A c \in Requests : at[c] = "put" /\ read[c] = "clear" => shut[c] \cap open = {}
    /\ slipped = {}

\* What a call that nobody has disturbed has read still holds.
SubmissionInv ==
    ~outdated =>
        /\ \A s, t \in Pending : s = t
        /\ tier = "verified" => Pending = {}
        /\ \A c \in Requests \ disturbed :
              /\ at[c] \in {"count", "submit"} => tier = "unverified"
              /\ at[c] = "submit" => Pending = {}
              /\ at[c] = "decide" => subs[read[c]] = "pending"

\* A key that was revoked when the request came has not come back.
KeyInv ==
    \A c \in Requests :
        /\ shut[c] \cap Grants \cap live = {}
        /\ at[c] \in {"create", "hire", "revoke"} => what[c].key \notin shut[c]

AccountInv ==
    /\ RequestInv /\ RowsInv /\ ProgressInv /\ StandingInv /\ FlagInv /\ SubmissionInv /\ KeyInv
    /\ LogIsTrue

LEMMA ActionFields ==
    ASSUME NEW l \in Actions
    PROVE  /\ l.op \in {"block", "unblock", "pay", "transfer", "submit", "review", "create", "hire", "revoke"}
           /\ l.op = "review" => l.verdict \in {"approved", "rejected", "resubmit", "escalated"}
           /\ l.op \in {"create", "hire", "revoke"} => l.key \in Keys \cup {"none"}
           /\ l.op = "revoke" => l.g \in Grants
BY ActionsAreActions

\* What a request is about, by its statement.
LEMMA ActionOfStatement ==
    ASSUME RequestInv, NEW c \in Requests, at[c] # "new"
    PROVE  /\ what[c] \in Actions
           /\ at[c] = "insert" => what[c].op = "block"
           /\ at[c] = "lift" => what[c].op = "unblock"
           /\ at[c] \in {"mark", "flag"} => what[c].op \in {"block", "unblock"}
           /\ at[c] \in {"get", "rows", "put"} => what[c].op \in {"pay", "transfer"}
           /\ at[c] = "status" => what[c].op = "transfer"
           /\ at[c] \in {"tier", "count", "submit"} => what[c].op = "submit"
           /\ at[c] \in {"pick", "decide"} => what[c].op = "review"
           /\ at[c] = "key" => what[c].op \in {"create", "hire", "revoke"}
           /\ at[c] = "create" => what[c].op = "create"
           /\ at[c] = "hire" => what[c].op = "hire"
           /\ at[c] = "revoke" => what[c].op = "revoke"
           /\ at[c] = "log" => what[c].op \notin {"pay", "transfer", "submit", "hire"}
BY ActionFields DEF RequestInv, Suits

LEMMA FirstStatements ==
    /\ FirstStep["block"] = "insert" /\ FirstStep["unblock"] = "lift" /\ FirstStep["pay"] = "get"
    /\ FirstStep["transfer"] = "status" /\ FirstStep["submit"] = "tier" /\ FirstStep["review"] = "pick"
    /\ FirstStep["create"] = "key" /\ FirstStep["hire"] = "key" /\ FirstStep["revoke"] = "key"
BY DEF FirstStep

\* A request comes in with nothing done: it is a new one, or a payment made again.
ComesIn(c, l) ==
    /\ l \in Actions /\ (at[c] = "new" \/ (l.op = "pay" /\ what[c] = l))
    /\ what' = [what EXCEPT ![c] = l]
    /\ at' = [at EXCEPT ![c] = FirstStep[l.op]]
    /\ FirstStep[l.op] \in {"insert", "lift", "get", "status", "tier", "pick", "key"}
    /\ Suits(FirstStep[l.op], l)
    /\ shut' = [shut EXCEPT ![c] = (open \cap flagged) \cup (Grants \ live)]
    /\ answer' = [answer EXCEPT ![c] = "none"]
    /\ UNCHANGED <<open, standing, flag, tier, subs, live, log, read, changed, flagged, overwritten, slipped,
                   torn, disturbed, outdated>>

LEMMA BeginEffect ==
    ASSUME NEW c \in Requests, Arrive(c)
    PROVE  \E l \in Actions : ComesIn(c, l)
<1>1. PICK l \in Actions :
        /\ at[c] = "new" \/ (l.op = "pay" /\ what[c] = l)
        /\ what' = [what EXCEPT ![c] = l] /\ at' = [at EXCEPT ![c] = FirstStep[l.op]]
  BY DEF Arrive, GoOn
<1>2. /\ FirstStep[l.op] \in {"insert", "lift", "get", "status", "tier", "pick", "key"}
      /\ Suits(FirstStep[l.op], l)
  BY ActionFields, FirstStatements DEF Suits
<1>3. ComesIn(c, l)
  BY <1>1, <1>2 DEF ComesIn, Arrive, blockVars, kycVars, kycNotes
<1> QED
  BY <1>3

\* Any other step: the request goes on, and the others are left alone.
GoesOn(c) ==
    /\ at[c] \notin {"new", "done"} /\ what' = what
    /\ at'[c] \in Statements /\ Suits(at'[c], what[c])
    /\ at' = [at EXCEPT ![c] = at'[c]]
    /\ shut' = shut
    /\ changed \subseteq changed' /\ changed' \subseteq changed \cup {c}
    /\ \/ answer' = answer
       \/ at'[c] = "done" /\ \E x \in {"ok", "refused", "error"} : answer' = [answer EXCEPT ![c] = x]

LEMMA OtherStepsGoOn ==
    ASSUME RequestInv, NEW c \in Requests, RequestStep(c), ~Arrive(c)
    PROVE  GoesOn(c)
<1> USE ActionOfStatement, ActionFields
    DEF GoesOn, Suits, Statements, RequestInv, GoOn, Reply, blockNotes, requestVars
<1>1. CASE InsertBlock(c)
  BY <1>1 DEF InsertBlock
<1>2. CASE LiftBlocks(c)
  BY <1>2 DEF LiftBlocks
<1>3. CASE MarkUser(c)
  BY <1>3 DEF MarkUser
<1>4. CASE WriteFlag(c)
  BY <1>4 DEF WriteFlag
<1>5. CASE Record(c)
  BY <1>5 DEF Record
<1>6. CASE ReadStatus(c)
  BY <1>6 DEF ReadStatus
<1>7. CASE GetFlag(c)
  BY <1>7 DEF GetFlag, Passes
<1>8. CASE ReadBlocks(c)
  BY <1>8 DEF ReadBlocks
<1>9. CASE PutFlag(c)
  BY <1>9 DEF PutFlag, Passes
<1>10. CASE ReadTier(c)
  BY <1>10 DEF ReadTier
<1>11. CASE CountPending(c)
  BY <1>11 DEF CountPending
<1>12. CASE InsertSubmission(c)
  BY <1>12 DEF InsertSubmission
<1>13. CASE PickSubmission(c)
  BY <1>13 DEF PickSubmission
<1>14. CASE Decide(c)
  BY <1>14 DEF Decide
<1>15. CASE UseKey(c)
  BY <1>15 DEF UseKey
<1>16. CASE CreateKey(c)
  BY <1>16 DEF CreateKey
<1>17. CASE AddStaff(c)
  BY <1>17 DEF AddStaff
<1>18. CASE RevokeKey(c)
  BY <1>18 DEF RevokeKey, Revoke
<1>19. CASE RevokeStaff(c)
  BY <1>19 DEF RevokeStaff, Revoke
<1>20. CASE Fail(c)
  BY <1>20 DEF Fail
<1> QED
  BY <1>1, <1>2, <1>3, <1>4, <1>5, <1>6, <1>7, <1>8, <1>9, <1>10, <1>11, <1>12, <1>13, <1>14, <1>15,
     <1>16, <1>17, <1>18, <1>19, <1>20 DEF RequestStep

LEMMA RequestKeeps ==
    ASSUME RequestInv, NEW c \in Requests, RequestStep(c)
    PROVE  RequestInv'
<1>1. CASE Arrive(c)
  <2>1. PICK l \in Actions : ComesIn(c, l)
    BY <1>1, BeginEffect
  <2> QED
    BY <2>1 DEF ComesIn, RequestInv, Statements
<1>2. CASE ~Arrive(c)
  BY <1>2, OtherStepsGoOn DEF GoesOn, RequestInv
<1> QED
  BY <1>1, <1>2

----
(* Who writes what *)

LEMMA WhoWritesBlocks ==
    ASSUME NEW c \in Requests, RequestStep(c)
    PROVE  \/ UNCHANGED <<open, standing, flag, flagged, overwritten, slipped, torn>>
           \/ InsertBlock(c) \/ LiftBlocks(c) \/ MarkUser(c) \/ WriteFlag(c)
           \/ GetFlag(c) \/ PutFlag(c) \/ Fail(c)
BY DEF RequestStep, Arrive, Record, ReadStatus, ReadBlocks, ReadTier, CountPending,
   InsertSubmission, PickSubmission, Decide, UseKey, CreateKey, AddStaff, RevokeKey,
   RevokeStaff, Revoke, blockVars, kycVars, requestVars, blockNotes, kycNotes

LEMMA WhoWritesSubmissions ==
    ASSUME NEW c \in Requests, RequestStep(c)
    PROVE  UNCHANGED <<tier, subs, disturbed, outdated>> \/ InsertSubmission(c) \/ Decide(c)
BY DEF RequestStep, Arrive, InsertBlock, LiftBlocks, MarkUser, WriteFlag, Record, ReadStatus,
   GetFlag, ReadBlocks, PutFlag, ReadTier, CountPending, PickSubmission, UseKey, CreateKey,
   AddStaff, RevokeKey, RevokeStaff, Fail, Revoke, blockVars, kycVars, requestVars,
   blockNotes, kycNotes

LEMMA WhoWritesKeys ==
    ASSUME NEW c \in Requests, RequestStep(c)
    PROVE  live' = live \/ CreateKey(c) \/ AddStaff(c) \/ RevokeKey(c) \/ RevokeStaff(c)
BY DEF RequestStep, Arrive, InsertBlock, LiftBlocks, MarkUser, WriteFlag, Record, ReadStatus,
   GetFlag, ReadBlocks, PutFlag, ReadTier, CountPending, InsertSubmission, PickSubmission,
   Decide, UseKey, Fail, blockVars, kycVars, requestVars, blockNotes, kycNotes

LEMMA WhoReads ==
    ASSUME NEW c \in Requests, RequestStep(c)
    PROVE  read' = read \/ ReadBlocks(c) \/ PickSubmission(c)
BY DEF RequestStep, Arrive, InsertBlock, LiftBlocks, MarkUser, WriteFlag, Record, ReadStatus,
   GetFlag, PutFlag, ReadTier, CountPending, InsertSubmission, Decide, UseKey, CreateKey,
   AddStaff, RevokeKey, RevokeStaff, Fail, Revoke, blockVars, kycVars, requestVars,
   blockNotes, kycNotes

LEMMA WhoLogs ==
    ASSUME NEW c \in Requests, RequestStep(c)
    PROVE  log' = log \/ Record(c)
BY DEF RequestStep, Arrive, InsertBlock, LiftBlocks, MarkUser, WriteFlag, ReadStatus, GetFlag,
   ReadBlocks, PutFlag, ReadTier, CountPending, InsertSubmission, PickSubmission, Decide,
   UseKey, CreateKey, AddStaff, RevokeKey, RevokeStaff, Fail, Revoke, blockVars, kycVars,
   requestVars, blockNotes, kycNotes

LEMMA ExpiryEffect ==
    ASSUME FlagExpires \/ UNCHANGED accountVars
    PROVE  /\ UNCHANGED <<open, standing, tier, subs, live, log, at, what, read, answer, changed,
                          flagged, shut, overwritten, slipped, torn, disturbed, outdated>>
           /\ flag' \in {flag, "absent"}
BY DEF FlagExpires, accountVars, blockVars, kycVars, requestVars, blockNotes, kycNotes

\* A change is made at its statement, and the answer given at the end.
LEMMA ProgressStep ==
    ASSUME RequestInv, RowsInv, ProgressInv, NEW c \in Requests, RequestStep(c)
    PROVE  ProgressInv'
<1>1. CASE Arrive(c)
  <2>1. PICK l \in Actions : ComesIn(c, l)
    BY <1>1, BeginEffect
  <2>2. c \notin changed
    BY <2>1 DEF ComesIn, ProgressInv
  <2> QED
    BY <2>1, <2>2 DEF ComesIn, ProgressInv, RequestInv, RowsInv
<1>2. ASSUME ~Arrive(c)
      PROVE  /\ c \in changed' => at'[c] \in {"mark", "flag", "log", "done"} /\ what'[c].op \notin {"pay", "transfer"}
             /\ at'[c] \in {"mark", "flag", "log"} => c \in changed'
             /\ at'[c] \notin {"new", "done"} => answer'[c] = "none"
  <2> USE ActionOfStatement DEF ProgressInv, RequestInv, RowsInv, GoOn, Reply, requestVars
  <2>1. CASE InsertBlock(c)
    BY <2>1 DEF InsertBlock
  <2>2. CASE LiftBlocks(c)
    BY <2>2 DEF LiftBlocks
  <2>3. CASE MarkUser(c)
    BY <2>3 DEF MarkUser
  <2>4. CASE WriteFlag(c)
    BY <2>4 DEF WriteFlag
  <2>5. CASE Record(c)
    BY <2>5 DEF Record
  <2>6. CASE ReadStatus(c)
    BY <2>6 DEF ReadStatus
  <2>7. CASE GetFlag(c)
    BY <2>7 DEF GetFlag, Passes
  <2>8. CASE ReadBlocks(c)
    BY <2>8 DEF ReadBlocks
  <2>9. CASE PutFlag(c)
    BY <2>9 DEF PutFlag, Passes
  <2>10. CASE ReadTier(c)
    BY <2>10 DEF ReadTier
  <2>11. CASE CountPending(c)
    BY <2>11 DEF CountPending
  <2>12. CASE InsertSubmission(c)
    BY <2>12 DEF InsertSubmission
  <2>13. CASE PickSubmission(c)
    BY <2>13 DEF PickSubmission
  <2>14. CASE Decide(c)
    BY <2>14 DEF Decide
  <2>15. CASE UseKey(c)
    BY <2>15 DEF UseKey
  <2>16. CASE CreateKey(c)
    BY <2>16 DEF CreateKey
  <2>17. CASE AddStaff(c)
    BY <2>17 DEF AddStaff
  <2>18. CASE RevokeKey(c)
    BY <2>18 DEF RevokeKey, Revoke
  <2>19. CASE RevokeStaff(c)
    BY <2>19 DEF RevokeStaff, Revoke
  <2>20. CASE Fail(c)
    BY <2>20 DEF Fail
  <2> QED
    BY <1>2, <2>1, <2>2, <2>3, <2>4, <2>5, <2>6, <2>7, <2>8, <2>9, <2>10, <2>11, <2>12, <2>13, <2>14,
       <2>15, <2>16, <2>17, <2>18, <2>19, <2>20 DEF RequestStep
<1>3. CASE ~Arrive(c)
  <2>1. GoesOn(c)
    BY <1>3, OtherStepsGoOn
  <2> QED
    BY <1>2, <1>3, <2>1 DEF GoesOn, ProgressInv, RequestInv, RowsInv
<1> QED
  BY <1>1, <1>3

LEMMA RowsStep ==
    ASSUME RequestInv, RowsInv, ProgressInv, NEW c \in Requests, RequestStep(c)
    PROVE  RowsInv'
<1>1. /\ shut' \in [Requests -> SUBSET (flagged' \cup Grants)]
      /\ answer' \in [Requests -> {"none", "ok", "refused", "error"}]
      /\ changed \subseteq changed' /\ changed' \subseteq Requests
      /\ flagged \subseteq flagged'
  <2>1. flagged \subseteq flagged'
    BY WhoWritesBlocks DEF InsertBlock, LiftBlocks, MarkUser, WriteFlag, GetFlag, PutFlag, Fail,
       blockNotes
  <2>2. CASE Arrive(c)
    <3>1. PICK l \in Actions : ComesIn(c, l)
      BY <2>2, BeginEffect
    <3> QED
      BY <2>1, <3>1 DEF ComesIn, RowsInv
  <2>3. CASE ~Arrive(c)
    BY <2>1, <2>3, OtherStepsGoOn DEF GoesOn, RowsInv
  <2> QED
    BY <2>1, <2>2, <2>3
<1>2. /\ standing' \in {"active", "blocked"} /\ flag' \in {"absent", "clear", "set"}
      /\ open' \subseteq changed' /\ flagged' \subseteq changed'
  <2>1. CASE InsertBlock(c)
    BY <1>1, <2>1 DEF InsertBlock, RowsInv
  <2>2. CASE LiftBlocks(c)
    BY <1>1, <2>2 DEF LiftBlocks, RowsInv
  <2>3. CASE MarkUser(c)
    BY <1>1, <2>3 DEF MarkUser, blockNotes, RowsInv
  <2>4. CASE WriteFlag(c)
    BY <1>1, <2>4 DEF WriteFlag, NewFlag, RowsInv, ProgressInv
  <2>5. CASE GetFlag(c)
    BY <1>1, <2>5 DEF GetFlag, blockVars, RowsInv
  <2>6. CASE PutFlag(c)
    BY <1>1, <2>6 DEF PutFlag, RowsInv
  <2>7. CASE Fail(c)
    BY <1>1, <2>7 DEF Fail, blockVars, RowsInv
  <2> QED
    BY <1>1, <2>1, <2>2, <2>3, <2>4, <2>5, <2>6, <2>7, WhoWritesBlocks DEF RowsInv
<1>3. /\ subs' \in [Requests -> {"none", "pending", "approved", "rejected", "resubmit", "escalated"}]
      /\ tier' \in {"unverified", "verified"}
      /\ \A s \in Requests : subs[s] # "none" => subs'[s] # "none"
  <2>1. CASE InsertSubmission(c)
    BY <2>1 DEF InsertSubmission, RowsInv
  <2>2. CASE Decide(c)
    <3>1. what[c].verdict \in {"approved", "rejected", "resubmit", "escalated"}
      BY <2>2, ActionOfStatement, ActionFields DEF Decide
    <3> QED
      BY <2>2, <3>1 DEF Decide, RowsInv
  <2> QED
    BY <2>1, <2>2, WhoWritesSubmissions DEF RowsInv
<1>4. /\ read' \in [Requests -> Requests \cup {"none", "clear", "set"}]
      /\ \A d \in Requests \ {c} : read'[d] = read[d] /\ at'[d] = at[d]
  <2>1. \A d \in Requests \ {c} : at'[d] = at[d]
    BY BeginEffect, OtherStepsGoOn DEF ComesIn, GoesOn, RequestInv
  <2> QED
    BY <2>1, WhoReads DEF ReadBlocks, PickSubmission, See, RowsInv
<1>5. /\ at'[c] = "put" => read'[c] \in {"clear", "set"}
      /\ at'[c] = "decide" => read'[c] \in Requests /\ subs'[read'[c]] # "none"
  <2>1. CASE ReadBlocks(c)
    BY <2>1 DEF ReadBlocks, See, GoOn, RequestInv, RowsInv
  <2>2. CASE PickSubmission(c)
    <3>1. PICK s \in Requests : /\ subs[s] # "none"
                                /\ \/ read' = [read EXCEPT ![c] = s] /\ at' = [at EXCEPT ![c] = "decide"]
                                   \/ at' = [at EXCEPT ![c] = "done"]
      BY <2>2 DEF PickSubmission, See, GoOn, Reply
    <3> QED
      BY <1>3, <3>1 DEF RequestInv, RowsInv
  <2>3. at'[c] \in {"put", "decide"} => ReadBlocks(c) \/ PickSubmission(c)
    <3>1. CASE Arrive(c)
      BY <3>1, BeginEffect DEF ComesIn, RequestInv
    <3>2. CASE ~Arrive(c)
      BY <3>2, ActionOfStatement DEF RequestStep, InsertBlock, LiftBlocks, MarkUser, WriteFlag, Record,
         ReadStatus, GetFlag, PutFlag, ReadTier, CountPending, InsertSubmission, Decide, UseKey,
         CreateKey, AddStaff, RevokeKey, RevokeStaff, Fail, Passes, Revoke, Reply, GoOn, RequestInv
    <3> QED
      BY <3>1, <3>2
  <2> QED
    BY <2>1, <2>2, <2>3
<1> QED
  BY <1>1, <1>2, <1>3, <1>4, <1>5 DEF RowsInv

----
(* What holds of the rows *)

LEMMA StandingStep ==
    ASSUME RequestInv, RowsInv, StandingInv, NEW c \in Requests, RequestStep(c)
    PROVE  StandingInv'
<1>1. UnderWay \subseteq Requests /\ \A d \in Requests : d \in UnderWay <=> at[d] = "mark"
  BY DEF UnderWay
<1>2. UnderWay' \subseteq Requests /\ \A d \in Requests : d \in UnderWay' <=> at'[d] = "mark"
  BY DEF UnderWay
<1>3. CASE InsertBlock(c)
  <2>1. /\ what[c].op = "block" /\ what' = what /\ open' = open \cup {c}
        /\ at' = [at EXCEPT ![c] = "mark"] /\ torn' = (torn \/ UnderWay # {})
    BY <1>3, ActionOfStatement DEF InsertBlock, GoOn
  <2> QED
    BY <1>1, <1>2, <2>1 DEF StandingInv, RequestInv
<1>4. CASE LiftBlocks(c)
  <2>1. CASE open = {}
    <3>1. at' = [at EXCEPT ![c] = "done"] /\ at[c] = "lift"
          /\ UNCHANGED <<open, standing, torn, what>>
      BY <1>4, <2>1 DEF LiftBlocks, Reply, GoOn
    <3>2. UnderWay' = UnderWay
      BY <1>1, <1>2, <3>1 DEF RequestInv
    <3> QED
      BY <3>1, <3>2 DEF StandingInv
  <2>2. CASE open # {}
    <3>1. /\ what[c].op = "unblock" /\ what' = what /\ open' = {}
          /\ at' = [at EXCEPT ![c] = "mark"] /\ torn' = (torn \/ UnderWay # {})
      BY <1>4, <2>2, ActionOfStatement DEF LiftBlocks, Lifted, GoOn
    <3>2. UnderWay' = UnderWay \cup {c}
      BY <1>1, <1>2, <3>1 DEF RequestInv
    <3> QED
      BY <3>1, <3>2 DEF StandingInv
  <2> QED
    BY <2>1, <2>2
<1>5. CASE MarkUser(c)
  <2>1. /\ at[c] = "mark" /\ at' = [at EXCEPT ![c] = "flag"] /\ what' = what /\ open' = open /\ torn' = torn
        /\ standing' = IF what[c].op = "block" THEN "blocked" ELSE "active"
    BY <1>5 DEF MarkUser, GoOn, blockNotes
  <2> QED
    BY <1>1, <1>2, <2>1 DEF StandingInv, RequestInv
<1>6. CASE Fail(c) /\ at[c] = "mark"
  BY <1>6 DEF Fail, StandingInv
<1>7. CASE ~InsertBlock(c) /\ ~LiftBlocks(c) /\ ~MarkUser(c) /\ ~(Fail(c) /\ at[c] = "mark")
  <2>1. UNCHANGED <<open, standing>> /\ (torn' <=> torn)
    <3>1. CASE Fail(c)
      BY <1>7, <3>1 DEF Fail, blockVars
    <3>2. CASE ~Fail(c)
      BY <1>7, <3>2, WhoWritesBlocks DEF WriteFlag, GetFlag, PutFlag, blockVars
    <3> QED
      BY <3>1, <3>2
  <2>2. at[c] # "mark"
    BY <1>7 DEF RequestStep, Arrive, WriteFlag, Record, ReadStatus, GetFlag, ReadBlocks, PutFlag,
       ReadTier,
       CountPending, InsertSubmission, PickSubmission, Decide, UseKey, CreateKey, AddStaff,
       RevokeKey, RevokeStaff
  <2>3. at'[c] # "mark"
    <3>1. CASE Arrive(c)
      BY <3>1, BeginEffect DEF ComesIn, RequestInv
    <3>2. CASE ~Arrive(c)
      BY <1>7, <3>2, ActionOfStatement DEF RequestStep, WriteFlag, Record, ReadStatus, GetFlag,
         ReadBlocks, PutFlag, ReadTier,
         CountPending, InsertSubmission, PickSubmission, Decide, UseKey, CreateKey, AddStaff,
         RevokeKey, RevokeStaff, Fail, Passes, Revoke, Reply, GoOn, RequestInv,
         ActionOfStatement
    <3> QED
      BY <3>1, <3>2
  <2>4. \A d \in Requests \ {c} : at'[d] = at[d] /\ what'[d] = what[d]
    BY BeginEffect, OtherStepsGoOn DEF ComesIn, GoesOn, RequestInv
  <2>5. UnderWay' = UnderWay /\ \A d \in UnderWay : what'[d] = what[d]
    BY <1>1, <1>2, <2>2, <2>3, <2>4
  <2> QED
    BY <2>1, <2>5 DEF StandingInv
<1> QED
  BY <1>3, <1>4, <1>5, <1>6, <1>7

\* A request that passes does not pass a block it must know.
LEMMA PassesKnowing ==
    ASSUME NEW c \in Requests, NEW blocked \in BOOLEAN, Passes(c, blocked), slipped = {},
           blocked \/ (shut[c] \cap open) \subseteq overwritten
    PROVE  slipped' = {}
BY DEF Passes

LEMMA FlagStep ==
    ASSUME RequestInv, RowsInv, ProgressInv, FlagInv,
           NEW c \in Requests, RequestStep(c)
    PROVE  FlagInv'
<1>1. open \subseteq Requests /\ Grants \cap Requests = {}
  BY NamesDiffer DEF RowsInv
<1>2. CASE InsertBlock(c)
  <2>1. c \notin changed
    BY <1>2 DEF InsertBlock, ProgressInv
  <2>2. c \notin flagged /\ \A d \in Requests : c \notin shut[d]
    BY <1>1, <2>1 DEF RowsInv
  <2>3. open' = open \cup {c} /\ UNCHANGED <<flag, flagged, overwritten, shut, read, slipped>>
    BY <1>2 DEF InsertBlock
  <2>4. \A d \in Requests : at'[d] = "put" => at[d] = "put"
    BY <1>2 DEF InsertBlock, GoOn, RequestInv
  <2> QED
    BY <2>2, <2>3, <2>4 DEF FlagInv
<1>3. CASE LiftBlocks(c)
  <2>1. open' \subseteq open /\ UNCHANGED <<flag, flagged, overwritten, shut, read, slipped>>
    BY <1>3 DEF LiftBlocks
  <2>2. \A d \in Requests : at'[d] = "put" => at[d] = "put"
    BY <1>3 DEF LiftBlocks, GoOn, Reply, RequestInv
  <2> QED
    BY <2>1, <2>2 DEF FlagInv
<1>4. CASE WriteFlag(c)
  <2>1. flag' # "clear" /\ UNCHANGED <<open, shut, read, slipped>>
    BY <1>4 DEF WriteFlag, NewFlag
  <2>2. \A d \in Requests : at'[d] = "put" => at[d] = "put"
    BY <1>4 DEF WriteFlag, GoOn, RequestInv
  <2> QED
    BY <2>1, <2>2 DEF FlagInv
<1>5. CASE GetFlag(c)
  <2>1. UNCHANGED <<open, flag, flagged, overwritten, shut, read>>
    BY <1>5 DEF GetFlag, blockVars
  <2>2. \A d \in Requests : at'[d] = "put" => at[d] = "put"
    BY <1>5 DEF GetFlag, Passes, GoOn, Reply, RequestInv
  <2>3. CASE flag = "absent"
    BY <1>5, <2>1, <2>2, <2>3 DEF GetFlag, FlagInv
  <2>4. CASE flag # "absent"
    <3>1. Passes(c, flag = "set")
      BY <1>5, <2>4 DEF GetFlag
    <3>2. flag = "clear" => (shut[c] \cap open) \subseteq overwritten
      BY <1>1 DEF RowsInv, FlagInv
    <3>3. flag # "set" => (shut[c] \cap open) \subseteq overwritten
      BY <2>4, <3>2 DEF RowsInv
    <3>4. slipped' = {}
      BY <3>1, <3>3, PassesKnowing DEF FlagInv
    <3> QED
      BY <2>1, <2>2, <3>4 DEF FlagInv
  <2> QED
    BY <2>3, <2>4
<1>6. CASE PutFlag(c)
  <2>1. /\ UNCHANGED <<open, flagged, shut, read>>
        /\ overwritten \subseteq overwritten'
        /\ \/ flag' = flag /\ overwritten' = overwritten
           \/ flag' = read[c] /\ (read[c] = "clear" => open \subseteq overwritten')
    BY <1>6 DEF PutFlag
  <2>2. \A d \in Requests : at'[d] = "put" => at[d] = "put"
    BY <1>6 DEF PutFlag, Passes, GoOn, Reply, RequestInv
  <2>3. slipped' = {}
    <3>1. Passes(c, read[c] = "set") /\ read[c] \in {"clear", "set"}
      BY <1>6 DEF PutFlag, RowsInv
    <3>2. read[c] = "clear" => (shut[c] \cap open) \subseteq overwritten
      BY <1>6 DEF PutFlag, FlagInv
    <3> QED
      BY <3>1, <3>2, PassesKnowing DEF FlagInv
  <2> QED
    BY <2>1, <2>2, <2>3 DEF FlagInv
<1>7. CASE ReadBlocks(c)
  <2>1. /\ read' = [read EXCEPT ![c] = IF open = {} THEN "clear" ELSE "set"]
        /\ at' = [at EXCEPT ![c] = "put"]
        /\ UNCHANGED <<open, flag, flagged, overwritten, shut, slipped>>
    BY <1>7 DEF ReadBlocks, See, GoOn, blockVars, blockNotes
  <2> QED
    BY <2>1 DEF FlagInv, RequestInv, RowsInv
<1>8. CASE Arrive(c)
  <2>1. PICK l \in Actions : ComesIn(c, l)
    BY <1>8, BeginEffect
  <2>2. \A d \in Requests : at'[d] = "put" => at[d] = "put" /\ shut'[d] = shut[d]
    BY <2>1 DEF ComesIn, RequestInv, RowsInv
  <2> QED
    BY <2>1, <2>2 DEF ComesIn, FlagInv
<1>9. CASE /\ ~InsertBlock(c) /\ ~LiftBlocks(c) /\ ~WriteFlag(c) /\ ~GetFlag(c) /\ ~PutFlag(c)
           /\ ~ReadBlocks(c) /\ ~Arrive(c)
  <2>1. UNCHANGED <<open, flag, flagged, overwritten, slipped>>
    BY <1>9, WhoWritesBlocks DEF MarkUser, Fail, blockVars, blockNotes
  <2>2. shut' = shut
    BY <1>9, OtherStepsGoOn DEF GoesOn
  <2>3. \A d \in Requests : at'[d] = "put" => at[d] = "put" /\ read'[d] = read[d]
    <3>1. \A d \in Requests \ {c} : at'[d] = at[d]
      BY <1>9, OtherStepsGoOn DEF GoesOn, RequestInv
    <3>2. \A d \in Requests \ {c} : read'[d] = read[d]
      BY <1>9, WhoReads DEF PickSubmission, See, RowsInv
    <3>3. at'[c] # "put"
      BY <1>9, ActionOfStatement DEF RequestStep, MarkUser, Record, ReadStatus, ReadTier,
         CountPending, InsertSubmission,
         PickSubmission, Decide, UseKey, CreateKey, AddStaff, RevokeKey, RevokeStaff, Fail,
         Revoke, Reply, GoOn, RequestInv
    <3> QED
      BY <3>1, <3>2, <3>3
  <2> QED
    BY <2>1, <2>2, <2>3 DEF FlagInv
<1> QED
  BY <1>2, <1>3, <1>4, <1>5, <1>6, <1>7, <1>8, <1>9

LEMMA SubmissionStep ==
    ASSUME RequestInv, RowsInv, SubmissionInv, NEW c \in Requests, RequestStep(c)
    PROVE  SubmissionInv'
<1>1. \A d \in Requests \ {c} : at'[d] = at[d] /\ read'[d] = read[d]
  <2>1. \A d \in Requests \ {c} : at'[d] = at[d]
    BY BeginEffect, OtherStepsGoOn DEF ComesIn, GoesOn, RequestInv
  <2> QED
    BY <2>1, WhoReads DEF ReadBlocks, PickSubmission, See, RowsInv
<1>2. CASE InsertSubmission(c)
  <2>1. /\ at[c] = "submit" /\ at' = [at EXCEPT ![c] = "done"] /\ UNCHANGED <<tier, read>>
        /\ subs' = [subs EXCEPT ![c] = "pending"]
        /\ disturbed' = disturbed \cup ({d \in Requests : at[d] = "submit"} \ {c})
        /\ (outdated' <=> outdated \/ c \in disturbed)
    BY <1>2 DEF InsertSubmission, Reply, GoOn
  <2> SUFFICES ASSUME ~outdated'
               PROVE  SubmissionInv'
    BY DEF SubmissionInv
  <2>2. /\ ~outdated /\ c \notin disturbed /\ Pending = {} /\ tier = "unverified"
    BY <2>1 DEF SubmissionInv
  <2>3. \A s \in Requests : subs'[s] = "pending" => s = c
    BY <2>1, <2>2 DEF Pending, RowsInv
  <2>4. /\ \A s, t \in Pending' : s = t
        /\ tier' = "unverified"
    BY <2>1, <2>2, <2>3 DEF Pending
  <2>5. ASSUME NEW d \in Requests \ disturbed'
        PROVE  /\ at'[d] # "submit"
               /\ at'[d] = "decide" => subs'[read'[d]] = "pending"
    <3>1. CASE d = c
      BY <2>1, <3>1 DEF RequestInv
    <3>2. CASE d # c
      <4>1. d \notin disturbed /\ at'[d] = at[d] /\ at[d] # "submit" /\ read'[d] = read[d]
        BY <1>1, <2>1, <2>5, <3>2
      <4>2. at[d] = "decide" => subs[read[d]] = "pending" /\ read[d] \in Requests
        BY <2>2, <4>1 DEF SubmissionInv, RowsInv
      <4> QED
        BY <2>1, <4>1, <4>2 DEF RowsInv
    <3> QED
      BY <3>1, <3>2
  <2> QED
    BY <2>4, <2>5 DEF SubmissionInv
<1>3. CASE Decide(c)
  <2>1. /\ at[c] = "decide" /\ at' = [at EXCEPT ![c] = "log"] /\ read' = read
        /\ subs' = [subs EXCEPT ![read[c]] = what[c].verdict]
        /\ disturbed' = disturbed \cup ({d \in Requests : at[d] \in {"count", "submit", "decide"}} \ {c})
        /\ (outdated' <=> outdated \/ c \in disturbed)
    BY <1>3 DEF Decide, GoOn
  <2> SUFFICES ASSUME ~outdated'
               PROVE  SubmissionInv'
    BY DEF SubmissionInv
  <2>2. ~outdated /\ c \notin disturbed /\ read[c] \in Requests /\ subs[read[c]] = "pending"
    BY <2>1 DEF SubmissionInv, RowsInv
  <2>3. what[c].verdict # "pending"
    BY <2>1, ActionOfStatement, ActionFields
  <2>4. Pending' = {}
    <3>1. \A s, t \in Pending : s = t
      BY <2>2 DEF SubmissionInv
    <3>2. \A s \in Requests : subs[s] = "pending" => s = read[c]
      BY <2>2, <3>1 DEF Pending
    <3>3. \A s \in Requests : subs'[s] # "pending"
      BY <2>1, <2>2, <2>3, <3>2 DEF RowsInv
    <3> QED
      BY <3>3 DEF Pending
  <2>5. ASSUME NEW d \in Requests \ disturbed'
        PROVE  at'[d] \notin {"count", "submit", "decide"}
    BY <1>1, <2>1, <2>5 DEF RequestInv
  <2> QED
    BY <2>4, <2>5 DEF SubmissionInv
<1>4. CASE UNCHANGED <<tier, subs, disturbed, outdated>>
  <2>1. Pending' = Pending
    BY <1>4 DEF Pending
  <2>2. ASSUME ~outdated, c \notin disturbed
        PROVE  /\ at'[c] \in {"count", "submit"} => tier = "unverified"
               /\ at'[c] = "submit" => Pending = {}
               /\ at'[c] = "decide" => subs[read'[c]] = "pending"
    <3>1. CASE ReadTier(c)
      BY <3>1 DEF ReadTier, GoOn, Reply, RequestInv, RowsInv
    <3>2. CASE CountPending(c)
      BY <2>2, <3>2 DEF CountPending, Waits, GoOn, Reply, RequestInv, SubmissionInv
    <3>3. CASE PickSubmission(c)
      BY <3>3 DEF PickSubmission, See, GoOn, Reply, RequestInv, RowsInv
    <3>4. CASE Arrive(c)
      BY <3>4, BeginEffect DEF ComesIn, RequestInv
    <3>5. CASE InsertSubmission(c) \/ Decide(c)
      BY <3>5 DEF InsertSubmission, Decide, GoOn, Reply, RequestInv
    <3>6. ASSUME ~ReadTier(c), ~CountPending(c), ~PickSubmission(c), ~Arrive(c), ~InsertSubmission(c), ~Decide(c)
          PROVE  at'[c] \notin {"count", "submit", "decide"}
      BY <3>6, ActionOfStatement DEF RequestStep, InsertBlock, LiftBlocks, MarkUser, WriteFlag,
         Record, ReadStatus,
         GetFlag, ReadBlocks, PutFlag, UseKey, CreateKey, AddStaff, RevokeKey, RevokeStaff, Fail,
         Passes, Revoke, Reply, GoOn, RequestInv
    <3> QED
      BY <3>1, <3>2, <3>3, <3>4, <3>5, <3>6
  <2> QED
    BY <1>1, <1>4, <2>1, <2>2 DEF SubmissionInv
<1> QED
  BY <1>2, <1>3, <1>4, WhoWritesSubmissions

LEMMA KeyStep ==
    ASSUME RequestInv, RowsInv, KeyInv, NEW c \in Requests, RequestStep(c)
    PROVE  KeyInv'
<1>1. live' \cap Grants \subseteq live
  BY WhoWritesKeys, NamesDiffer DEF CreateKey, AddStaff, RevokeKey, RevokeStaff, Revoke
<1>2. CASE Arrive(c)
  <2>1. PICK l \in Actions : ComesIn(c, l)
    BY <1>2, BeginEffect
  <2>2. /\ \A d \in Requests \ {c} : at'[d] = at[d] /\ what'[d] = what[d] /\ shut'[d] = shut[d]
        /\ at'[c] \notin {"create", "hire", "revoke"}
        /\ shut'[c] = (open \cap flagged) \cup (Grants \ live) /\ live' = live
    BY <2>1 DEF ComesIn, RequestInv, RowsInv
  <2>3. (open \cap flagged) \cap Grants = {}
    BY NamesDiffer DEF RowsInv
  <2> QED
    BY <2>2, <2>3 DEF KeyInv
<1>3. CASE ~Arrive(c)
  <2>1. GoesOn(c)
    BY <1>3, OtherStepsGoOn
  <2>2. at'[c] \in {"create", "hire", "revoke"} => what[c].key \notin shut[c]
    <3>1. CASE UseKey(c)
      <4>1. what[c] \in Actions /\ what[c].op \in {"create", "hire", "revoke"}
        BY <3>1, ActionOfStatement DEF UseKey
      <4>2. what[c].key \in Keys \cup {"none"}
        BY <4>1, ActionFields
      <4>3. at'[c] # "done" => what[c].key = "none" \/ what[c].key \in live
        BY <3>1 DEF UseKey, ValidKey, Reply, GoOn, RequestInv
      <4>4. "none" \notin shut[c]
        BY NamesDiffer DEF RowsInv
      <4>5. what[c].key \in live \cap Grants => what[c].key \notin shut[c]
        BY DEF KeyInv
      <4> QED
        BY <4>2, <4>3, <4>4, <4>5 DEF Grants
    <3>2. CASE ~UseKey(c)
      BY <1>3, <3>2, ActionOfStatement DEF RequestStep, InsertBlock, LiftBlocks, MarkUser, WriteFlag,
         Record, ReadStatus, GetFlag, ReadBlocks, PutFlag, ReadTier, CountPending,
         InsertSubmission, PickSubmission, Decide, CreateKey, AddStaff, RevokeKey, RevokeStaff,
         Fail, Passes, Revoke, Reply, GoOn, RequestInv
    <3> QED
      BY <3>1, <3>2
  <2>3. \A d \in Requests \ {c} : at'[d] = at[d]
    BY <2>1 DEF GoesOn, RequestInv
  <2>4. what' = what /\ shut' = shut
    BY <2>1 DEF GoesOn
  <2> QED
    BY <1>1, <2>2, <2>3, <2>4 DEF KeyInv
<1> QED
  BY <1>2, <1>3

LEMMA LogStep ==
    ASSUME RequestInv, RowsInv, ProgressInv, KeyInv, LogIsTrue, NEW c \in Requests, RequestStep(c)
    PROVE  LogIsTrue'
<1>1. CASE Arrive(c)
  <2>1. PICK l \in Actions : ComesIn(c, l)
    BY <1>1, BeginEffect
  <2>2. c \notin changed
    BY <2>1 DEF ComesIn, ProgressInv
  <2>3. \A d \in changed : answer'[d] = answer[d] /\ what'[d] = what[d] /\ shut'[d] = shut[d]
    BY <2>1, <2>2 DEF ComesIn, RequestInv, RowsInv
  <2>4. changed' = changed /\ log' = log
    BY <2>1 DEF ComesIn
  <2> QED
    BY <2>3, <2>4 DEF LogIsTrue
<1>2. CASE ~Arrive(c)
  <2>1. GoesOn(c)
    BY <1>2, OtherStepsGoOn
  <2>2. log' \subseteq changed' /\ log \subseteq log'
    <3>1. CASE Record(c)
      BY <3>1 DEF Record, Logged, ProgressInv, LogIsTrue
    <3> QED
      BY <2>1, <3>1, WhoLogs DEF GoesOn, LogIsTrue
  <2>3. \A d \in changed' \ {c} : d \in changed /\ answer'[d] = answer[d]
    BY <2>1 DEF GoesOn, RowsInv
  <2>4. c \in changed' /\ answer'[c] = "ok" /\ what[c].op \notin {"submit", "hire"} => c \in log'
    <3>1. CASE Record(c)
      BY <3>1 DEF Record, Logged
    <3>2. CASE InsertSubmission(c) \/ AddStaff(c)
      BY <3>2, ActionOfStatement DEF InsertSubmission, AddStaff
    <3>3. CASE GetFlag(c) \/ PutFlag(c)
      <4>1. what[c].op \in {"pay", "transfer"} /\ changed' = changed
        BY <3>3, ActionOfStatement DEF GetFlag, PutFlag
      <4> QED
        BY <4>1 DEF ProgressInv, RowsInv
    <3>4. ASSUME ~Record(c), ~InsertSubmission(c), ~AddStaff(c), ~GetFlag(c), ~PutFlag(c)
          PROVE  answer'[c] # "ok"
      <4>1. answer[c] = "none"
        BY <2>1 DEF GoesOn, ProgressInv
      <4> QED
        BY <1>2, <3>4, <4>1 DEF RequestStep, InsertBlock, LiftBlocks, MarkUser, WriteFlag,
           ReadStatus, ReadBlocks, ReadTier, CountPending,
           PickSubmission, Decide, UseKey, CreateKey, RevokeKey, RevokeStaff,
           Fail, Revoke, Reply, RowsInv
    <3> QED
      BY <3>1, <3>2, <3>3, <3>4
  <2>5. c \in changed' /\ what[c].op \in {"create", "hire", "revoke"} => what[c].key \notin shut[c]
    <3>1. CASE c \in changed
      BY <3>1 DEF LogIsTrue
    <3>2. CASE at[c] \in {"create", "hire", "revoke"}
      BY <3>2 DEF KeyInv
    <3>3. CASE c \notin changed /\ at[c] \notin {"create", "hire", "revoke"}
      <4>1. what[c].op \in {"create", "hire", "revoke"} => at[c] \in {"key", "log"}
        BY <2>1, <3>3 DEF GoesOn, RequestInv, Suits
      <4>2. at[c] \in {"key", "log"} => changed' = changed
        BY <1>2 DEF RequestStep, InsertBlock, LiftBlocks, MarkUser, WriteFlag,
           Record, ReadStatus, GetFlag, ReadBlocks, PutFlag, ReadTier, CountPending,
           InsertSubmission, PickSubmission, Decide, UseKey, CreateKey, AddStaff, RevokeKey,
           RevokeStaff, Fail
      <4> QED
        BY <3>3, <4>1, <4>2
    <3> QED
      BY <3>1, <3>2, <3>3
  <2>6. what' = what /\ shut' = shut
    BY <2>1 DEF GoesOn
  <2> QED
    BY <2>2, <2>3, <2>4, <2>5, <2>6 DEF LogIsTrue
<1> QED
  BY <1>1, <1>2

----
(* The theorems *)

LEMMA AccountInitOK ==
    ASSUME AccountInit
    PROVE  AccountInv
<1>1. RequestInv /\ ProgressInv
  BY DEF AccountInit, RequestInv, ProgressInv
<1>2. RowsInv
  BY DEF AccountInit, RowsInv
<1>3. UnderWay = {} /\ Pending = {}
  BY DEF AccountInit, UnderWay, Pending
<1>4. StandingInv /\ FlagInv /\ SubmissionInv
  BY <1>3 DEF AccountInit, StandingInv, FlagInv, SubmissionInv
<1>5. KeyInv /\ LogIsTrue
  BY DEF AccountInit, KeyInv, LogIsTrue
<1> QED
  BY <1>1, <1>2, <1>4, <1>5 DEF AccountInv

LEMMA AccountStep ==
    ASSUME AccountInv, [AccountNext]_accountVars
    PROVE  AccountInv'
<1>1. ASSUME NEW c \in Requests, RequestStep(c)
      PROVE  AccountInv'
  <2>1. RequestInv' /\ RowsInv' /\ ProgressInv'
    BY <1>1, RequestKeeps, RowsStep, ProgressStep DEF AccountInv
  <2>2. StandingInv' /\ FlagInv' /\ SubmissionInv'
    BY <1>1, StandingStep, FlagStep, SubmissionStep DEF AccountInv
  <2>3. KeyInv' /\ LogIsTrue'
    BY <1>1, KeyStep, LogStep DEF AccountInv
  <2> QED
    BY <2>1, <2>2, <2>3 DEF AccountInv
<1>2. CASE FlagExpires \/ UNCHANGED accountVars
  <2>1. /\ UNCHANGED <<open, standing, tier, subs, live, log, at, what, read, answer, changed,
                       flagged, shut, overwritten, slipped, torn, disturbed, outdated>>
        /\ flag' \in {flag, "absent"}
    BY <1>2, ExpiryEffect
  <2>2. UnderWay' = UnderWay /\ Pending' = Pending
    BY <2>1 DEF UnderWay, Pending
  <2>3. RequestInv' /\ RowsInv' /\ ProgressInv'
    BY <2>1 DEF AccountInv, RequestInv, RowsInv, ProgressInv
  <2>4. StandingInv' /\ FlagInv' /\ SubmissionInv'
    BY <2>1, <2>2 DEF AccountInv, StandingInv, FlagInv, SubmissionInv
  <2>5. KeyInv' /\ LogIsTrue'
    BY <2>1 DEF AccountInv, KeyInv, LogIsTrue
  <2> QED
    BY <2>3, <2>4, <2>5 DEF AccountInv
<1> QED
  BY <1>1, <1>2 DEF AccountNext

\* Every reachable state of the accounts satisfies their invariant.
THEOREM AccountInvariance ==
    AccountSpec => []AccountInv
<1>1. AccountInit => AccountInv
  BY AccountInitOK
<1>2. AccountInv /\ [AccountNext]_accountVars => AccountInv'
  BY AccountStep
<1> QED
  BY <1>1, <1>2, PTL DEF AccountSpec

\* A block that was answered holds until it is lifted, unless a payment that had read
\* the rows before it writes the flag after it (blocks.go); and users.status says what
\* the rows say once changes of them no longer overlap.
THEOREM BlocksAreKept ==
    AccountSpec => []BlocksHold
<1>1. AccountInv => BlocksHold
  BY DEF AccountInv, FlagInv, StandingInv, BlocksHold
<1> QED
  BY <1>1, AccountInvariance, PTL

\* One submission waits at most, and none of a verified user, unless a request acted on
\* what it had read before another one's statement (kyc.go).
THEOREM SubmissionsTakeTurns ==
    AccountSpec => []SubmissionsInTurn
<1>1. AccountInv => SubmissionsInTurn
  BY DEF AccountInv, SubmissionInv, SubmissionsInTurn
<1> QED
  BY <1>1, AccountInvariance, PTL

\* The audit log tells of changes that were made and of every one that was answered with
\* success, and no change is made with a key that was revoked when its request came.
THEOREM AuditIsTrue ==
    AccountSpec => []LogIsTrue
<1>1. AccountInv => LogIsTrue
  BY DEF AccountInv
<1> QED
  BY <1>1, AccountInvariance, PTL

\* What a request has read fits what it does with it: a payment writes a flag it has
\* read, a review decides a submission that is there.
THEOREM AccountTypes ==
    AccountSpec => []AccountTypeOK
<1>1. AccountInv => AccountTypeOK
  BY DEF AccountInv, RowsInv, AccountTypeOK
<1> QED
  BY <1>1, AccountInvariance, PTL
=============================================================================
