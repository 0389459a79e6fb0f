-------------------------- MODULE SessionsProofs --------------------------
(***************************************************************************)
(* Refresh-token rotation is exchanged-at-most-once for any number of      *)
(* users, tokens and concurrent calls, and implements TokenRotation.       *)
(***************************************************************************)
EXTENDS Sessions, TLAPS

\* A transaction that passed its checks holds its token's row, and the row
\* stays exchangeable until it commits: what was checked is still true.
TxInv ==
  \A c \in Calls :
    /\ pc[c] \in {"select", "write", "commit"} => token[c] \in Tokens
    /\ pc[c] \in {"write", "commit"} => rowLock[token[c]] = c /\ Live(token[c])
    /\ pc[c] \in {"idle", "create"} => token[c] = None
    /\ at[c] <= now

\* A token signed by a call that has not stored it yet is nobody else's.
FreshInv ==
  \A c \in Calls : pc[c] \in {"create", "commit"} =>
    /\ fresh[c] \in Tokens /\ claims[fresh[c]] # None /\ sessions[fresh[c]] = None
    /\ \A d \in Calls : pc[d] \in {"create", "commit"} /\ fresh[c] = fresh[d] => c = d
    /\ pc[c] = "commit" => NewExpiry(c) <= claims[fresh[c]].exp + Second

\* Rows belong to signed tokens, and descend from a login that has a row.
RowInv ==
  \A t \in Tokens : sessions[t] # None =>
    /\ claims[t] # None
    /\ family[t] \in Tokens /\ sessions[family[t]] # None

\* What has been exchanged is revoked.
SpentInv ==
  /\ \A p \in rotations :
       /\ sessions[p[1]] # None /\ sessions[p[1]].revoked
       /\ sessions[p[2]] # None
  /\ \A c \in Calls : result[c] = "ok" =>
       /\ pc[c] = "done"
       /\ token[c] # None => sessions[token[c]] # None /\ sessions[token[c]].revoked

Inv ==
  /\ TypeOK /\ TxInv /\ FreshInv /\ RowInv /\ SpentInv
  /\ NoLockLeftBehind /\ OneLivePerLogin /\ OneWinner /\ RotatedWithinToken

\* A NumericDate is less than a second before the time it was made from, and a
\* whole number of seconds, so also of milliseconds.
LEMMA NumericDateBounds ==
  ASSUME NEW time \in Nat
  PROVE  /\ NumericDate(time) \in Int /\ time < NumericDate(time) + Second
         /\ NumericDate(time) % 2 = 0
<1> DEFINE seconds == time \div Second
<1>1. Second \in Nat /\ Second > 0 /\ seconds \in Nat
  BY TimesAssumption
<1>2. time % Second \in 0..(Second - 1) /\ time = Second * seconds + (time % Second)
  BY <1>1
<1>3. PICK half \in Nat : Second = 2 * half
  <2>1. Second \div 2 \in Nat /\ Second = 2 * (Second \div 2)
    BY TimesAssumption
  <2>2. QED
    BY <2>1
<1> HIDE DEF seconds
<1>4. half * seconds \in Nat /\ Second * seconds = 2 * (half * seconds)
  BY <1>1, <1>3
<1>5. NumericDate(time) = 2 * (half * seconds)
  BY <1>1, <1>2, <1>4 DEF NumericDate
<1>6. (2 * (half * seconds)) % 2 = 0
  BY <1>4
<1>7. QED
  BY <1>1, <1>2, <1>4, <1>5, <1>6 DEF NumericDate

\* Rounding to milliseconds does not pass a whole millisecond that is ahead.
LEMMA DateTime3Bounds ==
  ASSUME NEW time \in Nat
  PROVE  /\ DateTime3(time) \in Nat
         /\ \A whole \in Int : whole % 2 = 0 /\ time < whole => DateTime3(time) <= whole
  BY DEF DateTime3

\* What Sign puts into a token: claims, less than a second short of the clock
\* and at most a second short of what a column makes of an earlier reading.
LEMMA SignedClaims ==
  ASSUME TypeOK, NEW u \in Users
  PROVE  /\ [user |-> u, exp |-> NumericDate(now + RefreshTTL)] \in Claims
         /\ NumericDate(now + RefreshTTL) \in Int
         /\ \A time \in Nat : time <= now + RefreshTTL =>
              DateTime3(time) <= NumericDate(now + RefreshTTL) + Second
<1>1. now + RefreshTTL \in Nat
  BY TimesAssumption DEF TypeOK
<1>2. /\ NumericDate(now + RefreshTTL) \in Int
      /\ now + RefreshTTL < NumericDate(now + RefreshTTL) + Second
      /\ NumericDate(now + RefreshTTL) % 2 = 0
  BY <1>1, NumericDateBounds
<1>3. (NumericDate(now + RefreshTTL) + Second) % 2 = 0
  BY <1>2, TimesAssumption
<1>4. ASSUME NEW time \in Nat, time <= now + RefreshTTL
      PROVE  DateTime3(time) <= NumericDate(now + RefreshTTL) + Second
  <2>1. time < NumericDate(now + RefreshTTL) + Second
    BY <1>1, <1>2, <1>4, TimesAssumption
  <2>2. NumericDate(now + RefreshTTL) + Second \in Int
    BY <1>2, TimesAssumption
  <2>3. QED
    BY <1>3, <2>1, <2>2, DateTime3Bounds
<1>5. QED
  BY <1>2, <1>4 DEF Claims

\* The expiry that a call's rotated session gets.
LEMMA NewExpiryType ==
  ASSUME TypeOK, NEW c \in Calls
  PROVE  NewExpiry(c) \in Nat /\ at[c] + RefreshTTL \in Nat
<1>1. at[c] + RefreshTTL \in Nat
  BY TimesAssumption DEF TypeOK
<1>2. QED
  BY <1>1, DateTime3Bounds DEF NewExpiry

\* Nothing is in flight at the start.
LEMMA InvInit == Init => Inv
  BY TimesAssumption, NoneAssumption
     DEF Init, Inv, TypeOK, TxInv, FreshInv, RowInv, SpentInv, NoLockLeftBehind,
         OneLivePerLogin, OneWinner, RotatedWithinToken, Live

\* Each step preserves the types.
LEMMA TypeStep == Inv /\ [Next]_vars => TypeOK'
<1> SUFFICES ASSUME Inv, [Next]_vars PROVE TypeOK'
  OBVIOUS
<1>0. TypeOK /\ TxInv /\ FreshInv /\ RowInv
  BY DEF Inv
<1> USE <1>0, TimesAssumption DEF TypeOK, Finish, Unlock
<1>1. ASSUME NEW u \in Users, Register(u) PROVE TypeOK'
  BY <1>1 DEF Register
<1>2. ASSUME NEW c \in Calls, LoginRefused(c) PROVE TypeOK'
  BY <1>2 DEF LoginRefused
<1>3. ASSUME NEW c \in Calls, NEW u \in Users, NEW t \in Tokens, LoginSign(c, u, t)
      PROVE  TypeOK'
  BY <1>3, SignedClaims DEF LoginSign, Sign
<1>4. ASSUME NEW c \in Calls, CreateSession(c) PROVE TypeOK'
  <2>1. fresh[c] \in Tokens /\ claims[fresh[c]] \in Claims /\ now + RefreshTTL \in Nat
    BY <1>4 DEF CreateSession, FreshInv
  <2>2. [user |-> claims[fresh[c]].user, expires |-> DateTime3(now + RefreshTTL),
         revoked |-> FALSE] \in Rows
    BY <2>1, DateTime3Bounds DEF Claims, Rows
  <2>3. QED
    BY <1>4, <2>1, <2>2 DEF CreateSession
<1>5. ASSUME NEW c \in Calls, CreateSessionFails(c) PROVE TypeOK'
  BY <1>5 DEF CreateSessionFails
<1>6. ASSUME NEW c \in Calls, NEW t \in Tokens, Parse(c, t) PROVE TypeOK'
  BY <1>6 DEF Parse
<1>7. ASSUME NEW c \in Calls, SelectForUpdate(c) PROVE TypeOK'
  BY <1>7 DEF SelectForUpdate, TxInv
<1>8. ASSUME NEW c \in Calls, NEW u \in Tokens, Write(c, u) PROVE TypeOK'
  <2>1. token[c] \in Tokens /\ claims[token[c]] # None
    BY <1>8 DEF Write, TxInv, RowInv, Live
  <2>2. QED
    BY <1>8, <2>1, SignedClaims DEF Write, Sign, Claims
<1>9. ASSUME NEW c \in Calls, Commit(c) PROVE TypeOK'
  <2>1. /\ token[c] \in Tokens /\ fresh[c] \in Tokens
        /\ sessions[token[c]] \in Rows /\ claims[token[c]] \in Claims
    BY <1>9 DEF Commit, TxInv, FreshInv, RowInv, Live
  <2>2. [user |-> claims[token[c]].user, expires |-> NewExpiry(c), revoked |-> FALSE]
          \in Rows
    BY <2>1, NewExpiryType DEF Rows, Claims
  <2>3. sessions' \in [Tokens -> Rows \cup {None}]
    BY <1>9, <2>1, <2>2 DEF Commit, Rotated, Rows
  <2>4. /\ rotations' \subseteq Tokens \X Tokens
        /\ family' \in [Tokens -> Tokens \cup {None}]
    BY <1>9, <2>1 DEF Commit, Rotated
  <2>5. QED
    BY <1>9, <2>3, <2>4 DEF Commit
<1>10. ASSUME NEW c \in Calls, Rollback(c) PROVE TypeOK'
  BY <1>10 DEF Rollback
<1>11. CASE Tick
  BY <1>11 DEF Tick
<1>12. CASE UNCHANGED vars
  BY <1>12 DEF vars
<1>13. QED
  BY <1>1, <1>2, <1>3, <1>4, <1>5, <1>6, <1>7, <1>8, <1>9, <1>10, <1>11, <1>12
     DEF Next, Step, Finished

\* The invariants other than TypeOK, which each step preserves.
Parts ==
  /\ TxInv /\ FreshInv /\ RowInv /\ SpentInv
  /\ NoLockLeftBehind /\ OneLivePerLogin /\ OneWinner /\ RotatedWithinToken

\* Each step preserves the rest of the invariant.
LEMMA PartsStep == Inv /\ [Next]_vars => Parts'
<1> SUFFICES ASSUME Inv, [Next]_vars PROVE Parts'
  OBVIOUS
<1>0. TypeOK /\ Parts /\ TypeOK'
  BY TypeStep DEF Inv, Parts
<1> USE <1>0, TimesAssumption, NoneAssumption DEF Finish, Unlock, NewExpiry
<1>1. ASSUME NEW u \in Users, Register(u) PROVE Parts'
  BY <1>1 DEF Register, Parts, TxInv, FreshInv, RowInv, SpentInv, NoLockLeftBehind,
     OneLivePerLogin, OneWinner, RotatedWithinToken, Live
<1>2. ASSUME NEW c \in Calls, LoginRefused(c) \/ CreateSessionFails(c) PROVE Parts'
  <2>1. PICK why \in {"invalid", "error"} : Finish(c, why)
    BY <1>2 DEF LoginRefused, CreateSessionFails
  <2>2. /\ pc[c] \in {"idle", "create"}
        /\ UNCHANGED <<now, users, claims, sessions, rowLock, token, at, fresh, rotations, family>>
    BY <1>2 DEF LoginRefused, CreateSessionFails
  <2>3. RowInv' /\ OneLivePerLogin' /\ RotatedWithinToken'
    BY <2>2 DEF Parts, RowInv, OneLivePerLogin, RotatedWithinToken, Live
  <2>4. TxInv' /\ NoLockLeftBehind'
    BY <2>1, <2>2 DEF TypeOK, Parts, TxInv, NoLockLeftBehind, Live
  <2>5. FreshInv' /\ SpentInv' /\ OneWinner'
    BY <2>1, <2>2 DEF TypeOK, Parts, FreshInv, SpentInv, OneWinner
  <2>6. QED
    BY <2>3, <2>4, <2>5 DEF Parts
<1>3. ASSUME NEW c \in Calls, NEW u \in Users, NEW t \in Tokens, LoginSign(c, u, t)
      PROVE  Parts'
  <2>1. /\ claims[t] = None /\ sessions[t] = None /\ claims'[t] # None
        /\ \A v \in Tokens : v # t => claims'[v] = claims[v]
        /\ fresh' = [fresh EXCEPT ![c] = t]
        /\ pc[c] = "idle" /\ pc' = [pc EXCEPT ![c] = "create"]
        /\ UNCHANGED <<now, users, sessions, rowLock, token, at, result, rotations, family>>
    BY <1>3, SignedClaims DEF LoginSign, Sign, TypeOK, Parts, RowInv
  <2>2. TxInv' /\ NoLockLeftBehind' /\ RowInv' /\ SpentInv'
    BY <2>1 DEF TypeOK, Parts, TxInv, NoLockLeftBehind, RowInv, SpentInv, Live
  <2>3. FreshInv'
    BY <2>1 DEF TypeOK, Parts, FreshInv
  <2>4. OneLivePerLogin' /\ OneWinner'
    BY <2>1 DEF Parts, OneLivePerLogin, OneWinner, Live
  <2>5. RotatedWithinToken'
    BY <2>1 DEF TypeOK, Parts, SpentInv, RotatedWithinToken
  <2>6. QED
    BY <2>2, <2>3, <2>4, <2>5 DEF Parts
<1>4. ASSUME NEW c \in Calls, CreateSession(c) PROVE Parts'
  BY <1>4 DEF CreateSession, TypeOK, Parts, TxInv, FreshInv, RowInv,
     SpentInv, NoLockLeftBehind, OneLivePerLogin, OneWinner, RotatedWithinToken, Live, Rows
<1>5. ASSUME NEW c \in Calls, NEW t \in Tokens, Parse(c, t) PROVE Parts'
  BY <1>5 DEF Parse, TypeOK, Parts, TxInv, FreshInv, RowInv,
     SpentInv, NoLockLeftBehind, OneLivePerLogin, OneWinner, RotatedWithinToken, Live
<1>6. ASSUME NEW c \in Calls, SelectForUpdate(c) PROVE Parts'
  <2>1. /\ pc[c] = "select" /\ token[c] \in Tokens /\ rowLock[token[c]] = None
        /\ UNCHANGED <<now, users, claims, sessions, token, at, fresh, rotations, family>>
    BY <1>6 DEF SelectForUpdate, RowFree, Parts, TxInv
  <2>2. RowInv' /\ OneLivePerLogin' /\ RotatedWithinToken'
    BY <2>1 DEF Parts, RowInv, OneLivePerLogin, RotatedWithinToken, Live
  <2>3. CASE /\ Usable(c, sessions[token[c]]) /\ UNCHANGED result
             /\ rowLock' = [rowLock EXCEPT ![token[c]] = c]
             /\ pc' = [pc EXCEPT ![c] = "write"]
    <3>1. TxInv'
      BY <2>1, <2>3 DEF Usable, TypeOK, Parts, TxInv, Live
    <3>2. NoLockLeftBehind'
      BY <2>1, <2>3 DEF TypeOK, Parts, NoLockLeftBehind
    <3>3. FreshInv' /\ SpentInv' /\ OneWinner'
      BY <2>1, <2>3 DEF TypeOK, Parts, FreshInv, SpentInv, OneWinner
    <3>4. QED
      BY <2>2, <3>1, <3>2, <3>3 DEF Parts
  <2>4. ASSUME NEW why \in {"reuse", "invalid"}, Finish(c, why), UNCHANGED rowLock
        PROVE  Parts'
    <3>1. TxInv' /\ NoLockLeftBehind'
      BY <2>1, <2>4 DEF TypeOK, Parts, TxInv, NoLockLeftBehind, Live
    <3>2. FreshInv' /\ SpentInv' /\ OneWinner'
      BY <2>1, <2>4 DEF TypeOK, Parts, FreshInv, SpentInv, OneWinner
    <3>3. QED
      BY <2>2, <3>1, <3>2 DEF Parts
  <2>5. QED
    BY <1>6, <2>3, <2>4 DEF SelectForUpdate
<1>7. ASSUME NEW c \in Calls, NEW u \in Tokens, Write(c, u) PROVE Parts'
  <2>1. /\ pc[c] = "write" /\ pc' = [pc EXCEPT ![c] = "commit"]
        /\ fresh' = [fresh EXCEPT ![c] = u]
        /\ claims[u] = None /\ sessions[u] = None
        /\ \A t \in Tokens : t # u => claims'[t] = claims[t]
        /\ claims'[u] # None /\ NewExpiry(c) <= claims'[u].exp + Second
        /\ claims'[u].exp \in Int
        /\ UNCHANGED <<now, users, sessions, rowLock, token, at, result, rotations, family>>
    <3>1. claims' = [claims EXCEPT ![u] = [user |-> claims[token[c]].user,
                                           exp |-> NumericDate(now + RefreshTTL)]]
          /\ claims[u] = None /\ sessions[u] = None
      BY <1>7 DEF Write, Sign, TypeOK, Parts, RowInv
    <3>2. claims'[u].exp = NumericDate(now + RefreshTTL)
          /\ \A t \in Tokens : t # u => claims'[t] = claims[t]
      BY <3>1 DEF TypeOK
    <3>3. token[c] \in Tokens /\ claims[token[c]] \in Claims
      BY <1>7 DEF Write, TypeOK, Parts, TxInv, RowInv, Live
    <3>4. claims'[u] # None
      BY <3>1, <3>3, SignedClaims DEF TypeOK, Claims
    <3>5. claims[token[c]].user \in Users /\ at[c] + RefreshTTL <= now + RefreshTTL
      BY <3>3 DEF Claims, TypeOK, Parts, TxInv
    <3>6. NewExpiry(c) <= NumericDate(now + RefreshTTL) + Second
      BY <3>5, SignedClaims, NewExpiryType DEF NewExpiry
    <3>7. QED
      BY <1>7, <3>1, <3>2, <3>4, <3>5, <3>6, SignedClaims DEF Write
  <2>2. TxInv' /\ NoLockLeftBehind' /\ RowInv' /\ SpentInv'
    BY <2>1 DEF TypeOK, Parts, TxInv, NoLockLeftBehind, RowInv, SpentInv, Live
  <2>3. \A d \in Calls : NewExpiry(d)' = NewExpiry(d)
    BY <2>1 DEF NewExpiry
  <2>4. FreshInv'
    BY <2>1, <2>3 DEF TypeOK, Parts, FreshInv
  <2>5. OneLivePerLogin' /\ OneWinner'
    BY <2>1 DEF Parts, OneLivePerLogin, OneWinner, Live
  <2>6. RotatedWithinToken'
    BY <2>1 DEF TypeOK, Parts, SpentInv, RotatedWithinToken
  <2>7. QED
    BY <2>2, <2>4, <2>5, <2>6 DEF Parts
<1>8. ASSUME NEW c \in Calls, Commit(c) PROVE Parts'
  <2> DEFINE t == token[c]
             u == fresh[c]
  <2>1. /\ pc[c] = "commit" /\ t \in Tokens /\ u \in Tokens /\ t # u
        /\ rowLock[t] = c /\ Live(t) /\ sessions[u] = None /\ claims[u] # None
        /\ NewExpiry(c) <= claims[u].exp + Second
    BY <1>8 DEF Commit, Parts, TxInv, FreshInv, Live
  <2>2. /\ \A v \in Tokens : v # t /\ v # u => sessions'[v] = sessions[v]
        /\ sessions'[t] # None /\ sessions'[t].revoked
        /\ sessions'[u] # None /\ ~sessions'[u].revoked
        /\ sessions'[u].expires = NewExpiry(c)
        /\ sessions'[t].expires = sessions[t].expires
    <3> DEFINE new == [user |-> claims[t].user, expires |-> NewExpiry(c), revoked |-> FALSE]
    <3>1. sessions' = [sessions EXCEPT ![t].revoked = TRUE, ![u] = new]
      BY <1>8 DEF Commit, Rotated
    <3> HIDE DEF new
    <3>2. sessions[t] \in Rows /\ claims[t] \in Claims
      BY <2>1 DEF TypeOK, Parts, RowInv, Live
    <3>3. sessions'[t] = [sessions[t] EXCEPT !.revoked = TRUE] /\ sessions'[u] = new
      BY <2>1, <3>1 DEF TypeOK
    <3>4. new \in Rows
      BY <3>2, NewExpiryType DEF new, Rows, Claims
    <3>5. sessions'[t] \in Rows
      BY <3>2, <3>3 DEF Rows
    <3>6. \A v \in Tokens : v # t /\ v # u => sessions'[v] = sessions[v]
      BY <3>1 DEF TypeOK
    <3>7. sessions'[t] # None /\ sessions'[u] # None
      BY <3>3, <3>4, <3>5
    <3>8. sessions'[t].revoked = TRUE /\ sessions'[t].expires = sessions[t].expires
      BY <3>2, <3>3 DEF Rows
    <3>9. sessions'[u].revoked = FALSE /\ sessions'[u].expires = NewExpiry(c)
      BY <3>3 DEF new
    <3>10. QED
      BY <3>6, <3>7, <3>8, <3>9
  <2>3. /\ rotations' = rotations \cup {<<t, u>>}
        /\ family' = [family EXCEPT ![u] = family[t]]
        /\ pc' = [pc EXCEPT ![c] = "done"]
        /\ result' = [result EXCEPT ![c] = "ok"] \/ result' = [result EXCEPT ![c] = "error"]
        /\ rowLock' = [v \in Tokens |-> IF rowLock[v] = c THEN None ELSE rowLock[v]]
        /\ UNCHANGED <<now, users, claims, token, at, fresh>>
    BY <1>8 DEF Commit, Rotated
  <2>4. NoLockLeftBehind'
    BY <2>1, <2>3 DEF TypeOK, Parts, NoLockLeftBehind
  <2>5. ASSUME NEW d \in Calls, d # c, pc[d] \in {"write", "commit"}
        PROVE  token[d] # t /\ token[d] # u
    BY <2>1, <2>5 DEF Parts, TxInv, Live
  <2>6. TxInv'
    BY <2>1, <2>2, <2>3, <2>5 DEF TypeOK, Parts, TxInv, Live
  <2>7. FreshInv'
    BY <2>1, <2>2, <2>3 DEF TypeOK, Parts, FreshInv, Live
  <2>8. RowInv'
    BY <2>1, <2>2, <2>3 DEF TypeOK, Parts, RowInv, Live
  <2>9. SpentInv'
    BY <2>1, <2>2, <2>3 DEF TypeOK, Parts, SpentInv, Live
  <2>10. OneLivePerLogin'
    BY <2>1, <2>2, <2>3 DEF TypeOK, Parts, OneLivePerLogin, Live
  <2>11. OneWinner'
    BY <2>1, <2>3 DEF TypeOK, Parts, SpentInv, OneWinner, Live
  <2>12. RotatedWithinToken'
    BY <2>1, <2>2, <2>3 DEF TypeOK, Parts, SpentInv, RotatedWithinToken
  <2>13. QED
    BY <2>4, <2>6, <2>7, <2>8, <2>9, <2>10, <2>11, <2>12 DEF Parts
<1>9. ASSUME NEW c \in Calls, Rollback(c) PROVE Parts'
  BY <1>9 DEF Rollback, TypeOK, Parts, TxInv, FreshInv, RowInv,
     SpentInv, NoLockLeftBehind, OneLivePerLogin, OneWinner, RotatedWithinToken, Live
<1>10. CASE Tick
  BY <1>10 DEF Tick, TypeOK, Parts, TxInv, FreshInv, RowInv,
     SpentInv, NoLockLeftBehind, OneLivePerLogin, OneWinner, RotatedWithinToken, Live
<1>11. CASE UNCHANGED vars
  BY <1>11 DEF vars, Parts, TxInv, FreshInv, RowInv, SpentInv, NoLockLeftBehind,
     OneLivePerLogin, OneWinner, RotatedWithinToken, Live
<1>12. QED
  BY <1>1, <1>2, <1>3, <1>4, <1>5, <1>6, <1>7, <1>8, <1>9, <1>10, <1>11
     DEF Next, Step, Finished

\* The invariant of every reachable state.
LEMMA SpecInv == Spec => []Inv
<1>1. Inv /\ [Next]_vars => Inv'
  BY TypeStep, PartsStep DEF Inv, Parts
<1>2. QED
  BY InvInit, <1>1, PTL DEF Spec

\* The table, the row locks and the calls stay well formed.
THEOREM TypeCorrect == Spec => []TypeOK
  BY SpecInv, PTL DEF Inv

\* Of any number of refreshes that race for a token, one wins.
THEOREM OneWinnerTheorem == Spec => []OneWinner
  BY SpecInv, PTL DEF Inv

\* A login leaves at most one exchangeable token at any time.
THEOREM OneLiveTheorem == Spec => []OneLivePerLogin
  BY SpecInv, PTL DEF Inv

\* Whatever the clock reads at each point of a refresh, the row of a rotated
\* token outlives the token by at most a second.
THEOREM WithinTheorem == Spec => []RotatedWithinToken
  BY SpecInv, PTL DEF Inv

\* No call that ended, by commit, rollback, error or crash, leaves a row locked.
THEOREM NoLockTheorem == Spec => []NoLockLeftBehind
  BY SpecInv, PTL DEF Inv

-----------------------------------------------------------------------------
(* Refinement *)

\* Before the first login there is nothing to exchange.
LEMMA RotationInit == Init => Rotation!Init
  BY DEF Init, Rotation!Init, Live

\* A step of a call is a login, a refresh, or no change of the rotation.
LEMMA RotationStep == Inv /\ [Next]_vars => [Rotation!Next]_(Rotation!rotationVars)
<1> SUFFICES ASSUME Inv, [Next]_vars
             PROVE  [Rotation!Next]_(Rotation!rotationVars)
  OBVIOUS
<1> DEFINE LiveSet == {t \in Tokens : Live(t)}
<1>0. TypeOK /\ TxInv /\ FreshInv /\ RowInv /\ SpentInv
  BY DEF Inv
<1>1. ASSUME NEW c \in Calls, CreateSession(c) PROVE Rotation!Issue(fresh[c])
  <2>1. /\ fresh[c] \in Tokens /\ sessions[fresh[c]] = None
        /\ sessions' = [sessions EXCEPT ![fresh[c]] =
             [user |-> claims[fresh[c]].user, expires |-> DateTime3(now + RefreshTTL), revoked |-> FALSE]]
        /\ rotations' = rotations
    BY <1>0, <1>1 DEF CreateSession, FreshInv
  <2>2. sessions'[fresh[c]] # None /\ ~sessions'[fresh[c]].revoked
    <3>1. sessions'[fresh[c]] = [user |-> claims[fresh[c]].user,
                                 expires |-> DateTime3(now + RefreshTTL), revoked |-> FALSE]
      BY <1>0, <2>1 DEF TypeOK
    <3>2. claims[fresh[c]] \in Claims
      BY <1>0, <1>1 DEF TypeOK, FreshInv, CreateSession
    <3>3. sessions'[fresh[c]] \in Rows
      <4>1. now + RefreshTTL \in Nat
        BY <1>0, TimesAssumption DEF TypeOK
      <4>2. QED
        BY <3>1, <3>2, <4>1, DateTime3Bounds DEF Rows, Claims
    <3>4. sessions'[fresh[c]] # None
      BY <3>3, NoneAssumption
    <3>5. ~sessions'[fresh[c]].revoked
      BY <3>1
    <3>6. QED
      BY <3>4, <3>5
  <2>3. LiveSet' = LiveSet \cup {fresh[c]}
    BY <1>0, <2>1, <2>2 DEF TypeOK, Live
  <2>4. fresh[c] \notin LiveSet /\ \A p \in rotations : p[1] # fresh[c]
    BY <1>0, <2>1 DEF SpentInv, Live
  <2>5. QED
    BY <2>1, <2>3, <2>4 DEF Rotation!Issue, Rotation!spent
<1>2. ASSUME NEW c \in Calls, Commit(c) PROVE Rotation!Rotate(token[c], fresh[c])
  <2>1. /\ token[c] \in Tokens /\ fresh[c] \in Tokens
        /\ Live(token[c]) /\ sessions[fresh[c]] = None
    BY <1>0, <1>2 DEF Commit, TxInv, FreshInv
  <2>2. /\ sessions' = [sessions EXCEPT ![token[c]].revoked = TRUE,
             ![fresh[c]] = [user |-> claims[token[c]].user, expires |-> NewExpiry(c),
                            revoked |-> FALSE]]
        /\ rotations' = rotations \cup {<<token[c], fresh[c]>>}
    BY <1>2 DEF Commit, Rotated
  <2>3. sessions[token[c]] \in Rows /\ token[c] # fresh[c]
    BY <1>0, <2>1 DEF TypeOK, Live
  <2>4. sessions'[token[c]].revoked /\ ~sessions'[fresh[c]].revoked
    BY <1>0, <2>1, <2>2, <2>3 DEF TypeOK, Rows
  <2>5. sessions'[fresh[c]] # None
    <3>1. claims[token[c]] \in Claims
      BY <1>0, <2>1 DEF TypeOK, RowInv, Live
    <3>2. sessions'[fresh[c]] = [user |-> claims[token[c]].user, expires |-> NewExpiry(c),
                                 revoked |-> FALSE]
      BY <1>0, <2>1, <2>2 DEF TypeOK
    <3>3. sessions'[fresh[c]] \in Rows
      BY <1>0, <3>1, <3>2, NewExpiryType DEF Rows, Claims
    <3>4. QED
      BY <3>3, NoneAssumption
  <2>6. LiveSet' = (LiveSet \ {token[c]}) \cup {fresh[c]}
    BY <1>0, <2>1, <2>2, <2>3, <2>4, <2>5 DEF TypeOK, Live
  <2>7. fresh[c] \notin LiveSet /\ \A p \in rotations : p[1] # fresh[c]
    BY <1>0, <2>1 DEF SpentInv, Live
  <2>8. QED
    BY <2>1, <2>2, <2>6, <2>7 DEF Rotation!Rotate, Rotation!spent
<1>3. CASE UNCHANGED <<sessions, rotations>>
  BY <1>3 DEF Rotation!rotationVars, Live
<1>4. ASSUME NEW c \in Calls, CreateSession(c) \/ Commit(c)
      PROVE  fresh[c] \in Tokens /\ (Commit(c) => token[c] \in Tokens)
  BY <1>0, <1>4 DEF CreateSession, Commit, FreshInv, TxInv
<1>5. QED
  BY <1>1, <1>2, <1>3, <1>4 DEF Next, Step, Finished, vars, Rotation!Next, Register,
     LoginRefused, LoginSign, CreateSessionFails, Parse, SelectForUpdate, Write,
     Rollback, Tick

\* The sessions table, with its transactions and row locks, implements the
\* rotation of tokens: every token is exchanged at most once and then spent.
THEOREM RotationTheorem == Spec => RefinesRotation
  BY RotationInit, RotationStep, SpecInv, PTL DEF Spec, RefinesRotation, Rotation!Spec
=============================================================================
