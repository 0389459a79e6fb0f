----------------------------- MODULE RedisLock -----------------------------
(***************************************************************************)
(* internal/infra/redislock: a lock is one Redis key that holds the random *)
(* token of the acquisition and a TTL.  The three operations below are the *)
(* Redis commands the package issues, each of which Redis runs atomically, *)
(* on a map "lock" from lock keys to the token stored there.  Two          *)
(* middlewares use it: the idempotency middleware and the team invitation. *)
(***************************************************************************)

CONSTANT Nobody     \* the value of a key that does not exist

\* Mutant: SET without NX.
AlwaysAcquirable(lock, k) == TRUE

\* SETNX succeeds exactly when the key does not exist.
Acquirable(lock, k) == lock[k] = Nobody

\* Mutant: the key instead of the token is stored.
AcquiredWithKey(lock, k, token) == [lock EXCEPT ![k] = k]

\* The state after a SETNX that succeeded.
Acquired(lock, k, token) == [lock EXCEPT ![k] = token]

\* Mutant: a release that deletes the key whatever token it holds.
ReleasedBlindly(lock, k, token) == [lock EXCEPT ![k] = Nobody]

\* releaseScript: delete the key only if it still holds the caller's token.
Released(lock, k, token) ==
  IF lock[k] = token THEN [lock EXCEPT ![k] = Nobody] ELSE lock

\* The key's TTL ran out.
Expired(lock, k) == [lock EXCEPT ![k] = Nobody]
=============================================================================
