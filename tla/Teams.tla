------------------------------- MODULE Teams -------------------------------
(***************************************************************************)
(* Teams and invitations: internal/service/team.go on the table            *)
(* team_members, with the Redis lock around an invitation and the mail it  *)
(* sends.                                                                  *)
(*                                                                         *)
(* An invitation is a process: its queries, its Redis calls and its mail   *)
(* are steps, and invitations interleave between them.  One that is        *)
(* refused before it takes the lock changes nothing and is no step.        *)
(* Faults names what may go wrong with the lock:                           *)
(*   "redis"    a Redis command fails, before or after Redis ran it, or is *)
(*              sent again by the client library after Redis ran it        *)
(*   "lock_ttl" the lock's TTL runs out while its holder is still working  *)
(***************************************************************************)
EXTENDS Naturals, FiniteSets

CONSTANTS
  TeamIds, Users,
  Invites,   \* executions of InviteByEmail
  Faults,    \* the faults that may happen
  None,      \* no role, nobody
  Nobody     \* a lock key that does not exist in Redis

ASSUME TeamFaultsAssumption == Faults \subseteq {"redis", "lock_ttl"}
INSTANCE RedisLock

Roles == {"owner", "admin", "member"}
Members == TeamIds \X Users      \* the primary key of team_members

VARIABLES
  role,     \* team_members: the role of each member, or None
  lock,     \* lock:invite:* in Redis
  pc,       \* where each invitation is
  args,     \* of each invitation: inviter, team and invited user, role
  held,     \* invitations that took the lock
  expired,  \* history: invitations whose lock ran out before they ended
  result,   \* what each invitation returned
  mailed,   \* history: invitations whose mail was delivered
  grantor   \* history: who brought each member in

vars == <<role, lock, pc, args, held, expired, result, mailed, grantor>>

\* What the handler lets through: any role but owner.
Args == [by : Users, member : Members, role : {"admin", "member"}]

ASSUME TeamNoneAssumption ==
  None \notin Users \cup Args \cup Roles /\ Nobody \notin Invites

Key(i) == args[i].member

\* Mutant: an admin may name admins.
canInviteAsOneself(inviterRole, targetRole) ==
  \/ inviterRole = "owner" /\ targetRole \in {"member", "admin"}
  \/ inviterRole = "admin" /\ targetRole \in {"member", "admin"}

canInvite(inviterRole, targetRole) ==
  \/ inviterRole = "owner" /\ targetRole \in {"member", "admin"}
  \/ inviterRole = "admin" /\ targetRole = "member"

\* The invitation returns r, through the deferred Release if it has the lock.
Return(i, r) ==
  /\ result' = [result EXCEPT ![i] = r]
  /\ pc' = [pc EXCEPT ![i] = IF i \in held THEN "release" ELSE "done"]

Goto(i, from, to) == pc[i] = from /\ pc' = [pc EXCEPT ![i] = to]

-----------------------------------------------------------------------------
Init ==
  /\ role = [k \in Members |-> None]
  /\ lock = [k \in Members |-> Nobody]
  /\ pc = [i \in Invites |-> "new"]
  /\ args = [i \in Invites |-> None]
  /\ held = {}
  /\ expired = {}
  /\ result = [i \in Invites |-> "none"]
  /\ mailed = {}
  /\ grantor = [k \in Members |-> None]

\* CreateTeam: the team and its owner, in one transaction.
CreateTeam(m, u) ==
  /\ \A v \in Users : role[<<m, v>>] = None
  /\ role' = [role EXCEPT ![<<m, u>>] = "owner"]
  /\ grantor' = [grantor EXCEPT ![<<m, u>>] = u]
  /\ UNCHANGED <<lock, pc, args, held, result, mailed, expired>>

\* InviteByEmail up to the lock: the team exists, the inviter may grant the role.
CheckInviter(i, a) ==
  /\ Goto(i, "new", "acquire")
  /\ canInvite(role[<<a.member[1], a.by>>], a.role)
  /\ args' = [args EXCEPT ![i] = a]
  /\ UNCHANGED <<role, lock, held, result, mailed, grantor, expired>>

\* Acquire answers; a SETNX that the client library sends again, because the
\* first answer was lost, finds its own key and says that somebody has it.
Acquire(i) ==
  /\ pc[i] = "acquire"
  /\ \/ /\ Acquirable(lock, Key(i))
        /\ Goto(i, "acquire", "check")
        /\ lock' = Acquired(lock, Key(i), i)
        /\ held' = held \cup {i}
        /\ UNCHANGED result
     \/ /\ \/ ~Acquirable(lock, Key(i)) /\ UNCHANGED lock
           \/ /\ "redis" \in Faults /\ Acquirable(lock, Key(i))
              /\ lock' = Acquired(lock, Key(i), i)
        /\ Return(i, "conflict")
        /\ UNCHANGED held
  /\ UNCHANGED <<role, args, mailed, grantor, expired>>

\* Acquire fails, and Redis may have set the key: the invitation goes on
\* without the lock.
AcquireFails(i) ==
  /\ "redis" \in Faults
  /\ Goto(i, "acquire", "check")
  /\ \/ UNCHANGED lock
     \/ Acquirable(lock, Key(i)) /\ lock' = Acquired(lock, Key(i), i)
  /\ UNCHANGED <<role, args, held, result, mailed, grantor, expired>>

\* The request's context ends during Acquire, which Redis may have run: the
\* invitation goes on, and the next query fails.
AcquireCancelled(i) ==
  /\ pc[i] = "acquire"
  /\ Return(i, "error")
  /\ \/ UNCHANGED lock
     \/ Acquirable(lock, Key(i)) /\ lock' = Acquired(lock, Key(i), i)
  /\ UNCHANGED <<role, args, held, mailed, grantor, expired>>

\* members.IsMember.
CheckMember(i) ==
  /\ pc[i] = "check"
  /\ \/ role[Key(i)] = None /\ Goto(i, "check", "send") /\ UNCHANGED result
     \/ role[Key(i)] # None /\ Return(i, "conflict")
  /\ UNCHANGED <<role, lock, args, held, mailed, grantor, expired>>

\* email.SendInvite delivers the mail.
SendInvite(i) ==
  /\ Goto(i, "send", "add")
  /\ mailed' = mailed \cup {i}
  /\ UNCHANGED <<role, lock, args, held, result, grantor, expired>>

\* email.SendInvite reports an error, with or without a mail delivered.
SendInviteFails(i) ==
  /\ pc[i] = "send"
  /\ Return(i, "unavailable")
  /\ mailed' \in {mailed, mailed \cup {i}}
  /\ UNCHANGED <<role, lock, args, held, grantor, expired>>

\* Mutant: an insert that replaces the row.
Upsert(i) ==
  /\ pc[i] = "add"
  /\ role' = [role EXCEPT ![Key(i)] = args[i].role]
  /\ grantor' = [grantor EXCEPT ![Key(i)] = args[i].by]
  /\ Return(i, "ok")
  /\ UNCHANGED <<lock, args, held, mailed, expired>>

\* members.Add: the primary key refuses a second row; the answer to an insert
\* that was made may get lost.
Add(i) ==
  /\ pc[i] = "add"
  /\ \/ /\ role[Key(i)] = None
        /\ role' = [role EXCEPT ![Key(i)] = args[i].role]
        /\ grantor' = [grantor EXCEPT ![Key(i)] = args[i].by]
        /\ \E r \in {"ok", "error"} : Return(i, r)
     \/ /\ role[Key(i)] # None
        /\ Return(i, "conflict")
        /\ UNCHANGED <<role, grantor>>
  /\ UNCHANGED <<lock, args, held, mailed, expired>>

\* A query fails: an error of the database or the 5 second limit.
QueryFails(i) ==
  /\ pc[i] \in {"check", "add"}
  /\ Return(i, "error")
  /\ UNCHANGED <<role, lock, args, held, mailed, grantor, expired>>

\* The deferred Release, which uses context.Background().
Release(i) ==
  /\ Goto(i, "release", "done")
  /\ \/ lock' = Released(lock, Key(i), i)
     \/ "redis" \in Faults /\ UNCHANGED lock
  /\ UNCHANGED <<role, args, held, result, mailed, grantor, expired>>

\* The process that serves the invitation dies.
Crash(i) ==
  /\ pc[i] \notin {"new", "done", "dead"}
  /\ pc' = [pc EXCEPT ![i] = "dead"]
  /\ UNCHANGED <<role, lock, args, held, result, mailed, grantor, expired>>

\* Redis drops a lock whose TTL ran out.
LockExpires(k) ==
  /\ lock[k] # Nobody
  /\ \/ /\ lock[k] \notin held \/ pc[lock[k]] \in {"done", "dead"}
        /\ UNCHANGED expired
     \/ /\ lock[k] \in held /\ pc[lock[k]] \notin {"done", "dead"}
        /\ "lock_ttl" \in Faults
        /\ expired' = expired \cup {lock[k]}
  /\ lock' = Expired(lock, k)
  /\ UNCHANGED <<role, pc, args, held, result, mailed, grantor>>

\* Nothing is under way; the invitations still to come may all be refused.
Finished ==
  /\ \A i \in Invites : pc[i] \in {"new", "done", "dead"}
  /\ UNCHANGED vars

Next ==
  \/ \E m \in TeamIds, u \in Users : CreateTeam(m, u)
  \/ \E i \in Invites :
       \/ \E a \in Args : CheckInviter(i, a)
       \/ Acquire(i) \/ AcquireFails(i) \/ AcquireCancelled(i)
       \/ CheckMember(i) \/ SendInvite(i) \/ SendInviteFails(i)
       \/ Add(i) \/ QueryFails(i) \/ Release(i) \/ Crash(i)
  \/ \E k \in Members : LockExpires(k)
  \/ Finished

Spec == Init /\ [][Next]_vars

-----------------------------------------------------------------------------
(* Properties *)

\* Types of the table, the locks and the invitations.
TypeOK ==
  /\ role \in [Members -> Roles \cup {None}]
  /\ lock \in [Members -> Invites \cup {Nobody}]
  /\ pc \in [Invites -> {"new", "acquire", "check", "send", "add", "release", "done", "dead"}]
  /\ args \in [Invites -> Args \cup {None}]
  /\ held \subseteq Invites
  /\ expired \subseteq Invites
  /\ result \in [Invites -> {"none", "ok", "conflict", "unavailable", "error"}]
  /\ mailed \subseteq Invites
  /\ grantor \in [Members -> Users \cup {None}]

\* Every member other than the owner was brought in by a member entitled to
\* grant that role, and the owner made the team: admins come from the owner,
\* members from the owner or an admin (team.go, lines 196-205), although the
\* inviter's role was read long before the row is written.
GrantedByRight ==
  \A m \in TeamIds, u \in Users :
    LET g == grantor[<<m, u>>]
    IN  CASE role[<<m, u>>] = "owner" -> g = u
          [] role[<<m, u>>] = "admin" -> g \in Users /\ role[<<m, g>>] = "owner"
          [] role[<<m, u>>] = "member" -> g \in Users /\ role[<<m, g>>] \in {"owner", "admin"}
          [] OTHER -> TRUE

\* An invitation never changes the role of someone who is a member already,
\* even when the lock is bypassed or runs out between the membership check and
\* the insert: the primary key is the fallback.
RoleNeverChanges ==
  [][\A k \in Members : role[k] # None => role'[k] = role[k]]_vars

\* Of the invitations of one user to one team at most one succeeds, and then
\* the user has the role it named.
OneSucceeds ==
  \A i, j \in Invites : result[i] = "ok" =>
    /\ role[Key(i)] = args[i].role
    /\ result[j] = "ok" /\ Key(j) = Key(i) => i = j

\* The invitation ended, or was cut short, without a report of success.
Failed(i) == result[i] \in {"unavailable", "error"} \/ pc[i] = "dead"

\* Nobody gets two mails for one team from invitations that had the lock as long
\* as they ran, unless one of the two failed: the membership check runs under
\* the lock, so it sees what the holder before it did.
MailedOnce ==
  \A i, j \in mailed \cap (held \ expired) :
    Key(i) = Key(j) /\ i # j => Failed(i) \/ Failed(j)
=============================================================================
