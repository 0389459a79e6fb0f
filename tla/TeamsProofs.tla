---------------------------- MODULE TeamsProofs ----------------------------
(***************************************************************************)
(* Invitations, for any number of teams, users and invitations and every   *)
(* fault of the lock: who gets which role, and who is told of it.          *)
(***************************************************************************)
EXTENDS Teams, TLAPS

USE DEF Acquirable, Acquired, Released, Expired

\* Before its insert is answered an invitation has no result, and only one that
\* got past the mail can have sent it.
Progress ==
  \A i \in Invites :
    /\ pc[i] # "new" => args[i] \in Args
    /\ pc[i] \in {"new", "acquire"} => i \notin held
    /\ pc[i] \in {"new", "acquire", "check", "send"} => i \notin mailed
    /\ pc[i] \in {"new", "acquire", "check", "send", "add"} => result[i] = "none"

\* The type invariant with what each point of an invitation leaves behind it.
TypeInv == TypeOK /\ Progress

\* Every inviter still has the role that was checked.
InviterInv ==
  \A i \in Invites : pc[i] \in {"acquire", "check", "send", "add"} =>
    canInvite(role[<<args[i].member[1], args[i].by>>], args[i].role)

\* A reported success has put the role into the table.
ResultInv ==
  \A i \in Invites : result[i] = "ok" => pc[i] # "new" /\ role[Key(i)] = args[i].role

\* The invitations that took the lock and have not lost it to the TTL.
Locking == held \ expired

\* Such an invitation has its key until it is released.
HolderInv ==
  \A i \in Locking : pc[i] \in {"check", "send", "add", "release"} => lock[Key(i)] = i

\* Whoever was mailed is a member, unless the invitation failed or is inserting.
MailedInv ==
  \A i \in mailed : ~Failed(i) /\ pc[i] # "add" => role[Key(i)] # None

\* Who is past the membership check under the lock is alone: all other mails for
\* the key belong to failed invitations.
AloneInv ==
  \A i, j \in Locking :
    /\ i # j /\ Key(i) = Key(j)
    /\ i \in mailed /\ pc[j] \in {"send", "add"}
    => Failed(i)

\* The initial state.
LEMMA TypeInit == Init => TypeInv
  BY DEF Init, TypeInv, TypeOK, Progress

\* Where a step that returns can leave an invitation.
LEMMA ReturnType ==
  ASSUME TypeInv, NEW i \in Invites, pc[i] # "new",
         NEW r \in {"ok", "conflict", "unavailable", "error"}, Return(i, r)
  PROVE  /\ result' \in [Invites -> {"none", "ok", "conflict", "unavailable", "error"}]
         /\ pc' \in [Invites -> {"new", "acquire", "check", "send", "add", "release", "done", "dead"}]
         /\ result'[i] = r /\ pc'[i] \in {"release", "done"}
         /\ \A j \in Invites : j # i => result'[j] = result[j] /\ pc'[j] = pc[j]
  BY DEF Return, TypeInv, TypeOK

\* Each step keeps the types and the order of an invitation's calls.
LEMMA TypeStep == TypeInv /\ [Next]_vars => TypeInv'
<1> SUFFICES ASSUME TypeInv, [Next]_vars PROVE TypeInv'
  OBVIOUS
<1> USE DEF TypeInv, TypeOK, Progress, Goto
<1>0. ASSUME NEW i \in Invites, pc[i] # "new"
      PROVE  Key(i) \in Members /\ args[i].by \in Users /\ args[i].role \in Roles
  BY <1>0 DEF Key, Args, Roles
<1>1. ASSUME NEW m \in TeamIds, NEW u \in Users, CreateTeam(m, u) PROVE TypeInv'
  BY <1>1 DEF CreateTeam, Roles, Members
<1>2. ASSUME NEW i \in Invites, NEW a \in Args, CheckInviter(i, a) PROVE TypeInv'
  BY <1>2 DEF CheckInviter
<1>3. ASSUME NEW i \in Invites, Acquire(i) \/ AcquireFails(i) \/ AcquireCancelled(i)
      PROVE  TypeInv'
  BY <1>3, <1>0 DEF Acquire, AcquireFails, AcquireCancelled, Return
<1>4. ASSUME NEW i \in Invites, CheckMember(i) \/ SendInvite(i) \/ SendInviteFails(i)
      PROVE  TypeInv'
  BY <1>4 DEF CheckMember, SendInvite, SendInviteFails, Return
<1>5. ASSUME NEW i \in Invites, Add(i) PROVE TypeInv'
  <2>1. PICK r \in {"ok", "conflict", "error"} : Return(i, r)
    BY <1>5 DEF Add
  <2>2. role' \in [Members -> Roles \cup {None}] /\ grantor' \in [Members -> Users \cup {None}]
    BY <1>5, <1>0 DEF Add
  <2>3. pc[i] = "add" /\ UNCHANGED <<lock, args, held, mailed, expired>>
    BY <1>5 DEF Add
  <2>4. QED
    BY <2>1, <2>2, <2>3, ReturnType
<1>6. ASSUME NEW i \in Invites, QueryFails(i) \/ Release(i) \/ Crash(i) PROVE TypeInv'
  BY <1>6, <1>0 DEF QueryFails, Release, Crash, Return
<1>7. ASSUME NEW k \in Members, LockExpires(k) PROVE TypeInv'
  BY <1>7 DEF LockExpires
<1>8. CASE UNCHANGED vars
  BY <1>8 DEF vars
<1>9. QED
  BY <1>1, <1>2, <1>3, <1>4, <1>5, <1>6, <1>7, <1>8 DEF Next, Finished

\* For any teams, users, invitations and faults the state is well formed.
THEOREM TypeTheorem == Spec => []TypeOK
<1>1. TypeInv => TypeOK
  BY DEF TypeInv
<1>2. QED
  BY <1>1, TypeInit, TypeStep, PTL DEF Spec

-----------------------------------------------------------------------------
(* Roles *)

\* Roles are only ever added: no step takes one away or changes it.
LEMMA RolesKept ==
  ASSUME TypeInv, [Next]_vars
  PROVE  \A k \in Members : role[k] # None => role'[k] = role[k]
<1> USE DEF TypeInv, TypeOK
<1>1. ASSUME NEW m \in TeamIds, NEW u \in Users, CreateTeam(m, u)
      PROVE  \A k \in Members : role[k] # None => role'[k] = role[k]
  BY <1>1 DEF CreateTeam, Members
<1>2. ASSUME NEW i \in Invites, Add(i)
      PROVE  \A k \in Members : role[k] # None => role'[k] = role[k]
  BY <1>2 DEF Add
<1>3. CASE UNCHANGED role
  BY <1>3
<1>4. QED
  BY <1>1, <1>2, <1>3 DEF Next, CheckInviter, Acquire, AcquireFails, AcquireCancelled,
     CheckMember, SendInvite, SendInviteFails, QueryFails, Release, Crash, LockExpires,
     Finished, vars

\* For any teams, users, invitations and faults, nothing changes the role of a
\* member: what the lock cannot prevent the primary key does (team.go, line 187).
THEOREM RoleTheorem == Spec => RoleNeverChanges
<1>1. TypeInv /\ [Next]_vars
      => [\A k \in Members : role[k] # None => role'[k] = role[k]]_vars
  BY RolesKept
<1>2. QED
  BY <1>1, TypeInit, TypeStep, PTL DEF Spec, RoleNeverChanges

RoleInv == TypeInv /\ InviterInv /\ ResultInv /\ GrantedByRight /\ OneSucceeds

\* What is read of an invitation that has started.
LEMMA ArgsType ==
  ASSUME TypeInv, NEW i \in Invites, pc[i] # "new"
  PROVE  /\ args[i] \in Args /\ Key(i) \in Members /\ args[i].by \in Users
         /\ args[i].role \in {"admin", "member"} /\ args[i].role # None
         /\ args[i].member[1] \in TeamIds /\ args[i].member[2] \in Users
         /\ <<args[i].member[1], args[i].member[2]>> = Key(i)
         /\ <<args[i].member[1], args[i].by>> \in Members
  BY TeamNoneAssumption DEF TypeInv, Progress, Key, Args, Roles, Members

\* The role an inviter was found to have stays.
LEMMA InviterStep == RoleInv /\ [Next]_vars => InviterInv'
<1> SUFFICES ASSUME RoleInv, [Next]_vars,
                    NEW i \in Invites, pc'[i] \in {"acquire", "check", "send", "add"}
             PROVE  canInvite(role'[<<args'[i].member[1], args'[i].by>>], args'[i].role)
  BY DEF InviterInv
<1> USE DEF RoleInv
<1>1. \A k \in Members : role[k] # None => role'[k] = role[k]
  BY RolesKept
<1>2. ASSUME NEW a \in Args, CheckInviter(i, a)
      PROVE  canInvite(role'[<<args'[i].member[1], args'[i].by>>], args'[i].role)
  BY <1>2 DEF CheckInviter, TypeInv, TypeOK
<1>3. ASSUME pc[i] \in {"acquire", "check", "send", "add"}, args'[i] = args[i]
      PROVE  canInvite(role'[<<args'[i].member[1], args'[i].by>>], args'[i].role)
  <2>1. canInvite(role[<<args[i].member[1], args[i].by>>], args[i].role)
    BY <1>3 DEF InviterInv
  <2>2. role[<<args[i].member[1], args[i].by>>] # None
    BY <2>1, TeamNoneAssumption DEF canInvite, Roles
  <2>3. QED
    BY <1>1, <1>3, <2>1, <2>2, ArgsType
<1>4. (\E a \in Args : CheckInviter(i, a))
      \/ (pc[i] \in {"acquire", "check", "send", "add"} /\ args'[i] = args[i])
  <2> USE DEF TypeInv, TypeOK, Goto, Return
  <2>1. ASSUME NEW j \in Invites, NEW a \in Args, CheckInviter(j, a), j # i
        PROVE  pc[i] \in {"acquire", "check", "send", "add"} /\ args'[i] = args[i]
    BY <2>1 DEF CheckInviter
  <2>2. ASSUME NEW j \in Invites, Acquire(j) \/ AcquireFails(j) \/ AcquireCancelled(j)
                 \/ CheckMember(j) \/ SendInvite(j)
        PROVE  pc[i] \in {"acquire", "check", "send", "add"} /\ args'[i] = args[i]
    BY <2>2 DEF Acquire, AcquireFails, AcquireCancelled, CheckMember, SendInvite
  <2>3. ASSUME NEW j \in Invites,
                 SendInviteFails(j) \/ Add(j) \/ QueryFails(j) \/ Release(j) \/ Crash(j)
        PROVE  pc[i] \in {"acquire", "check", "send", "add"} /\ args'[i] = args[i]
    BY <2>3 DEF SendInviteFails, Add, QueryFails, Release, Crash
  <2>4. CASE UNCHANGED <<pc, args>>
    BY <2>4
  <2>5. QED
    BY <2>1, <2>2, <2>3, <2>4 DEF Next, CreateTeam, LockExpires, Finished, vars
<1>5. QED
  BY <1>2, <1>3, <1>4

\* Only the insert reports a success, and its row was not there before.
LEMMA ResultFrame ==
  ASSUME TypeInv, [Next]_vars, NEW i \in Invites, result'[i] = "ok"
  PROVE  /\ pc[i] # "new" /\ pc'[i] # "new" /\ args'[i] = args[i]
         /\ \/ result[i] = "ok"
            \/ role[Key(i)] = None /\ role' = [role EXCEPT ![Key(i)] = args[i].role]
         /\ \A j \in Invites : j # i /\ result[i] # "ok" => result'[j] = result[j] /\ args'[j] = args[j]
<1> USE DEF TypeInv, TypeOK, Progress, Goto, Return
<1>1. ASSUME NEW j \in Invites, NEW a \in Args, CheckInviter(j, a)
      PROVE  result[i] = "ok" /\ pc[i] # "new" /\ pc'[i] # "new" /\ args'[i] = args[i]
  BY <1>1 DEF CheckInviter
<1>2. ASSUME NEW j \in Invites, Acquire(j) \/ AcquireFails(j) \/ AcquireCancelled(j)
               \/ CheckMember(j) \/ SendInvite(j)
      PROVE  result[i] = "ok" /\ pc[i] # "new" /\ pc'[i] # "new" /\ args'[i] = args[i]
  BY <1>2 DEF Acquire, AcquireFails, AcquireCancelled, CheckMember, SendInvite
<1>3. ASSUME NEW j \in Invites,
               SendInviteFails(j) \/ QueryFails(j) \/ Release(j) \/ Crash(j)
      PROVE  result[i] = "ok" /\ pc[i] # "new" /\ pc'[i] # "new" /\ args'[i] = args[i]
  BY <1>3 DEF SendInviteFails, QueryFails, Release, Crash
<1>4. CASE UNCHANGED <<pc, args, result>>
  BY <1>4
<1>5. ASSUME NEW j \in Invites, Add(j)
      PROVE  /\ pc[i] # "new" /\ pc'[i] # "new" /\ args' = args
             /\ \/ result[i] = "ok"
                \/ /\ role[Key(i)] = None /\ role' = [role EXCEPT ![Key(i)] = args[i].role]
                   /\ \A l \in Invites : l # i => result'[l] = result[l]
  BY <1>5 DEF Add
<1>6. QED
  BY <1>1, <1>2, <1>3, <1>4, <1>5 DEF Next, CreateTeam, LockExpires, Finished, vars

\* A success stays in the table, and the next one for its key finds it there.
LEMMA SuccessStep == RoleInv /\ [Next]_vars => ResultInv' /\ OneSucceeds'
<1> SUFFICES ASSUME RoleInv, [Next]_vars PROVE ResultInv' /\ OneSucceeds'
  OBVIOUS
<1> USE DEF RoleInv
<1>1. \A k \in Members : role[k] # None => role'[k] = role[k]
  BY RolesKept
<1>2. ASSUME NEW i \in Invites, result'[i] = "ok"
      PROVE  /\ pc'[i] # "new" /\ Key(i)' = Key(i) /\ Key(i) \in Members
             /\ role'[Key(i)] = args'[i].role
  <2>1. /\ pc[i] # "new" /\ pc'[i] # "new" /\ args'[i] = args[i]
        /\ \/ result[i] = "ok"
           \/ role[Key(i)] = None /\ role' = [role EXCEPT ![Key(i)] = args[i].role]
    BY <1>2, ResultFrame
  <2>2. Key(i) \in Members /\ args[i].role # None
    BY <2>1, ArgsType
  <2>3. CASE result[i] = "ok"
    BY <1>1, <2>1, <2>2, <2>3 DEF ResultInv, Key
  <2>4. CASE role[Key(i)] = None /\ role' = [role EXCEPT ![Key(i)] = args[i].role]
    BY <2>1, <2>2, <2>4 DEF Key, TypeInv, TypeOK
  <2>5. QED
    BY <2>1, <2>3, <2>4
<1>3. ASSUME NEW i \in Invites, NEW j \in Invites, result'[i] = "ok", result'[j] = "ok",
             Key(j)' = Key(i)', i # j
      PROVE  FALSE
  <2>0. Key(i) = Key(j) /\ pc[i] # "new" /\ pc[j] # "new"
    BY <1>2, <1>3, ResultFrame
  <2>1. ~(result[i] = "ok" /\ result[j] = "ok")
    BY <1>3, <2>0 DEF OneSucceeds
  <2>2. args[i].role # None /\ args[j].role # None
    BY <2>0, ArgsType
  <2>3. /\ result[i] # "ok" => role[Key(i)] = None /\ result[j] = "ok"
        /\ result[j] # "ok" => role[Key(j)] = None /\ result[i] = "ok"
    BY <1>3, ResultFrame
  <2>4. QED
    BY <2>0, <2>1, <2>2, <2>3 DEF ResultInv
<1>4. QED
  BY <1>2, <1>3 DEF ResultInv, OneSucceeds, Key

\* What GrantedByRight says of one member.
Rightful(m, u) ==
  LET g == grantor[<<m, u>>]
  IN  CASE role[<<m, u>>] = "owner" -> g = u
        [] role[<<m, u>>] = "admin" -> g \in Users /\ role[<<m, g>>] = "owner"
        [] role[<<m, u>>] = "member" -> g \in Users /\ role[<<m, g>>] \in {"owner", "admin"}
        [] OTHER -> TRUE

\* Whoever comes in is brought in by right; all others keep grantor and role.
LEMMA GrantedStep == RoleInv /\ [Next]_vars => GrantedByRight'
<1> SUFFICES ASSUME RoleInv, [Next]_vars, NEW m \in TeamIds, NEW u \in Users
             PROVE  Rightful(m, u)'
  BY DEF GrantedByRight, Rightful
<1> USE DEF RoleInv
<1>0. <<m, u>> \in Members /\ \A v \in Users : <<m, v>> \in Members
  BY DEF Members
<1>1. \A k \in Members : role[k] # None => role'[k] = role[k]
  BY RolesKept
<1>2. ASSUME role'[<<m, u>>] = role[<<m, u>>], grantor'[<<m, u>>] = grantor[<<m, u>>]
      PROVE  Rightful(m, u)'
  BY <1>0, <1>1, <1>2, TeamNoneAssumption DEF GrantedByRight, Rightful, Roles
<1>3. ASSUME NEW n \in TeamIds, NEW v \in Users, CreateTeam(n, v), <<n, v>> = <<m, u>>
      PROVE  role'[<<m, u>>] = "owner" /\ grantor'[<<m, u>>] = u
  BY <1>0, <1>3 DEF CreateTeam, TypeInv, TypeOK
<1>4. ASSUME NEW n \in TeamIds, NEW v \in Users, CreateTeam(n, v), <<n, v>> # <<m, u>>
      PROVE  role'[<<m, u>>] = role[<<m, u>>] /\ grantor'[<<m, u>>] = grantor[<<m, u>>]
  BY <1>0, <1>4 DEF CreateTeam, TypeInv, TypeOK
<1>5. ASSUME NEW i \in Invites, Add(i), Key(i) = <<m, u>>, role' # role
      PROVE  /\ role'[<<m, u>>] = args[i].role /\ grantor'[<<m, u>>] = args[i].by
             /\ canInvite(role'[<<m, args[i].by>>], args[i].role) /\ args[i].by \in Users
             /\ args[i].role \in {"admin", "member"}
  <2>1. canInvite(role[<<args[i].member[1], args[i].by>>], args[i].role)
    BY <1>5 DEF Add, InviterInv
  <2>2. args[i].member[1] = m /\ pc[i] # "new"
    BY <1>5 DEF Add, Key
  <2>3. role[<<m, args[i].by>>] # None
    BY <2>1, <2>2, TeamNoneAssumption DEF canInvite, Roles
  <2>4. role'[<<m, args[i].by>>] = role[<<m, args[i].by>>]
    BY <1>0, <1>1, <2>2, <2>3, ArgsType
  <2>5. QED
    BY <1>0, <1>5, <2>1, <2>2, <2>4, ArgsType DEF Add, TypeInv, TypeOK
<1>6. ASSUME NEW i \in Invites, Add(i), Key(i) # <<m, u>> \/ role' = role
      PROVE  role'[<<m, u>>] = role[<<m, u>>] /\ grantor'[<<m, u>>] = grantor[<<m, u>>]
  <2>1. Key(i) \in Members /\ args[i].role # None
    BY <1>6, ArgsType DEF Add
  <2>2. QED
    BY <1>0, <1>6, <2>1 DEF Add, TypeInv, TypeOK
<1>7. CASE UNCHANGED <<role, grantor>>
  BY <1>2, <1>7
<1>8. ASSUME NEW i \in Invites, Add(i)
      PROVE  Rightful(m, u)'
  <2>1. CASE Key(i) = <<m, u>> /\ role' # role
    BY <1>5, <1>8, <2>1 DEF canInvite, Rightful
  <2>2. QED
    BY <1>2, <1>6, <1>8, <2>1
<1>9. QED
  BY <1>2, <1>3, <1>4, <1>7, <1>8 DEF Next, Rightful, CheckInviter, Acquire, AcquireFails,
     AcquireCancelled, CheckMember, SendInvite, SendInviteFails, QueryFails, Release,
     Crash, LockExpires, Finished, vars

\* The initial state.
LEMMA RoleInit == Init => RoleInv
<1> SUFFICES ASSUME Init PROVE RoleInv
  OBVIOUS
<1>1. InviterInv /\ ResultInv /\ OneSucceeds
  BY DEF Init, InviterInv, ResultInv, OneSucceeds
<1>2. \A k \in Members : role[k] = None
  BY DEF Init
<1>3. GrantedByRight
  BY <1>2, TeamNoneAssumption DEF GrantedByRight, Members, Roles
<1>4. QED
  BY <1>1, <1>3, TypeInit DEF RoleInv

\* What holds of roles and results is inductive.
LEMMA RoleStep == RoleInv /\ [Next]_vars => RoleInv'
  BY TypeStep, InviterStep, SuccessStep, GrantedStep DEF RoleInv

\* For any teams, users, invitations and faults, every role was granted by
\* somebody entitled to, although the check is long past when the row is written.
THEOREM GrantedTheorem == Spec => []GrantedByRight
<1>1. RoleInv => GrantedByRight
  BY DEF RoleInv
<1>2. QED
  BY <1>1, RoleInit, RoleStep, PTL DEF Spec

\* For any teams, users, invitations and faults, of the invitations of one user to
\* one team at most one succeeds, with or without the lock.
THEOREM SuccessTheorem == Spec => []OneSucceeds
<1>1. RoleInv => OneSucceeds
  BY DEF RoleInv
<1>2. QED
  BY <1>1, RoleInit, RoleStep, PTL DEF Spec

-----------------------------------------------------------------------------
(* Mails *)

MailInv == TypeInv /\ HolderInv /\ MailedInv /\ AloneInv /\ MailedOnce

\* A lock is set by its holder alone, ends with it, or takes it off Locking.
LEMMA HolderStep == MailInv /\ [Next]_vars => HolderInv'
<1> SUFFICES ASSUME MailInv, [Next]_vars PROVE HolderInv'
  OBVIOUS
<1> USE DEF MailInv, TypeInv, TypeOK, Progress, HolderInv, Locking, Key, Goto
<1>0. \A j \in Invites : pc[j] # "new" => args[j].member \in Members
  BY ArgsType
<1>1. ASSUME NEW i \in Invites, NEW a \in Args, CheckInviter(i, a) PROVE HolderInv'
  BY <1>1 DEF CheckInviter
<1>2. ASSUME NEW i \in Invites, Acquire(i) \/ AcquireFails(i) \/ AcquireCancelled(i)
      PROVE  HolderInv'
  <2>1. Key(i) \in Members /\ pc[i] = "acquire"
    BY <1>2, ArgsType DEF Acquire, AcquireFails, AcquireCancelled
  <2>2. \A j \in Invites : j # i => pc'[j] = pc[j]
    BY <1>2 DEF Acquire, AcquireFails, AcquireCancelled, Return
  <2>3. \/ lock' = lock
        \/ lock[Key(i)] = Nobody /\ lock' = [lock EXCEPT ![Key(i)] = i]
    BY <1>2 DEF Acquire, AcquireFails, AcquireCancelled
  <2>4. args' = args /\ expired' = expired
    BY <1>2 DEF Acquire, AcquireFails, AcquireCancelled
  <2>5. \/ held' = held
        \/ held' = held \cup {i} /\ lock' = [lock EXCEPT ![Key(i)] = i]
    BY <1>2 DEF Acquire, AcquireFails, AcquireCancelled
  <2>6. i \notin held
    BY <2>1
  <2>7. QED
    <3> SUFFICES ASSUME NEW j \in Locking', pc'[j] \in {"check", "send", "add", "release"}
                 PROVE  lock'[args[j].member] = j
      BY <2>4
    <3>1. CASE j = i
      BY <2>1, <2>4, <2>5, <2>6, <3>1
    <3>2. CASE j # i
      <4>1. j \in Locking /\ lock[args[j].member] = j /\ j \in Invites
        BY <2>2, <2>4, <2>5, <3>2
      <4>2. QED
        BY <1>0, <2>1, <2>2, <2>3, <3>2, <4>1, TeamNoneAssumption
    <3>3. QED
      BY <3>1, <3>2
<1>3. ASSUME NEW i \in Invites, CheckMember(i) \/ SendInvite(i) \/ SendInviteFails(i)
               \/ Add(i) \/ QueryFails(i)
      PROVE  HolderInv'
  <2>1. UNCHANGED <<lock, args, held, expired>> /\ pc[i] \in {"check", "send", "add"}
    BY <1>3 DEF CheckMember, SendInvite, SendInviteFails, Add, QueryFails
  <2>2. \A j \in Invites : j # i => pc'[j] = pc[j]
    BY <1>3 DEF CheckMember, SendInvite, SendInviteFails, Add, QueryFails, Return
  <2>3. QED
    BY <2>1, <2>2
<1>4. ASSUME NEW i \in Invites, Release(i) \/ Crash(i) PROVE HolderInv'
  BY <1>0, <1>4, TeamNoneAssumption DEF Release, Crash
<1>5. ASSUME NEW k \in Members, LockExpires(k) PROVE HolderInv'
  BY <1>0, <1>5 DEF LockExpires
<1>6. CASE UNCHANGED <<lock, pc, args, held, expired>>
  BY <1>6
<1>7. QED
  BY <1>1, <1>2, <1>3, <1>4, <1>5, <1>6 DEF Next, CreateTeam, Finished, vars

\* Two invitations that have the lock of one key are the same.
LEMMA OneHolder ==
  ASSUME MailInv, NEW i \in Locking, NEW j \in Locking, Key(i) = Key(j),
         pc[i] \in {"check", "send", "add", "release"},
         pc[j] \in {"check", "send", "add", "release"}
  PROVE  i = j
  BY DEF MailInv, HolderInv

\* A failure is for good.
LEMMA FailedKept ==
  ASSUME TypeInv, [Next]_vars, NEW i \in Invites, Failed(i)
  PROVE  Failed(i)'
<1> USE DEF TypeInv, TypeOK, Progress, Failed, Goto
<1>1. ASSUME NEW j \in Invites, NEW a \in Args, CheckInviter(j, a) PROVE Failed(i)'
  BY <1>1 DEF CheckInviter
<1>2. ASSUME NEW j \in Invites, Acquire(j) \/ AcquireFails(j) \/ AcquireCancelled(j)
               \/ CheckMember(j) \/ SendInvite(j)
      PROVE  Failed(i)'
  BY <1>2 DEF Acquire, AcquireFails, AcquireCancelled, CheckMember, SendInvite, Return
<1>3. ASSUME NEW j \in Invites, SendInviteFails(j) \/ Add(j) \/ QueryFails(j)
               \/ Release(j) \/ Crash(j)
      PROVE  Failed(i)'
  BY <1>3 DEF SendInviteFails, Add, QueryFails, Release, Crash, Return
<1>4. CASE UNCHANGED <<pc, result>>
  BY <1>4
<1>5. QED
  BY <1>1, <1>2, <1>3, <1>4 DEF Next, CreateTeam, LockExpires, Finished, vars

\* Only an Acquire adds to the invitations that have the lock.
LEMMA LockingFrame ==
  ASSUME TypeInv, [Next]_vars, NEW i \in Locking', pc'[i] # "check"
  PROVE  i \in Locking
<1> USE DEF TypeInv, TypeOK, Locking, Goto
<1>1. ASSUME NEW j \in Invites, Acquire(j) PROVE i \in Locking
  BY <1>1 DEF Acquire
<1>2. CASE held' = held /\ expired \subseteq expired'
  BY <1>2
<1>3. QED
  BY <1>1, <1>2 DEF Next, CreateTeam, CheckInviter, AcquireFails, AcquireCancelled,
     CheckMember, SendInvite, SendInviteFails, Add, QueryFails, Release, Crash,
     LockExpires, Finished, vars

\* How a mail comes about, and what becomes of its invitation.
LEMMA MailFrame ==
  ASSUME TypeInv, [Next]_vars, NEW i \in mailed', ~Failed(i)'
  PROVE  /\ i \in Invites /\ pc[i] # "new" /\ args'[i] = args[i] /\ ~Failed(i)
         /\ \/ i \in mailed /\ pc[i] = "add" /\ (pc'[i] = "add" \/ role'[Key(i)] # None)
            \/ i \in mailed /\ pc[i] # "add"
            \/ i \notin mailed /\ SendInvite(i)
<1>0. i \in Invites /\ pc'[i] \notin {"new", "acquire", "check", "send"}
  BY TypeStep DEF TypeInv, TypeOK, Progress
<1>1. ~Failed(i)
  BY <1>0, FailedKept
<1> USE DEF TypeInv, TypeOK, Progress, Goto
<1>2. ASSUME NEW j \in Invites, NEW a \in Args, CheckInviter(j, a)
      PROVE  i \in mailed /\ pc'[i] = pc[i] /\ args'[i] = args[i]
  BY <1>0, <1>2 DEF CheckInviter
<1>3. ASSUME NEW j \in Invites, Acquire(j) \/ AcquireFails(j) \/ AcquireCancelled(j)
               \/ CheckMember(j)
      PROVE  i \in mailed /\ pc'[i] = pc[i] /\ args'[i] = args[i]
  BY <1>0, <1>3 DEF Acquire, AcquireFails, AcquireCancelled, CheckMember, Return
<1>4. ASSUME NEW j \in Invites, SendInvite(j)
      PROVE  args'[i] = args[i] /\ (i # j => i \in mailed /\ pc'[i] = pc[i])
  BY <1>0, <1>4 DEF SendInvite
<1>5. ASSUME NEW j \in Invites, SendInviteFails(j) \/ QueryFails(j) \/ Crash(j)
      PROVE  i \in mailed /\ pc'[i] = pc[i] /\ args'[i] = args[i]
  BY <1>0, <1>5 DEF SendInviteFails, QueryFails, Crash, Return, Failed
<1>6. ASSUME NEW j \in Invites, Release(j)
      PROVE  i \in mailed /\ args'[i] = args[i] /\ (pc'[i] = pc[i] \/ pc[i] = "release")
  BY <1>6 DEF Release
<1>7. ASSUME NEW j \in Invites, Add(j)
      PROVE  /\ i \in mailed /\ args'[i] = args[i]
             /\ (pc'[i] = pc[i]) \/ (pc[i] = "add" /\ role'[Key(i)] # None)
  <2>1. j \in Invites /\ Key(j) \in Members /\ args[j].role # None
    BY <1>7, ArgsType DEF Add
  <2>2. role'[Key(j)] # None /\ pc[j] = "add"
    BY <1>7, <2>1 DEF Add
  <2>3. i \in mailed /\ args' = args /\ (i # j => pc'[i] = pc[i])
    BY <1>0, <1>7 DEF Add, Return
  <2>4. QED
    BY <2>2, <2>3
<1>8. ASSUME UNCHANGED <<mailed, pc, args>>
      PROVE  i \in mailed /\ pc'[i] = pc[i] /\ args'[i] = args[i]
  BY <1>8
<1>9. i \in mailed => pc[i] \notin {"new", "acquire", "check", "send"}
  BY <1>0
<1>10. QED
  BY <1>0, <1>1, <1>2, <1>3, <1>4, <1>5, <1>6, <1>7, <1>8, <1>9
     DEF Next, CreateTeam, LockExpires, Finished, SendInvite, vars

\* A mailed invitation that has not failed has its row, for good.
LEMMA MailedStep == MailInv /\ [Next]_vars => MailedInv'
<1> SUFFICES ASSUME MailInv, [Next]_vars, NEW i \in mailed', ~Failed(i)', pc'[i] # "add"
             PROVE  role'[Key(i)'] # None
  BY DEF MailedInv
<1> USE DEF MailInv
<1>1. /\ i \in Invites /\ pc[i] # "new" /\ Key(i)' = Key(i) /\ ~Failed(i)
      /\ \/ i \in mailed /\ pc[i] = "add" /\ role'[Key(i)] # None
         \/ i \in mailed /\ pc[i] # "add"
  BY MailFrame DEF Key, SendInvite, Goto, TypeInv, TypeOK
<1>2. CASE i \in mailed /\ pc[i] # "add"
  <2>1. role[Key(i)] # None /\ Key(i) \in Members
    BY <1>1, <1>2, ArgsType DEF MailedInv
  <2>2. QED
    BY <1>1, <2>1, RolesKept
<1>3. QED
  BY <1>1, <1>2

\* Who gets past the membership check under the lock finds no other mail.
LEMMA AloneStep == MailInv /\ [Next]_vars => AloneInv'
<1> SUFFICES ASSUME MailInv, [Next]_vars, NEW i \in Locking', NEW j \in Locking',
                    i # j, Key(i)' = Key(j)', i \in mailed',
                    pc'[j] \in {"send", "add"}, ~Failed(i)'
             PROVE  FALSE
  BY DEF AloneInv
<1> USE DEF MailInv
<1>0. i \in Invites /\ j \in Invites /\ pc'[i] \notin {"new", "acquire", "check", "send"}
  BY TypeStep DEF TypeInv, TypeOK, Progress, Locking
<1>1. i \in Locking /\ j \in Locking
  BY <1>0, LockingFrame
<1>2. /\ Key(i)' = Key(i) /\ ~Failed(i)
      /\ (i \in mailed /\ (pc[i] = "add" \/ role[Key(i)] # None)) \/ SendInvite(i)
  BY MailFrame DEF Key, MailedInv
<1>3. /\ Key(j)' = Key(j)
      /\ \/ pc[j] \in {"send", "add"}
         \/ pc[j] = "check" /\ role[Key(j)] = None /\ UNCHANGED mailed
  <2> USE DEF TypeInv, TypeOK, Goto, Key
  <2>1. ASSUME NEW l \in Invites, NEW a \in Args, CheckInviter(l, a)
        PROVE  pc[j] \in {"send", "add"} /\ Key(j)' = Key(j)
    BY <1>0, <2>1 DEF CheckInviter
  <2>2. ASSUME NEW l \in Invites, Acquire(l) \/ AcquireFails(l) \/ AcquireCancelled(l)
                 \/ SendInvite(l) \/ SendInviteFails(l)
        PROVE  pc[j] \in {"send", "add"} /\ Key(j)' = Key(j)
    BY <1>0, <2>2 DEF Acquire, AcquireFails, AcquireCancelled, SendInvite, SendInviteFails,
       Return
  <2>3. ASSUME NEW l \in Invites, Add(l) \/ QueryFails(l) \/ Release(l) \/ Crash(l)
        PROVE  pc[j] \in {"send", "add"} /\ Key(j)' = Key(j)
    BY <1>0, <2>3 DEF Add, QueryFails, Release, Crash, Return
  <2>4. ASSUME NEW l \in Invites, CheckMember(l)
        PROVE  /\ Key(j)' = Key(j)
               /\ \/ pc[j] \in {"send", "add"}
                  \/ pc[j] = "check" /\ role[Key(j)] = None /\ UNCHANGED mailed
    BY <1>0, <2>4 DEF CheckMember, Return
  <2>5. CASE UNCHANGED <<pc, args>>
    BY <2>5
  <2>6. QED
    BY <2>1, <2>2, <2>3, <2>4, <2>5 DEF Next, CreateTeam, LockExpires, Finished, vars
<1>4. CASE i \in mailed /\ pc[j] \in {"send", "add"}
  BY <1>1, <1>2, <1>3, <1>4 DEF AloneInv
<1>5. CASE i \in mailed /\ pc[j] = "check"
  BY <1>1, <1>2, <1>3, <1>5, OneHolder DEF SendInvite, Goto, TypeInv, Progress
<1>6. CASE i \notin mailed
  BY <1>0, <1>1, <1>2, <1>3, <1>6, OneHolder DEF SendInvite, Goto
<1>7. QED
  BY <1>3, <1>4, <1>5, <1>6

\* A second mail is sent only next to failed ones.
LEMMA MailedOnceStep == MailInv /\ [Next]_vars => MailedOnce'
<1> SUFFICES ASSUME MailInv, [Next]_vars, NEW i \in mailed', NEW j \in mailed',
                    i \in Locking', j \in Locking', Key(i)' = Key(j)', i # j,
                    ~Failed(i)', ~Failed(j)'
             PROVE  FALSE
  BY DEF MailedOnce, Locking
<1> USE DEF MailInv
<1>1. \A l \in mailed' : pc'[l] # "check"
  BY TypeStep DEF TypeInv, TypeOK, Progress
<1>2. i \in Locking /\ j \in Locking
  BY <1>1, LockingFrame
<1>3. /\ Key(i)' = Key(i) /\ ~Failed(i) /\ (i \in mailed \/ SendInvite(i))
      /\ Key(j)' = Key(j) /\ ~Failed(j) /\ (j \in mailed \/ SendInvite(j))
  BY MailFrame DEF Key
<1>4. CASE i \in mailed /\ j \in mailed
  BY <1>2, <1>3, <1>4 DEF MailedOnce, Locking
<1>5. CASE i \notin mailed
  BY <1>2, <1>3, <1>5 DEF SendInvite, Goto, AloneInv
<1>6. CASE j \notin mailed
  BY <1>2, <1>3, <1>6 DEF SendInvite, Goto, AloneInv
<1>7. QED
  BY <1>4, <1>5, <1>6

\* For any teams, users, invitations and faults, two invitations that had the
\* lock as long as they ran do not both mail the same user, unless one failed.
THEOREM MailTheorem == Spec => []MailedOnce
<1>1. Init => MailInv
  BY TypeInit DEF Init, MailInv, HolderInv, MailedInv, AloneInv, MailedOnce, Locking
<1>2. MailInv /\ [Next]_vars => MailInv'
  BY TypeStep, HolderStep, MailedStep, AloneStep, MailedOnceStep DEF MailInv
<1>3. MailInv => MailedOnce
  BY DEF MailInv
<1>4. QED
  BY <1>1, <1>2, <1>3, PTL DEF Spec
=============================================================================
