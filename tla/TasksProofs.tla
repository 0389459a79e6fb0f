---------------------------- MODULE TasksProofs ----------------------------
(***************************************************************************)
(* Tasks, their history and their comments, for any number of teams,       *)
(* users, tasks and callers: the history accounts for every task, and      *)
(* checks that were made before a write still hold when it is made.        *)
(***************************************************************************)
EXTENDS Tasks, TLAPS

Transactions == {"update", "update_commit", "delete", "delete_commit"}

\* The patches: some fields with values.
Patches == UNION {[F -> Values] : F \in SUBSET Fields}

\* A function on the fields with a title and an assignee is a row's values.
LEMMA ValsType ==
  ASSUME NEW g, g = [f \in Fields |-> g[f]],
         g["title"] \in Titles, g["assignee_id"] \in Users \cup {None}
  PROVE  g \in Vals
  BY DEF Vals, Fields

\* The values of a row.
LEMMA ValsFields ==
  ASSUME NEW g \in Vals
  PROVE  /\ g["title"] \in Titles /\ g["assignee_id"] \in Users \cup {None}
         /\ \A f \in Fields : g[f] \in Values
         /\ DOMAIN g = Fields
  BY DEF Vals, Fields, Values

\* What a caller has in hand.
LEMMA CallType ==
  ASSUME NEW k \in CallStates
  PROVE  /\ k.op = "create" => k.row \in TaskRows
         /\ k.op \in Transactions => k.user \in Users /\ k.task \in TaskIds /\ k.row \in TaskRows
         /\ k.op = "update_commit" => k.diff \in Patches
         /\ k.op = "comment" => k.user \in Users /\ k.task \in TaskIds
         /\ k.op \in {"edit", "remove"} => k.user \in Users /\ k.comment \in CommentIds
         /\ k = Idle => k.op = "idle"
  BY DEF CallStates, Idle, Transactions, Patches

\* One more entry leads one value further.
LEMMA LeadsAppend ==
  ASSUME NEW h \in Seq(Entries), NEW e \in Entries, NEW v, NEW w,
         Leads(h, v, w), e.old = w, e.old # e.new
  PROVE  Leads(Append(h, e), v, e.new)
  BY DEF Leads

-----------------------------------------------------------------------------
(* Types *)

\* What the checks of a request let through has the types of the columns.
LEMMA BodyType ==
  ASSUME NEW body \in Bodies, NEW m, Parses(m, body)
  PROVE  /\ DOMAIN body \subseteq Fields
         /\ \A f \in DOMAIN body : body[f] \in isValid(f) /\ body[f] \in Values
         /\ body \in Patches
<1>1. PICK F \in SUBSET Fields : body \in [F -> Values \cup {"bogus"}]
  BY DEF Bodies
<1>2. \A f \in F : body[f] \in isValid(f) /\ body[f] \in Values
  BY <1>1 DEF Parses, isValid, Values, Fields
<1>3. body \in [F -> Values]
  BY <1>1, <1>2
<1>4. QED
  BY <1>1, <1>2, <1>3 DEF Patches

\* The patch that UpdateWrite keeps is one too, of valid values.
LEMMA DiffType ==
  ASSUME NEW body \in Bodies, NEW m, Parses(m, body), NEW val \in Vals
  PROVE  /\ Diff(val, body) \in Patches
         /\ DOMAIN Diff(val, body) \subseteq DOMAIN body
         /\ \A f \in DOMAIN Diff(val, body) :
              /\ Diff(val, body)[f] = body[f] /\ body[f] # val[f]
              /\ body[f] \in isValid(f)
<1> DEFINE G == {g \in DOMAIN body : body[g] # val[g]}
<1>1. G \in SUBSET Fields /\ \A f \in G : body[f] \in Values /\ body[f] \in isValid(f)
  BY BodyType
<1>2. Diff(val, body) = [f \in G |-> body[f]]
  BY DEF Diff
<1>3. Diff(val, body) \in [G -> Values]
  BY <1>1, <1>2
<1> HIDE DEF G
<1>4. Diff(val, body) \in Patches
  BY <1>1, <1>3 DEF Patches
<1>5. G \subseteq DOMAIN body /\ \A f \in G : body[f] # val[f]
  BY DEF G
<1>6. QED
  BY <1>1, <1>2, <1>4, <1>5

\* A diff in hand has valid values.
ValidDiff ==
  \A c \in Callers : call[c].op = "update_commit" =>
    \A f \in DOMAIN call[c].diff : call[c].diff[f] \in isValid(f)

TypeInv == TypeOK /\ ValidDiff

\* The initial state.
LEMMA TypeInit == Init => TypeInv
  BY DEF Init, TypeInv, TypeOK, ValidDiff, CallStates, Idle, NoHistory, Fields, Roles

\* An update gives a row its new values.
LEMMA UpdateTxType ==
  ASSUME NEW val \in Vals, NEW diff, DOMAIN diff \subseteq Fields,
         \A f \in DOMAIN diff : diff[f] \in isValid(f)
  PROVE  /\ UpdateTx(val, diff) \in Vals
         /\ \A f \in Fields : UpdateTx(val, diff)[f] = IF f \in DOMAIN diff THEN diff[f] ELSE val[f]
<1> DEFINE g == UpdateTx(val, diff)
<1>1. /\ g = [f \in Fields |-> g[f]]
      /\ \A f \in Fields : g[f] = IF f \in DOMAIN diff THEN diff[f] ELSE val[f]
  BY DEF UpdateTx
<1>2. "title" \in Fields /\ "assignee_id" \in Fields
  BY DEF Fields
<1>3. g["title"] \in Titles /\ g["assignee_id"] \in Users \cup {None}
  BY <1>1, <1>2, ValsFields DEF isValid
<1>4. g \in Vals
  BY <1>1, <1>3, ValsType
<1>5. QED
  BY <1>1, <1>4

\* The entries of an update are entries.
LEMMA BatchType ==
  ASSUME TypeInv, NEW c \in Callers, call[c].op = "update_commit"
  PROVE  /\ CreateBatchTx(call[c]) \in [Fields -> Seq(Entries)]
         /\ \A f \in DOMAIN call[c].diff :
              [old |-> call[c].row.val[f], new |-> call[c].diff[f], by |-> call[c].user] \in Entries
<1> DEFINE k == call[c]
<1>1. k.user \in Users /\ k.task \in TaskIds /\ k.row \in TaskRows /\ k.diff \in Patches
  BY CallType DEF TypeInv, TypeOK, Transactions
<1>2. k.row.val \in Vals
  BY <1>1 DEF TaskRows
<1>3. \A f \in Fields : k.row.val[f] \in Values
  BY <1>2, ValsFields
<1>4. DOMAIN k.diff \subseteq Fields /\ \A f \in DOMAIN k.diff : k.diff[f] \in Values
  BY <1>1 DEF Patches
<1>5. \A f \in DOMAIN k.diff : [old |-> k.row.val[f], new |-> k.diff[f], by |-> k.user] \in Entries
  BY <1>1, <1>3, <1>4 DEF Entries
<1>6. \A f \in Fields : history[k.task][f] \in Seq(Entries)
  BY <1>1 DEF TypeInv, TypeOK
<1> HIDE DEF k
<1>7. CreateBatchTx(k) \in [Fields -> Seq(Entries)]
  BY <1>5, <1>6 DEF CreateBatchTx
<1>8. QED
  BY <1>5, <1>7 DEF k

\* A caller's next state, when it is not about to commit an update.
LEMMA BecomeType ==
  ASSUME TypeInv, NEW c \in Callers, NEW k \in CallStates, Become(c, k)
  PROVE  /\ call' \in [Callers -> CallStates]
         /\ call'[c] = k /\ \A d \in Callers : d # c => call'[d] = call[d]
         /\ k.op # "update_commit" => ValidDiff'
  BY DEF Become, TypeInv, TypeOK, ValidDiff

\* A transaction that ends gives back its rows.
LEMMA UnlockType ==
  ASSUME TypeInv, NEW c \in Callers, Unlock(c)
  PROVE  /\ rowLock' \in [TaskIds -> Callers \cup {None}]
         /\ \A t \in TaskIds : rowLock'[t] = IF rowLock[t] = c THEN None ELSE rowLock[t]
  BY DEF Unlock, TypeInv, TypeOK

\* Being idle is one of the states.
LEMMA IdleType == Idle \in CallStates /\ Idle.op = "idle"
  BY DEF CallStates, Idle

\* No history is a history.
LEMMA NoHistoryType == NoHistory \in [Fields -> Seq(Entries)]
  BY DEF NoHistory

\* Each step that creates a task keeps the types.
LEMMA CreateTypes ==
  ASSUME TypeInv, NEW c \in Callers,
         \/ \E u \in Users, m \in Teams, body \in Bodies : CreateCheck(c, u, m, body)
         \/ \E t \in TaskIds : CreateInsert(c, t)
  PROVE  TypeInv'
<1>1. ASSUME NEW u \in Users, NEW m \in Teams, NEW body \in Bodies, CreateCheck(c, u, m, body)
      PROVE  TypeInv'
  <2> DEFINE val == [f \in Fields |-> IF f \in DOMAIN body THEN body[f] ELSE None]
             k == [op |-> "create", row |-> [team |-> m, val |-> val]]
  <2>1. /\ DOMAIN body \subseteq Fields /\ "title" \in DOMAIN body
        /\ \A f \in DOMAIN body : body[f] \in isValid(f)
    BY <1>1, BodyType DEF CreateCheck
  <2>2. val["title"] \in Titles /\ val["assignee_id"] \in Users \cup {None}
    BY <2>1 DEF Fields, isValid
  <2>3. val \in Vals
    <3>1. val = [f \in Fields |-> val[f]]
      OBVIOUS
    <3> HIDE DEF val
    <3>2. QED
      BY <2>2, <3>1, ValsType
  <2>4. Become(c, k)
    BY <1>1 DEF CreateCheck
  <2> HIDE DEF val
  <2>5. k \in CallStates /\ k.op = "create"
    BY <2>3 DEF CallStates, TaskRows
  <2> HIDE DEF k
  <2>6. call' \in [Callers -> CallStates] /\ ValidDiff'
    BY <2>4, <2>5, BecomeType
  <2>7. QED
    BY <1>1, <2>6 DEF CreateCheck, TypeInv, TypeOK
<1>2. ASSUME NEW t \in TaskIds, CreateInsert(c, t) PROVE TypeInv'
  <2>1. call[c].row \in TaskRows /\ call[c].row.val \in Vals
    BY <1>2, CallType DEF CreateInsert, TypeInv, TypeOK, TaskRows
  <2>2. call' \in [Callers -> CallStates] /\ ValidDiff'
    BY <1>2, BecomeType, IdleType DEF CreateInsert
  <2>3. QED
    BY <1>2, <2>1, <2>2 DEF CreateInsert, TypeInv, TypeOK
<1>3. QED
  BY <1>1, <1>2

\* Each step that updates or deletes a task does.
LEMMA UpdateTypes ==
  ASSUME TypeInv, NEW c \in Callers,
         \/ \E u \in Users, t \in TaskIds : Update(c, u, t) \/ Delete(c, u, t)
         \/ \E patch \in Bodies : UpdateWrite(c, patch)
         \/ UpdateCommit(c) \/ DeleteWrite(c) \/ DeleteCommit(c) \/ Rollback(c)
  PROVE  TypeInv'
<1>1. ASSUME NEW u \in Users, NEW t \in TaskIds, NEW op \in {"update", "delete"},
             SelectForUpdate(c, u, t, op)
      PROVE  TypeInv'
  <2> DEFINE k == [op |-> op, user |-> u, task |-> t, row |-> tasks[t]]
  <2>1. k \in CallStates /\ k.op # "update_commit"
    BY <1>1 DEF SelectForUpdate, TypeInv, TypeOK, CallStates
  <2>2. call' \in [Callers -> CallStates] /\ ValidDiff'
    BY <1>1, <2>1, BecomeType DEF SelectForUpdate
  <2>3. QED
    BY <1>1, <2>2 DEF SelectForUpdate, TypeInv, TypeOK
<1>2. ASSUME NEW patch \in Bodies, UpdateWrite(c, patch) PROVE TypeInv'
  <2> DEFINE diff == Diff(call[c].row.val, patch)
             k == [op |-> "update_commit", user |-> call[c].user, task |-> call[c].task,
                   row |-> call[c].row, diff |-> diff]
  <2>1. call[c].user \in Users /\ call[c].task \in TaskIds /\ call[c].row \in TaskRows
    BY <1>2, CallType DEF UpdateWrite, TypeInv, TypeOK, Transactions
  <2>2. diff \in Patches /\ \A f \in DOMAIN diff : diff[f] \in isValid(f)
    BY <1>2, <2>1, DiffType DEF UpdateWrite, TaskRows
  <2>3. Become(c, k)
    BY <1>2 DEF UpdateWrite
  <2> HIDE DEF diff
  <2>4. k \in CallStates /\ k.diff = diff
    BY <2>1, <2>2 DEF CallStates, Patches
  <2> HIDE DEF k
  <2>5. call' \in [Callers -> CallStates] /\ ValidDiff'
    BY <2>2, <2>3, <2>4, BecomeType DEF ValidDiff, TypeInv
  <2>6. QED
    BY <1>2, <2>5 DEF UpdateWrite, TypeInv, TypeOK
<1>3. CASE UpdateCommit(c)
  <2> DEFINE k == call[c]
  <2>1. /\ k.task \in TaskIds /\ tasks[k.task] \in TaskRows /\ DOMAIN k.diff \subseteq Fields
        /\ \A f \in DOMAIN k.diff : k.diff[f] \in isValid(f)
    BY <1>3, CallType DEF UpdateCommit, TypeInv, TypeOK, ValidDiff, Transactions, Patches
  <2>2. UpdateTx(tasks[k.task].val, k.diff) \in Vals
    BY <2>1, UpdateTxType DEF TaskRows
  <2>3. tasks' \in [TaskIds -> TaskRows \cup {None}]
    BY <1>3, <2>1, <2>2 DEF UpdateCommit, TypeInv, TypeOK, TaskRows
  <2>4. history' \in [TaskIds -> [Fields -> Seq(Entries)]]
    BY <1>3, <2>1, BatchType DEF UpdateCommit, TypeInv, TypeOK
  <2>5. call' \in [Callers -> CallStates] /\ ValidDiff'
    BY <1>3, BecomeType, IdleType DEF UpdateCommit
  <2>6. QED
    BY <1>3, <2>3, <2>4, <2>5, UnlockType DEF UpdateCommit, TypeInv, TypeOK
<1>4. CASE DeleteWrite(c)
  <2> DEFINE k == [op |-> "delete_commit", user |-> call[c].user, task |-> call[c].task,
                   row |-> call[c].row]
  <2>1. call[c].user \in Users /\ call[c].task \in TaskIds /\ call[c].row \in TaskRows
    BY <1>4, CallType DEF DeleteWrite, TypeInv, TypeOK, Transactions
  <2>2. k \in CallStates /\ k.op # "update_commit"
    BY <2>1 DEF CallStates
  <2>3. call' \in [Callers -> CallStates] /\ ValidDiff'
    BY <1>4, <2>2, BecomeType DEF DeleteWrite
  <2>4. QED
    BY <1>4, <2>3 DEF DeleteWrite, TypeInv, TypeOK
<1>5. CASE DeleteCommit(c)
  <2>1. call' \in [Callers -> CallStates] /\ ValidDiff'
    BY <1>5, BecomeType, IdleType DEF DeleteCommit
  <2>2. comments' \in [CommentIds -> CommentRows \cup {None}]
    BY <1>5 DEF DeleteCommit, Cascade, TypeInv, TypeOK
  <2>3. history' \in [TaskIds -> [Fields -> Seq(Entries)]]
    BY <1>5, NoHistoryType DEF DeleteCommit, TypeInv, TypeOK
  <2>4. tasks' \in [TaskIds -> TaskRows \cup {None}]
    BY <1>5 DEF DeleteCommit, TypeInv, TypeOK
  <2>5. rowLock' \in [TaskIds -> Callers \cup {None}]
    BY <1>5, UnlockType DEF DeleteCommit
  <2>6. QED
    BY <1>5, <2>1, <2>2, <2>3, <2>4, <2>5 DEF DeleteCommit, TypeInv, TypeOK
<1>6. CASE Rollback(c)
  <2>1. call' \in [Callers -> CallStates] /\ ValidDiff'
    BY <1>6, BecomeType, IdleType DEF Rollback
  <2>2. QED
    BY <1>6, <2>1, UnlockType DEF Rollback, TypeInv, TypeOK
<1>7. QED
  BY <1>1, <1>2, <1>3, <1>4, <1>5, <1>6 DEF Update, Delete

\* Each step of a comment does, and so does a member who joins.
LEMMA CommentTypes ==
  ASSUME TypeInv, NEW c \in Callers,
         \/ \E u \in Users, t \in TaskIds : CommentCheck(c, u, t)
         \/ \E m \in CommentIds : CommentInsert(c, m)
         \/ \E u \in Users, m \in CommentIds, op \in {"edit", "remove"} : EditCheck(c, u, m, op)
         \/ CommentUpdate(c) \/ CommentDelete(c) \/ StatementFails(c)
  PROVE  TypeInv'
<1>1. ASSUME NEW u \in Users, NEW t \in TaskIds, CommentCheck(c, u, t) PROVE TypeInv'
  <2> DEFINE k == [op |-> "comment", user |-> u, task |-> t]
  <2>1. k \in CallStates /\ k.op # "update_commit"
    BY DEF CallStates
  <2>2. call' \in [Callers -> CallStates] /\ ValidDiff'
    BY <1>1, <2>1, BecomeType DEF CommentCheck
  <2>3. QED
    BY <1>1, <2>2 DEF CommentCheck, TypeInv, TypeOK
<1>2. ASSUME NEW m \in CommentIds, CommentInsert(c, m) PROVE TypeInv'
  <2>1. call[c].user \in Users /\ call[c].task \in TaskIds
    BY <1>2, CallType DEF CommentInsert, TypeInv, TypeOK
  <2>2. [task |-> call[c].task, user |-> call[c].user, by |-> call[c].user] \in CommentRows
    BY <2>1 DEF CommentRows
  <2>3. call' \in [Callers -> CallStates] /\ ValidDiff'
    BY <1>2, BecomeType, IdleType DEF CommentInsert
  <2>4. QED
    BY <1>2, <2>2, <2>3 DEF CommentInsert, TypeInv, TypeOK
<1>3. ASSUME NEW u \in Users, NEW m \in CommentIds, NEW op \in {"edit", "remove"},
             EditCheck(c, u, m, op)
      PROVE  TypeInv'
  <2> DEFINE k == [op |-> op, user |-> u, comment |-> m]
  <2>1. k \in CallStates /\ k.op # "update_commit"
    BY DEF CallStates
  <2>2. call' \in [Callers -> CallStates] /\ ValidDiff'
    BY <1>3, <2>1, BecomeType DEF EditCheck
  <2>3. QED
    BY <1>3, <2>2 DEF EditCheck, TypeInv, TypeOK
<1>4. CASE CommentUpdate(c)
  <2>1. call[c].user \in Users /\ call[c].comment \in CommentIds
    BY <1>4, CallType DEF CommentUpdate, TypeInv, TypeOK
  <2>2. comments' \in [CommentIds -> CommentRows \cup {None}]
    <3>1. ASSUME comments[call[c].comment] # None
          PROVE  [comments[call[c].comment] EXCEPT !.by = call[c].user] \in CommentRows
      BY <2>1, <3>1 DEF TypeInv, TypeOK, CommentRows
    <3>2. QED
      BY <1>4, <2>1, <3>1 DEF CommentUpdate, TypeInv, TypeOK
  <2>3. call' \in [Callers -> CallStates] /\ ValidDiff'
    BY <1>4, BecomeType, IdleType DEF CommentUpdate
  <2>4. QED
    BY <1>4, <2>2, <2>3 DEF CommentUpdate, TypeInv, TypeOK
<1>5. CASE CommentDelete(c)
  <2>1. call' \in [Callers -> CallStates] /\ ValidDiff'
    BY <1>5, BecomeType, IdleType DEF CommentDelete
  <2>2. QED
    BY <1>5, <2>1 DEF CommentDelete, TypeInv, TypeOK
<1>6. CASE StatementFails(c)
  <2>1. call' \in [Callers -> CallStates] /\ ValidDiff'
    BY <1>6, BecomeType, IdleType DEF StatementFails
  <2>2. QED
    BY <1>6, <2>1 DEF StatementFails, TypeInv, TypeOK
<1>7. QED
  BY <1>1, <1>2, <1>3, <1>4, <1>5, <1>6

\* So every step keeps the types.
LEMMA TypeStep == TypeInv /\ [Next]_vars => TypeInv'
<1> SUFFICES ASSUME TypeInv, [Next]_vars PROVE TypeInv'
  OBVIOUS
<1>1. ASSUME NEW m \in Teams, NEW u \in Users, NEW r \in {"admin", "member"}, Join(m, u, r)
      PROVE  TypeInv'
  BY <1>1 DEF Join, TypeInv, TypeOK, ValidDiff, Roles
<1>2. CASE UNCHANGED vars
  BY <1>2 DEF vars, TypeInv, TypeOK, ValidDiff
<1>3. QED
  BY <1>1, <1>2, CreateTypes, UpdateTypes, CommentTypes DEF Next

\* Rows, histories, comments and calls in flight hold only what the checks of a
\* request let through, whatever clients send.
THEOREM TypeTheorem == Spec => []TypeOK
<1>1. TypeInv => TypeOK
  BY DEF TypeInv
<1>2. QED
  BY <1>1, TypeInit, TypeStep, PTL DEF Spec

-----------------------------------------------------------------------------
(* What callers hold and have checked *)

\* A transaction holds its row, and the row is as it read it.
LockInv ==
  \A c \in Callers : call[c].op \in Transactions =>
    rowLock[call[c].task] = c /\ tasks[call[c].task] = call[c].row

\* An id is used once, and there is no history before it is.
CreatedInv ==
  \A t \in TaskIds :
    /\ tasks[t] # None => created[t] # None
    /\ created[t] = None => history[t] = NoHistory

\* The checks of a create and of an update still hold when they are written.
CreateOK(c) ==
  call[c].op = "create" => AssigneeOK(call[c].row.team, call[c].row.val)
UpdateOK(c) ==
  call[c].op = "update_commit" =>
    /\ AssigneeOK(call[c].row.team, call[c].diff)
    /\ IsMember(call[c].row.team, call[c].user)
    /\ \A f \in DOMAIN call[c].diff :
         /\ call[c].diff[f] # call[c].row.val[f]
         /\ f = "title" => IsManager(call[c].row.team, call[c].user)
CheckedInv == \A c \in Callers : CreateOK(c) /\ UpdateOK(c)

\* Comment ids are used once, and whoever is about to change a comment is its
\* author or a manager of the team, or the comment is gone.
EditOK(c, m) ==
  /\ m \in posted
  /\ comments[m] # None =>
       \/ comments[m].user = call[c].user
       \/ IsManager(tasks[comments[m].task].team, call[c].user)
EditInv ==
  /\ \A m \in CommentIds : comments[m] # None => m \in posted
  /\ \A c \in Callers, m \in CommentIds :
       call[c].op \in {"edit", "remove"} /\ call[c].comment = m => EditOK(c, m)

Safety ==
  /\ TypeInv /\ LockInv /\ CreatedInv /\ CheckedInv /\ EditInv
  /\ AuditChain /\ AuditAuthority /\ AssigneeIsMember /\ NoOrphanComment /\ CommentAuthority

\* The initial state.
LEMMA SafetyInit == Init => Safety
<1> SUFFICES ASSUME Init PROVE Safety
  OBVIOUS
<1>1. TypeInv
  BY TypeInit
<1>2. \A c \in Callers : call[c].op = "idle"
  BY DEF Init, Idle
<1>3. LockInv /\ CreatedInv /\ CheckedInv /\ EditInv
  BY <1>2 DEF Init, LockInv, CreatedInv, CheckedInv, CreateOK, UpdateOK, EditInv,
                 Transactions
<1>4. AuditChain /\ AuditAuthority /\ AssigneeIsMember /\ NoOrphanComment /\ CommentAuthority
  BY DEF Init, AuditChain, AuditAuthority, AssigneeIsMember, FindTasksWithAssigneeNotMember,
         NoOrphanComment, CommentAuthority
<1>5. QED
  BY <1>1, <1>3, <1>4 DEF Safety

\* Nobody leaves a team or changes role.
LEMMA RolesStay ==
  ASSUME TypeInv, [Next]_vars
  PROVE  \A m \in Teams, u \in Users :
           /\ IsMember(m, u) => IsMember(m, u)'
           /\ IsManager(m, u) => IsManager(m, u)'
<1>1. \A m \in Teams, u \in Users : role[m][u] # None => role'[m][u] = role[m][u]
  <2>1. ASSUME NEW m \in Teams, NEW u \in Users, NEW r \in {"admin", "member"}, Join(m, u, r)
        PROVE  \A n \in Teams, v \in Users : role[n][v] # None => role'[n][v] = role[n][v]
    BY <2>1 DEF Join, TypeInv, TypeOK
  <2>2. ASSUME NEW c \in Callers,
               \/ \E u \in Users, m \in Teams, body \in Bodies : CreateCheck(c, u, m, body)
               \/ \E t \in TaskIds : CreateInsert(c, t)
               \/ \E u \in Users, t \in TaskIds : Update(c, u, t) \/ Delete(c, u, t)
               \/ \E patch \in Bodies : UpdateWrite(c, patch)
               \/ UpdateCommit(c) \/ DeleteWrite(c) \/ DeleteCommit(c) \/ Rollback(c)
        PROVE  role' = role
    BY <2>2 DEF CreateCheck, CreateInsert, Update, Delete, SelectForUpdate, UpdateWrite,
                UpdateCommit, DeleteWrite, DeleteCommit, Rollback
  <2>3. ASSUME NEW c \in Callers,
               \/ \E u \in Users, t \in TaskIds : CommentCheck(c, u, t)
               \/ \E m \in CommentIds : CommentInsert(c, m)
               \/ \E u \in Users, m \in CommentIds, op \in {"edit", "remove"} : EditCheck(c, u, m, op)
               \/ CommentUpdate(c) \/ CommentDelete(c) \/ StatementFails(c)
        PROVE  role' = role
    BY <2>3 DEF CommentCheck, CommentInsert, EditCheck, CommentUpdate, CommentDelete, StatementFails
  <2>4. CASE UNCHANGED vars
    BY <2>4 DEF vars
  <2>5. QED
    BY <2>1, <2>2, <2>3, <2>4 DEF Next
<1>2. None \notin {"owner", "admin"}
  BY TasksNoneAssumption DEF Roles
<1>3. QED
  BY <1>1, <1>2 DEF IsMember, IsManager

\* Only the caller that takes a step moves on.
LEMMA CallAfter ==
  ASSUME TypeInv, NEW c \in Callers, NEW k, Become(c, k)
  PROVE  call'[c] = k /\ \A d \in Callers : d # c => call'[d] = call[d]
  BY DEF Become, TypeInv, TypeOK

\* Rows under a lock do not change, and a transaction keeps its lock to its end.
LEMMA LockStep ==
  ASSUME TypeInv, LockInv, CreatedInv, [Next]_vars
  PROVE  LockInv'
<1>1. ASSUME NEW c \in Callers PROVE c # None
  BY TasksNoneAssumption
<1>2. ASSUME NEW c \in Callers, call[c].op \in Transactions
      PROVE  /\ call[c].task \in TaskIds /\ call[c].row \in TaskRows
             /\ rowLock[call[c].task] = c /\ tasks[call[c].task] = call[c].row
             /\ tasks[call[c].task] # None /\ created[call[c].task] # None
  BY <1>2, CallType, TasksNoneAssumption DEF LockInv, TypeInv, TypeOK, CreatedInv
<1>3. ASSUME NEW c \in Callers, NEW k, Become(c, k), k.op \notin Transactions,
             \A d \in Callers : d # c /\ call[d].op \in Transactions =>
               rowLock'[call[d].task] = d /\ tasks'[call[d].task] = tasks[call[d].task]
      PROVE  LockInv'
  BY <1>2, <1>3, CallAfter DEF LockInv
<1>4. ASSUME NEW c \in Callers, NEW k, Become(c, k), call[c].op \in Transactions,
             k.task = call[c].task, k.row = call[c].row, UNCHANGED <<rowLock, tasks>>
      PROVE  LockInv'
  BY <1>2, <1>4, CallAfter DEF LockInv
<1>5. ASSUME NEW m \in Teams, NEW u \in Users, NEW r \in {"admin", "member"}, Join(m, u, r)
      PROVE  LockInv'
  BY <1>5 DEF Join, LockInv
<1>6. ASSUME NEW c \in Callers, NEW u \in Users, NEW m \in Teams, NEW body \in Bodies,
             CreateCheck(c, u, m, body)
      PROVE  LockInv'
  <2>1. PICK k : Become(c, k) /\ k.op = "create"
    BY <1>6 DEF CreateCheck
  <2>2. QED
    BY <1>2, <1>3, <1>6, <2>1 DEF CreateCheck, Transactions
<1>7. ASSUME NEW c \in Callers, NEW t \in TaskIds, CreateInsert(c, t)
      PROVE  LockInv'
  <2>1. ASSUME NEW d \in Callers, call[d].op \in Transactions
        PROVE  rowLock'[call[d].task] = d /\ tasks'[call[d].task] = tasks[call[d].task]
    <3>1. call[d].task \in TaskIds /\ call[d].task # t /\ rowLock[call[d].task] = d
      BY <1>2, <1>7, <2>1 DEF CreateInsert
    <3>2. QED
      BY <1>7, <3>1 DEF CreateInsert, TypeInv, TypeOK
  <2>2. Become(c, Idle) /\ Idle.op \notin Transactions
    BY <1>7, IdleType DEF CreateInsert, Transactions
  <2>3. QED
    BY <1>3, <2>1, <2>2
<1>8. ASSUME NEW c \in Callers, NEW u \in Users, NEW t \in TaskIds, NEW op \in {"update", "delete"},
             SelectForUpdate(c, u, t, op)
      PROVE  LockInv'
  <2>1. ASSUME NEW d \in Callers, d # c, call[d].op \in Transactions
        PROVE  call[d].task # t
    BY <1>1, <1>2, <1>8, <2>1 DEF SelectForUpdate, RowFree
  <2>2. call'[c].op = op /\ call'[c].task = t /\ call'[c].row = tasks[t]
    BY <1>8, CallAfter DEF SelectForUpdate
  <2>3. \A d \in Callers : d # c => call'[d] = call[d]
    BY <1>8, CallAfter DEF SelectForUpdate
  <2>4. /\ rowLock'[t] = c /\ \A x \in TaskIds : x # t => rowLock'[x] = rowLock[x]
        /\ tasks' = tasks
    BY <1>8 DEF SelectForUpdate, TypeInv, TypeOK
  <2>5. ASSUME NEW d \in Callers, call'[d].op \in Transactions
        PROVE  rowLock'[call'[d].task] = d /\ tasks'[call'[d].task] = call'[d].row
    <3>1. CASE d = c
      BY <2>2, <2>4, <3>1
    <3>2. CASE d # c
      BY <1>2, <2>1, <2>3, <2>4, <2>5, <3>2 DEF LockInv
    <3>3. QED
      BY <3>1, <3>2
  <2>6. QED
    BY <2>5 DEF LockInv
<1>9. ASSUME NEW c \in Callers, NEW patch \in Bodies, UpdateWrite(c, patch)
      PROVE  LockInv'
  BY <1>4, <1>9 DEF UpdateWrite, Transactions
<1>10. ASSUME NEW c \in Callers, Unlock(c), Become(c, Idle),
              \A t \in TaskIds : rowLock[t] # c => tasks'[t] = tasks[t]
       PROVE  LockInv'
  BY <1>2, <1>3, <1>10, UnlockType, IdleType DEF Transactions
<1>11. ASSUME NEW c \in Callers, UpdateCommit(c) PROVE LockInv'
  BY <1>2, <1>10, <1>11 DEF UpdateCommit, Transactions, TypeInv, TypeOK
<1>12. ASSUME NEW c \in Callers, DeleteWrite(c) PROVE LockInv'
  BY <1>4, <1>12 DEF DeleteWrite, Transactions
<1>13. ASSUME NEW c \in Callers, DeleteCommit(c) PROVE LockInv'
  BY <1>2, <1>10, <1>13 DEF DeleteCommit, Transactions, TypeInv, TypeOK
<1>14. ASSUME NEW c \in Callers, Rollback(c) PROVE LockInv'
  BY <1>10, <1>14 DEF Rollback
<1>15. ASSUME NEW c \in Callers, NEW u \in Users, NEW t \in TaskIds, CommentCheck(c, u, t)
       PROVE  LockInv'
  BY <1>2, <1>3, <1>15 DEF CommentCheck, Transactions
<1>16. ASSUME NEW c \in Callers, NEW m \in CommentIds, CommentInsert(c, m)
       PROVE  LockInv'
  BY <1>2, <1>3, <1>16, IdleType DEF CommentInsert, Transactions
<1>17. ASSUME NEW c \in Callers, NEW u \in Users, NEW m \in CommentIds,
              NEW op \in {"edit", "remove"}, EditCheck(c, u, m, op)
       PROVE  LockInv'
  BY <1>2, <1>3, <1>17 DEF EditCheck, Transactions
<1>18. ASSUME NEW c \in Callers, CommentUpdate(c) \/ CommentDelete(c) \/ StatementFails(c)
       PROVE  LockInv'
  BY <1>2, <1>3, <1>18, IdleType DEF CommentUpdate, CommentDelete, StatementFails, Transactions
<1>19. CASE UNCHANGED vars
  BY <1>19 DEF vars, LockInv
<1>20. QED
  BY <1>5, <1>6, <1>7, <1>8, <1>9, <1>11, <1>12, <1>13, <1>14, <1>15, <1>16, <1>17, <1>18, <1>19
  DEF Next, Update, Delete

TablesSame == /\ tasks' = tasks /\ history' = history /\ comments' = comments
              /\ created' = created /\ posted' = posted

\* The steps that write to the tables.
LEMMA TableSteps ==
  ASSUME [Next]_vars
  PROVE  \/ TablesSame
         \/ \E c \in Callers :
              \/ \E t \in TaskIds : CreateInsert(c, t)
              \/ UpdateCommit(c) \/ DeleteCommit(c)
              \/ \E m \in CommentIds : CommentInsert(c, m)
              \/ CommentUpdate(c) \/ CommentDelete(c)
<1>1. ASSUME NEW m \in Teams, NEW u \in Users, NEW r \in {"admin", "member"}, Join(m, u, r)
      PROVE  TablesSame
  BY <1>1 DEF Join, TablesSame
<1>2. ASSUME NEW c \in Callers,
             \/ \E u \in Users, m \in Teams, body \in Bodies : CreateCheck(c, u, m, body)
             \/ \E u \in Users, t \in TaskIds : Update(c, u, t) \/ Delete(c, u, t)
             \/ \E patch \in Bodies : UpdateWrite(c, patch)
             \/ DeleteWrite(c) \/ Rollback(c)
      PROVE  TablesSame
  BY <1>2 DEF CreateCheck, Update, Delete, SelectForUpdate, UpdateWrite, DeleteWrite,
              Rollback, TablesSame
<1>3. ASSUME NEW c \in Callers,
             \/ \E u \in Users, t \in TaskIds : CommentCheck(c, u, t)
             \/ \E u \in Users, m \in CommentIds, op \in {"edit", "remove"} : EditCheck(c, u, m, op)
             \/ StatementFails(c)
      PROVE  TablesSame
  BY <1>3 DEF CommentCheck, EditCheck, StatementFails, TablesSame
<1>4. CASE UNCHANGED vars
  BY <1>4 DEF vars, TablesSame
<1>5. QED
  BY <1>1, <1>2, <1>3, <1>4 DEF Next

\* The steps after which a caller is about to write what it has checked.
LEMMA CheckSteps ==
  ASSUME TypeInv, [Next]_vars, NEW c \in Callers
  PROVE  \/ call'[c] = call[c]
         \/ call'[c].op \in {"idle", "update", "delete", "delete_commit", "comment"}
         \/ \E u \in Users, m \in Teams, body \in Bodies : CreateCheck(c, u, m, body)
         \/ \E patch \in Bodies : UpdateWrite(c, patch)
         \/ \E u \in Users, m \in CommentIds, op \in {"edit", "remove"} : EditCheck(c, u, m, op)
<1> DEFINE Done == call'[c].op \in {"idle", "update", "delete", "delete_commit", "comment"}
<1>1. ASSUME NEW d \in Callers, NEW k, Become(d, k), d # c PROVE call'[c] = call[c]
  BY <1>1, CallAfter
<1>2. ASSUME NEW k, Become(c, k), k.op \in {"idle", "update", "delete", "delete_commit", "comment"}
      PROVE  Done
  BY <1>2, CallAfter
<1> HIDE DEF Done
<1>3. ASSUME NEW m \in Teams, NEW u \in Users, NEW r \in {"admin", "member"}, Join(m, u, r)
      PROVE  call' = call
  BY <1>3 DEF Join
<1>4. ASSUME NEW d \in Callers,
             \/ \E u \in Users, m \in Teams, body \in Bodies : CreateCheck(d, u, m, body)
             \/ \E patch \in Bodies : UpdateWrite(d, patch)
             \/ \E u \in Users, m \in CommentIds, op \in {"edit", "remove"} : EditCheck(d, u, m, op),
             d # c
      PROVE  call'[c] = call[c]
  BY <1>1, <1>4 DEF CreateCheck, UpdateWrite, EditCheck
<1>5. ASSUME NEW d \in Callers,
             \/ \E t \in TaskIds : CreateInsert(d, t)
             \/ UpdateCommit(d) \/ DeleteCommit(d) \/ Rollback(d)
             \/ \E m \in CommentIds : CommentInsert(d, m)
             \/ CommentUpdate(d) \/ CommentDelete(d) \/ StatementFails(d)
      PROVE  call'[c] = call[c] \/ Done
  <2>1. Become(d, Idle)
    BY <1>5 DEF CreateInsert, UpdateCommit, DeleteCommit, Rollback, CommentInsert, CommentUpdate,
                CommentDelete, StatementFails
  <2>2. QED
    BY <1>1, <1>2, <2>1, IdleType
<1>6. ASSUME NEW d \in Callers, NEW u \in Users, NEW t \in TaskIds, NEW op \in {"update", "delete"},
             SelectForUpdate(d, u, t, op)
      PROVE  call'[c] = call[c] \/ Done
  BY <1>1, <1>2, <1>6 DEF SelectForUpdate
<1>7. ASSUME NEW d \in Callers, DeleteWrite(d) PROVE call'[c] = call[c] \/ Done
  BY <1>1, <1>2, <1>7 DEF DeleteWrite
<1>8. ASSUME NEW d \in Callers, NEW u \in Users, NEW t \in TaskIds, CommentCheck(d, u, t)
      PROVE  call'[c] = call[c] \/ Done
  BY <1>1, <1>2, <1>8 DEF CommentCheck
<1>9. CASE UNCHANGED vars
  BY <1>9 DEF vars
<1>10. QED
  BY <1>3, <1>4, <1>5, <1>6, <1>7, <1>8, <1>9 DEF Next, Update, Delete, Done

\* An id is used once.
LEMMA CreatedStep ==
  ASSUME TypeInv, LockInv, CreatedInv, [Next]_vars
  PROVE  CreatedInv'
<1>1. CASE TablesSame
  BY <1>1 DEF TablesSame, CreatedInv
<1>2. ASSUME NEW c \in Callers, NEW t \in TaskIds, CreateInsert(c, t) PROVE CreatedInv'
  <2>1. call[c].row.val \in Vals
    BY <1>2, CallType DEF CreateInsert, TypeInv, TypeOK, TaskRows
  <2>2. QED
    BY <1>2, <2>1, TasksNoneAssumption DEF CreateInsert, CreatedInv, TypeInv, TypeOK
<1>3. ASSUME NEW c \in Callers, UpdateCommit(c) PROVE CreatedInv'
  <2>1. call[c].task \in TaskIds /\ created[call[c].task] # None
    BY <1>3, CallType DEF UpdateCommit, CreatedInv, TypeInv, TypeOK, Transactions
  <2>2. QED
    BY <1>3, <2>1 DEF UpdateCommit, CreatedInv, TypeInv, TypeOK
<1>4. ASSUME NEW c \in Callers, DeleteCommit(c) PROVE CreatedInv'
  BY <1>4 DEF DeleteCommit, CreatedInv, TypeInv, TypeOK
<1>5. ASSUME NEW c \in Callers,
             (\E m \in CommentIds : CommentInsert(c, m)) \/ CommentUpdate(c) \/ CommentDelete(c)
      PROVE  CreatedInv'
  BY <1>5 DEF CommentInsert, CommentUpdate, CommentDelete, CreatedInv
<1>6. QED
  BY <1>1, <1>2, <1>3, <1>4, <1>5, TableSteps

-----------------------------------------------------------------------------
(* Checks before writes *)

\* A check of roles and values that passed would pass again at the write.
LEMMA CheckedStep ==
  ASSUME TypeInv, CheckedInv, [Next]_vars
  PROVE  CheckedInv'
<1> SUFFICES ASSUME NEW c \in Callers PROVE CreateOK(c)' /\ UpdateOK(c)'
  BY DEF CheckedInv
<1>1. CreateOK(c) /\ UpdateOK(c)
  BY DEF CheckedInv
<1>2. CASE call'[c] = call[c]
  <2> DEFINE k == call[c]
  <2>1. ASSUME k.op = "create" PROVE AssigneeOK(k.row.team, k.row.val)'
    <3>1. k.row \in TaskRows
      BY <2>1, CallType DEF TypeInv, TypeOK
    <3>2. k.row.team \in Teams /\ k.row.val["assignee_id"] \in Users \cup {None}
      BY <3>1, ValsFields DEF TaskRows
    <3>3. AssigneeOK(k.row.team, k.row.val)
      BY <1>1, <2>1 DEF CreateOK
    <3>4. QED
      BY <1>2, <3>2, <3>3, RolesStay DEF AssigneeOK
  <2>2. ASSUME k.op = "update_commit"
        PROVE  /\ AssigneeOK(k.row.team, k.diff)'
               /\ IsMember(k.row.team, k.user)'
               /\ \A f \in DOMAIN k.diff :
                    /\ k.diff[f] # k.row.val[f]
                    /\ f = "title" => IsManager(k.row.team, k.user)'
    <3>1. k.user \in Users /\ k.row.team \in Teams
      BY <2>2, CallType DEF TypeInv, TypeOK, Transactions, TaskRows
    <3>2. "assignee_id" \in DOMAIN k.diff => k.diff["assignee_id"] \in Users \cup {None}
      BY <2>2 DEF TypeInv, ValidDiff, isValid
    <3>3. AssigneeOK(k.row.team, k.diff) /\ IsMember(k.row.team, k.user)
      BY <1>1, <2>2 DEF UpdateOK
    <3>4. AssigneeOK(k.row.team, k.diff)'
      BY <1>2, <3>1, <3>2, <3>3, RolesStay DEF AssigneeOK
    <3>5. IsMember(k.row.team, k.user)' /\ (IsManager(k.row.team, k.user) => IsManager(k.row.team, k.user)')
      BY <1>2, <3>1, <3>3, RolesStay DEF IsMember, IsManager
    <3>6. QED
      BY <1>1, <2>2, <3>4, <3>5 DEF UpdateOK
  <2>3. QED
    BY <1>2, <2>1, <2>2 DEF CreateOK, UpdateOK, AssigneeOK, IsMember, IsManager
<1>3. CASE call'[c].op \notin {"create", "update_commit"}
  BY <1>3 DEF CreateOK, UpdateOK
<1>4. ASSUME NEW u \in Users, NEW m \in Teams, NEW body \in Bodies, CreateCheck(c, u, m, body)
      PROVE  CreateOK(c)' /\ UpdateOK(c)'
  <2>1. /\ call'[c].op = "create" /\ call'[c].row.team = m
        /\ call'[c].row.val = [f \in Fields |-> IF f \in DOMAIN body THEN body[f] ELSE None]
    BY <1>4, CallAfter DEF CreateCheck
  <2>2. role' = role /\ AssigneeOK(m, body)
    BY <1>4 DEF CreateCheck, Parses
  <2>3. AssigneeOK(call[c].row.team, call[c].row.val)'
    BY <2>1, <2>2 DEF AssigneeOK, IsMember, Fields
  <2>4. QED
    BY <2>1, <2>3 DEF CreateOK, UpdateOK, AssigneeOK, IsMember
<1>5. ASSUME NEW patch \in Bodies, UpdateWrite(c, patch)
      PROVE  CreateOK(c)' /\ UpdateOK(c)'
  <2> DEFINE k == call[c]
             diff == Diff(k.row.val, patch)
  <2>1. /\ call'[c].op = "update_commit" /\ call'[c].row = k.row /\ call'[c].user = k.user
        /\ call'[c].diff = diff
    BY <1>5, CallAfter DEF UpdateWrite
  <2>2. k.row \in TaskRows /\ k.row.val \in Vals /\ k.row.team \in Teams /\ k.user \in Users
    BY <1>5, CallType DEF UpdateWrite, TypeInv, TypeOK, Transactions, TaskRows
  <2>3. /\ Parses(k.row.team, patch) /\ role' = role /\ DOMAIN diff # {}
        /\ DOMAIN patch \subseteq allowedTaskFields(role[k.row.team][k.user])
    BY <1>5 DEF UpdateWrite
  <2>4. /\ DOMAIN diff \subseteq DOMAIN patch
        /\ \A f \in DOMAIN diff : diff[f] = patch[f] /\ diff[f] # k.row.val[f]
    BY <2>2, <2>3, DiffType
  <2> HIDE DEF diff
  <2>5. AssigneeOK(k.row.team, diff)
    BY <2>3, <2>4 DEF Parses, AssigneeOK
  <2>6. IsMember(k.row.team, k.user) /\ ("title" \in DOMAIN diff => IsManager(k.row.team, k.user))
    BY <2>3, <2>4, TasksNoneAssumption DEF IsMember, IsManager, allowedTaskFields, Roles
  <2>7. QED
    BY <2>1, <2>3, <2>4, <2>5, <2>6 DEF CreateOK, UpdateOK, AssigneeOK, IsMember, IsManager
<1>6. ASSUME NEW u \in Users, NEW m \in CommentIds, NEW op \in {"edit", "remove"},
             EditCheck(c, u, m, op)
      PROVE  call'[c].op \notin {"create", "update_commit"}
  BY <1>6, CallAfter DEF EditCheck
<1>7. call'[c].op \in {"idle", "update", "delete", "delete_commit", "comment"}
        => call'[c].op \notin {"create", "update_commit"}
  OBVIOUS
<1>8. QED
  BY <1>2, <1>3, <1>4, <1>5, <1>6, <1>7, CheckSteps

\* What an update leaves in the tables.
LEMMA UpdateEffect ==
  ASSUME TypeInv, NEW c \in Callers, UpdateCommit(c)
  PROVE  LET k == call[c] IN
         /\ k.task \in TaskIds /\ tasks[k.task] \in TaskRows /\ DOMAIN k.diff \subseteq Fields
         /\ tasks'[k.task] \in TaskRows /\ tasks'[k.task] # None
         /\ tasks'[k.task].team = tasks[k.task].team
         /\ tasks'[k.task].val = UpdateTx(tasks[k.task].val, k.diff)
         /\ \A s \in TaskIds : s # k.task => tasks'[s] = tasks[s] /\ history'[s] = history[s]
         /\ history'[k.task] = CreateBatchTx(k)
<1> DEFINE k == call[c]
           val == UpdateTx(tasks[k.task].val, k.diff)
<1>1. k.task \in TaskIds /\ tasks[k.task] \in TaskRows
  BY CallType DEF UpdateCommit, TypeInv, TypeOK, Transactions
<1>2. DOMAIN k.diff \subseteq Fields /\ \A f \in DOMAIN k.diff : k.diff[f] \in isValid(f)
  BY CallType DEF UpdateCommit, TypeInv, TypeOK, ValidDiff, Patches
<1>3. val \in Vals
  BY <1>1, <1>2, UpdateTxType DEF TaskRows
<1>4. /\ tasks'[k.task] = [tasks[k.task] EXCEPT !.val = val]
      /\ \A s \in TaskIds : s # k.task => tasks'[s] = tasks[s]
  BY <1>1 DEF UpdateCommit, TypeInv, TypeOK
<1>5. /\ history'[k.task] = CreateBatchTx(k)
      /\ \A s \in TaskIds : s # k.task => history'[s] = history[s]
  BY <1>1 DEF UpdateCommit, TypeInv, TypeOK
<1> HIDE DEF val
<1>6. tasks'[k.task] \in TaskRows /\ tasks'[k.task].team = tasks[k.task].team /\ tasks'[k.task].val = val
  BY <1>1, <1>3, <1>4 DEF TaskRows
<1>7. QED
  BY <1>1, <1>2, <1>4, <1>5, <1>6, TasksNoneAssumption DEF val

\* A task stays with its team.
LEMMA TeamStays ==
  ASSUME TypeInv, CreatedInv, [Next]_vars, NEW t \in TaskIds, tasks[t] # None, tasks'[t] # None
  PROVE  tasks[t].team \in Teams /\ tasks'[t].team = tasks[t].team
<1>1. tasks[t] \in TaskRows /\ tasks[t].team \in Teams /\ created[t] # None
  BY DEF TypeInv, TypeOK, TaskRows, CreatedInv
<1>2. CASE TablesSame
  BY <1>1, <1>2 DEF TablesSame
<1>3. ASSUME NEW c \in Callers, NEW s \in TaskIds, CreateInsert(c, s)
      PROVE  tasks'[t].team = tasks[t].team
  BY <1>1, <1>3 DEF CreateInsert, TypeInv, TypeOK
<1>4. ASSUME NEW c \in Callers, UpdateCommit(c) PROVE tasks'[t].team = tasks[t].team
  BY <1>1, <1>4 DEF UpdateCommit, TypeInv, TypeOK, TaskRows
<1>5. ASSUME NEW c \in Callers, DeleteCommit(c) PROVE tasks'[t].team = tasks[t].team
  BY <1>1, <1>5 DEF DeleteCommit, TypeInv, TypeOK
<1>6. ASSUME NEW c \in Callers,
             (\E m \in CommentIds : CommentInsert(c, m)) \/ CommentUpdate(c) \/ CommentDelete(c)
      PROVE  tasks'[t].team = tasks[t].team
  BY <1>6 DEF CommentInsert, CommentUpdate, CommentDelete
<1>7. QED
  BY <1>1, <1>2, <1>3, <1>4, <1>5, <1>6, TableSteps

\* Comments belong to tasks that exist.
LEMMA OrphanStep ==
  ASSUME TypeInv, CreatedInv, NoOrphanComment, [Next]_vars
  PROVE  NoOrphanComment'
<1>1. CASE TablesSame
  BY <1>1 DEF TablesSame, NoOrphanComment
<1>2. \A m \in CommentIds : comments[m] # None => comments[m].task \in TaskIds
  BY DEF TypeInv, TypeOK, CommentRows
<1>3. ASSUME NEW c \in Callers, NEW t \in TaskIds, CreateInsert(c, t) PROVE NoOrphanComment'
  <2>1. call[c].row # None
    BY <1>3, CallType, TasksNoneAssumption DEF CreateInsert, TypeInv, TypeOK
  <2>2. QED
    BY <1>2, <1>3, <2>1 DEF CreateInsert, NoOrphanComment, TypeInv, TypeOK
<1>4. ASSUME NEW c \in Callers, UpdateCommit(c) PROVE NoOrphanComment'
  <2>1. comments' = comments
    BY <1>4 DEF UpdateCommit
  <2>2. QED
    BY <1>2, <1>4, <2>1, UpdateEffect DEF NoOrphanComment
<1>5. ASSUME NEW c \in Callers, DeleteCommit(c) PROVE NoOrphanComment'
  BY <1>2, <1>5 DEF DeleteCommit, Cascade, NoOrphanComment, TypeInv, TypeOK
<1>6. ASSUME NEW c \in Callers, NEW m \in CommentIds, CommentInsert(c, m) PROVE NoOrphanComment'
  <2>1. call[c].task \in TaskIds /\ tasks[call[c].task] # None
    BY <1>6, CallType DEF CommentInsert, ForeignKeyOK, TypeInv, TypeOK
  <2>2. QED
    BY <1>2, <1>6, <2>1 DEF CommentInsert, NoOrphanComment, TypeInv, TypeOK
<1>7. ASSUME NEW c \in Callers, CommentUpdate(c) PROVE NoOrphanComment'
  BY <1>2, <1>7 DEF CommentUpdate, NoOrphanComment, TypeInv, TypeOK, CommentRows
<1>8. ASSUME NEW c \in Callers, CommentDelete(c) PROVE NoOrphanComment'
  BY <1>2, <1>8 DEF CommentDelete, NoOrphanComment, TypeInv, TypeOK
<1>9. QED
  BY <1>1, <1>3, <1>4, <1>5, <1>6, <1>7, <1>8, TableSteps

\* The row of a comment stays the comment it is.
LEMMA CommentStays ==
  ASSUME TypeInv, EditInv, [Next]_vars, NEW m \in CommentIds
  PROVE  /\ comments[m] # None => comments[m].task \in TaskIds /\ comments[m].user \in Users
         /\ comments[m] # None /\ comments'[m] # None =>
              comments'[m].task = comments[m].task /\ comments'[m].user = comments[m].user
         /\ comments[m] = None /\ comments'[m] # None => m \notin posted
         /\ comments'[m] # None => m \in posted'
         /\ m \in posted => m \in posted'
<1> DEFINE Stays ==
      /\ comments[m] # None /\ comments'[m] # None =>
           comments'[m].task = comments[m].task /\ comments'[m].user = comments[m].user
      /\ comments[m] = None /\ comments'[m] # None => m \notin posted
      /\ comments'[m] # None => m \in posted'
      /\ m \in posted => m \in posted'
<1>1. comments[m] # None => comments[m] \in CommentRows /\ m \in posted
  BY DEF TypeInv, TypeOK, EditInv
<1>2. ASSUME comments' = comments, posted' = posted PROVE Stays
  BY <1>1, <1>2
<1>3. ASSUME NEW c \in Callers, NEW n \in CommentIds, CommentInsert(c, n) PROVE Stays
  BY <1>1, <1>3 DEF CommentInsert, TypeInv, TypeOK
<1>4. ASSUME NEW c \in Callers, CommentUpdate(c) PROVE Stays
  BY <1>1, <1>4 DEF CommentUpdate, TypeInv, TypeOK, CommentRows
<1>5. ASSUME NEW c \in Callers, CommentDelete(c) PROVE Stays
  BY <1>1, <1>5 DEF CommentDelete, TypeInv, TypeOK
<1>6. ASSUME NEW c \in Callers, DeleteCommit(c) PROVE Stays
  BY <1>1, <1>6 DEF DeleteCommit, Cascade
<1>7. ASSUME NEW c \in Callers, (\E t \in TaskIds : CreateInsert(c, t)) \/ UpdateCommit(c)
      PROVE  comments' = comments /\ posted' = posted
  BY <1>7 DEF CreateInsert, UpdateCommit
<1>8. Stays
  BY <1>2, <1>3, <1>4, <1>5, <1>6, <1>7, TableSteps DEF TablesSame
<1>9. QED
  BY <1>1, <1>8 DEF CommentRows

\* The check of an edit still holds when the comment is written.
LEMMA EditStep ==
  ASSUME TypeInv, CreatedInv, EditInv, NoOrphanComment, NoOrphanComment', [Next]_vars
  PROVE  EditInv'
<1>1. \A m \in CommentIds : comments'[m] # None => m \in posted'
  BY CommentStays
<1>2. ASSUME NEW c \in Callers, NEW m \in CommentIds,
             call'[c].op \in {"edit", "remove"}, call'[c].comment = m
      PROVE  EditOK(c, m)'
  <2>1. CASE call'[c] = call[c]
    <3>1. call[c].user \in Users /\ EditOK(c, m)
      BY <1>2, <2>1, CallType DEF TypeInv, TypeOK, EditInv
    <3>2. ASSUME comments'[m] # None
          PROVE  \/ comments'[m].user = call'[c].user
                 \/ role'[tasks'[comments'[m].task].team][call'[c].user] \in {"owner", "admin"}
      <4>1. comments[m] # None /\ comments'[m].task = comments[m].task /\ comments'[m].user = comments[m].user
        BY <3>1, <3>2, CommentStays DEF EditOK
      <4> DEFINE t == comments[m].task
      <4>2. t \in TaskIds /\ tasks[t] # None /\ tasks'[t] # None
        BY <3>2, <4>1, CommentStays DEF NoOrphanComment
      <4>3. tasks[t].team \in Teams /\ tasks'[t].team = tasks[t].team
        BY <4>2, TeamStays
      <4>4. comments[m].user = call[c].user \/ IsManager(tasks[t].team, call[c].user)
        BY <3>1, <4>1 DEF EditOK
      <4>5. IsManager(tasks[t].team, call[c].user) =>
              role'[tasks[t].team][call[c].user] \in {"owner", "admin"}
        BY <3>1, <4>3, RolesStay DEF IsManager
      <4>6. QED
        BY <2>1, <4>1, <4>3, <4>4, <4>5
    <3>3. m \in posted'
      BY <3>1, CommentStays DEF EditOK
    <3>4. QED
      BY <3>2, <3>3 DEF EditOK, IsManager
  <2>2. ASSUME NEW u \in Users, NEW n \in CommentIds, NEW op \in {"edit", "remove"},
               EditCheck(c, u, n, op)
        PROVE  EditOK(c, m)'
    <3>1. call'[c].user = u /\ n = m
      BY <1>2, <2>2, CallAfter DEF EditCheck
    <3>2. QED
      BY <2>2, <3>1 DEF EditCheck, MayEdit, IsManager, EditInv, EditOK
  <2>3. ASSUME NEW u \in Users, NEW n \in Teams, NEW body \in Bodies, CreateCheck(c, u, n, body)
        PROVE  FALSE
    <3>1. call'[c].op = "create"
      BY <2>3, CallAfter DEF CreateCheck
    <3>2. QED
      BY <1>2, <3>1
  <2>4. ASSUME NEW patch \in Bodies, UpdateWrite(c, patch) PROVE FALSE
    <3>1. call'[c].op = "update_commit"
      BY <2>4, CallAfter DEF UpdateWrite
    <3>2. QED
      BY <1>2, <3>1
  <2>5. call'[c].op \notin {"idle", "update", "delete", "delete_commit", "comment"}
    BY <1>2
  <2>6. QED
    BY <2>1, <2>2, <2>3, <2>4, <2>5, CheckSteps
<1>3. QED
  BY <1>1, <1>2 DEF EditInv

\* The text of a comment was written by somebody who might.
LEMMA CommentStep ==
  ASSUME TypeInv, CreatedInv, EditInv, NoOrphanComment, NoOrphanComment', CommentAuthority, [Next]_vars
  PROVE  CommentAuthority'
<1> SUFFICES ASSUME NEW m \in CommentIds, comments'[m] # None
             PROVE  \/ comments'[m].by = comments'[m].user
                    \/ role'[tasks'[comments'[m].task].team][comments'[m].by] \in {"owner", "admin"}
  BY DEF CommentAuthority, IsManager
<1>1. ASSUME comments[m] # None
      PROVE  /\ tasks'[comments'[m].task].team = tasks[comments[m].task].team
             /\ tasks[comments[m].task].team \in Teams
             /\ comments'[m].user = comments[m].user
             /\ comments[m].by \in Users
             /\ \/ comments[m].by = comments[m].user
                \/ IsManager(tasks[comments[m].task].team, comments[m].by)
  <2>1. /\ comments[m].task \in TaskIds /\ comments'[m].task = comments[m].task
        /\ comments'[m].user = comments[m].user
    BY <1>1, CommentStays
  <2>2. tasks[comments[m].task] # None /\ tasks'[comments[m].task] # None
    BY <1>1, <2>1 DEF NoOrphanComment
  <2>3. tasks[comments[m].task].team \in Teams /\ tasks'[comments[m].task].team = tasks[comments[m].task].team
    BY <2>1, <2>2, TeamStays
  <2>4. comments[m].by \in Users
    BY <1>1 DEF TypeInv, TypeOK, CommentRows
  <2>5. QED
    BY <1>1, <2>1, <2>2, <2>3, <2>4 DEF CommentAuthority
<1>2. CASE comments[m] # None /\ comments'[m].by = comments[m].by
  BY <1>1, <1>2, RolesStay DEF IsManager
<1>3. CASE comments[m] # None /\ comments'[m].by # comments[m].by
  <2>1. PICK c \in Callers : CommentUpdate(c)
    <3>1. ASSUME NEW c \in Callers, NEW n \in CommentIds, CommentInsert(c, n) PROVE FALSE
      BY <1>3, <3>1 DEF CommentInsert, EditInv, TypeInv, TypeOK
    <3>2. ASSUME NEW c \in Callers, CommentDelete(c) \/ DeleteCommit(c) PROVE FALSE
      BY <1>3, <3>2 DEF CommentDelete, DeleteCommit, Cascade, TypeInv, TypeOK
    <3>3. ASSUME NEW c \in Callers, (\E t \in TaskIds : CreateInsert(c, t)) \/ UpdateCommit(c) PROVE FALSE
      BY <1>3, <3>3 DEF CreateInsert, UpdateCommit
    <3>4. ~TablesSame
      BY <1>3 DEF TablesSame
    <3>5. QED
      BY <3>1, <3>2, <3>3, <3>4, TableSteps
  <2>2. call[c].comment = m /\ comments'[m].by = call[c].user /\ call[c].op = "edit"
    BY <1>3, <2>1 DEF CommentUpdate, TypeInv, TypeOK, CommentRows
  <2>3. call[c].user \in Users
    BY <2>2, CallType DEF TypeInv, TypeOK
  <2>4. comments[m].user = call[c].user \/ IsManager(tasks[comments[m].task].team, call[c].user)
    BY <1>3, <2>2 DEF EditInv, EditOK
  <2>5. QED
    BY <1>1, <1>3, <2>2, <2>3, <2>4, RolesStay DEF IsManager
<1>4. CASE comments[m] = None
  <2>1. PICK c \in Callers, n \in CommentIds : CommentInsert(c, n)
    <3>1. ASSUME NEW c \in Callers, CommentUpdate(c) \/ CommentDelete(c) \/ DeleteCommit(c) PROVE FALSE
      BY <1>4, <3>1 DEF CommentUpdate, CommentDelete, DeleteCommit, Cascade, TypeInv, TypeOK
    <3>2. ASSUME NEW c \in Callers, (\E t \in TaskIds : CreateInsert(c, t)) \/ UpdateCommit(c) PROVE FALSE
      BY <1>4, <3>2 DEF CreateInsert, UpdateCommit
    <3>3. ~TablesSame
      BY <1>4 DEF TablesSame
    <3>4. QED
      BY <3>1, <3>2, <3>3, TableSteps
  <2>2. QED
    BY <1>4, <2>1 DEF CommentInsert, TypeInv, TypeOK
<1>5. QED
  BY <1>2, <1>3, <1>4

-----------------------------------------------------------------------------
(* The history *)

\* The steps that write rows or entries of tasks.
LEMMA HistorySteps ==
  ASSUME [Next]_vars
  PROVE  \/ tasks' = tasks /\ history' = history /\ created' = created
         \/ \E c \in Callers : (\E t \in TaskIds : CreateInsert(c, t)) \/ UpdateCommit(c) \/ DeleteCommit(c)
<1>1. ASSUME NEW c \in Callers,
             (\E m \in CommentIds : CommentInsert(c, m)) \/ CommentUpdate(c) \/ CommentDelete(c)
      PROVE  tasks' = tasks /\ history' = history /\ created' = created
  BY <1>1 DEF CommentInsert, CommentUpdate, CommentDelete
<1>2. QED
  BY <1>1, TableSteps DEF TablesSame

\* What a create leaves in the tables.
LEMMA CreateEffect ==
  ASSUME TypeInv, CreatedInv, NEW c \in Callers, NEW t \in TaskIds, CreateInsert(c, t)
  PROVE  /\ call[c].row \in TaskRows
         /\ tasks[t] = None /\ tasks'[t] = call[c].row
         /\ created'[t] = call[c].row.val /\ history'[t] = NoHistory
         /\ \A s \in TaskIds : s # t =>
              tasks'[s] = tasks[s] /\ history'[s] = history[s] /\ created'[s] = created[s]
<1>1. call[c].row \in TaskRows
  BY CallType DEF CreateInsert, TypeInv, TypeOK
<1>2. QED
  BY <1>1 DEF CreateInsert, CreatedInv, TypeInv, TypeOK

\* What a delete leaves in the tables.
LEMMA DeleteEffect ==
  ASSUME TypeInv, NEW c \in Callers, DeleteCommit(c)
  PROVE  /\ call[c].task \in TaskIds /\ tasks'[call[c].task] = None /\ created' = created
         /\ \A s \in TaskIds : s # call[c].task => tasks'[s] = tasks[s] /\ history'[s] = history[s]
<1>1. call[c].task \in TaskIds
  BY CallType DEF DeleteCommit, TypeInv, TypeOK, Transactions
<1>2. QED
  BY <1>1 DEF DeleteCommit, TypeInv, TypeOK

\* What the transaction of an update read and checked is what it changes.
LEMMA UpdateReads ==
  ASSUME TypeInv, LockInv, CheckedInv, NEW c \in Callers, UpdateCommit(c)
  PROVE  LET k == call[c] IN
         /\ tasks[k.task] = k.row
         /\ AssigneeOK(k.row.team, k.diff) /\ IsMember(k.row.team, k.user)
         /\ \A f \in DOMAIN k.diff :
              /\ k.diff[f] # k.row.val[f]
              /\ f = "title" => IsManager(k.row.team, k.user)
  BY DEF UpdateCommit, LockInv, CheckedInv, UpdateOK, Transactions

\* A history that leads to the value of a field leads to its next value.
LEMMA ChainStep ==
  ASSUME TypeInv, LockInv, CreatedInv, CheckedInv, AuditChain, [Next]_vars
  PROVE  AuditChain'
<1> SUFFICES ASSUME NEW t \in TaskIds, tasks'[t] # None, NEW f \in Fields
             PROVE  Leads(history'[t][f], created'[t][f], tasks'[t].val[f])
  BY DEF AuditChain
<1>1. ASSUME tasks'[t] = tasks[t], history'[t] = history[t], created'[t] = created[t]
      PROVE  Leads(history'[t][f], created'[t][f], tasks'[t].val[f])
  BY <1>1 DEF AuditChain
<1>2. CASE tasks' = tasks /\ history' = history /\ created' = created
  BY <1>1, <1>2
<1>3. ASSUME NEW c \in Callers, NEW s \in TaskIds, CreateInsert(c, s)
      PROVE  Leads(history'[t][f], created'[t][f], tasks'[t].val[f])
  <2>1. CASE t = s
    <3>1. history'[t][f] = <<>> /\ created'[t][f] = tasks'[t].val[f]
      BY <1>3, <2>1, CreateEffect DEF NoHistory
    <3>2. QED
      BY <3>1 DEF Leads
  <2>2. CASE t # s
    BY <1>1, <1>3, <2>2, CreateEffect
  <2>3. QED
    BY <2>1, <2>2
<1>4. ASSUME NEW c \in Callers, UpdateCommit(c)
      PROVE  Leads(history'[t][f], created'[t][f], tasks'[t].val[f])
  <2> DEFINE k == call[c]
  <2>1. created' = created
    BY <1>4 DEF UpdateCommit
  <2>2. CASE t # k.task
    BY <1>1, <1>4, <2>1, <2>2, UpdateEffect
  <2>3. CASE t = k.task
    <3>1. /\ tasks[t] # None /\ tasks[t] = k.row
          /\ history'[t] = CreateBatchTx(k) /\ tasks'[t].val = UpdateTx(k.row.val, k.diff)
      BY <1>4, <2>3, UpdateEffect, UpdateReads DEF UpdateCommit
    <3>2. Leads(history[t][f], created[t][f], k.row.val[f])
      BY <3>1 DEF AuditChain
    <3>3. CASE f \notin DOMAIN k.diff
      <4>1. history'[t][f] = history[t][f] /\ tasks'[t].val[f] = k.row.val[f]
        BY <2>3, <3>1, <3>3 DEF CreateBatchTx, UpdateTx
      <4>2. QED
        BY <2>1, <3>2, <4>1
    <3>4. CASE f \in DOMAIN k.diff
      <4> DEFINE e == [old |-> k.row.val[f], new |-> k.diff[f], by |-> k.user]
      <4>1. history'[t][f] = Append(history[t][f], e) /\ tasks'[t].val[f] = k.diff[f]
        BY <2>3, <3>1, <3>4 DEF CreateBatchTx, UpdateTx
      <4>2. e \in Entries
        BY <1>4, <3>4, BatchType DEF UpdateCommit
      <4>3. e.old = k.row.val[f] /\ e.new = k.diff[f] /\ k.diff[f] # k.row.val[f]
        BY <1>4, <3>4, UpdateReads
      <4>4. history[t][f] \in Seq(Entries)
        BY DEF TypeInv, TypeOK
      <4> HIDE DEF e
      <4>5. Leads(Append(history[t][f], e), created[t][f], e.new)
        BY <3>2, <4>2, <4>3, <4>4, LeadsAppend
      <4>6. QED
        BY <2>1, <4>1, <4>3, <4>5
    <3>5. QED
      BY <3>3, <3>4
  <2>4. QED
    BY <2>2, <2>3
<1>5. ASSUME NEW c \in Callers, DeleteCommit(c)
      PROVE  Leads(history'[t][f], created'[t][f], tasks'[t].val[f])
  BY <1>1, <1>5, DeleteEffect
<1>6. QED
  BY <1>2, <1>3, <1>4, <1>5, HistorySteps

\* The changes were made by those who might.
LEMMA AuthorityStep ==
  ASSUME TypeInv, LockInv, CreatedInv, CheckedInv, AuditAuthority, [Next]_vars
  PROVE  AuditAuthority'
<1> DEFINE MayChange(f, m, u) == IF f = "title" THEN IsManager(m, u) ELSE IsMember(m, u)
           MayNow(f, m, u) == IF f = "title" THEN role'[m][u] \in {"owner", "admin"}
                              ELSE role'[m][u] # None
<1> SUFFICES ASSUME NEW t \in TaskIds, tasks'[t] # None, NEW f \in Fields,
                    NEW i \in 1..Len(history'[t][f])
             PROVE  MayNow(f, tasks'[t].team, history'[t][f][i].by)
  BY DEF AuditAuthority, IsManager, IsMember
<1>1. ASSUME NEW m \in Teams, NEW u \in Users, MayChange(f, m, u) PROVE MayNow(f, m, u)
  BY <1>1, RolesStay DEF IsManager, IsMember
<1> HIDE DEF MayNow
<1>2. ASSUME tasks[t] # None, i \in 1..Len(history[t][f])
      PROVE  /\ history[t][f][i].by \in Users
             /\ MayChange(f, tasks[t].team, history[t][f][i].by)
  <2>1. history[t][f] \in Seq(Entries)
    BY DEF TypeInv, TypeOK
  <2>2. history[t][f][i] \in Entries
    BY <1>2, <2>1
  <2>3. QED
    BY <1>2, <2>2 DEF Entries, AuditAuthority
<1>3. ASSUME tasks'[t] = tasks[t], history'[t] = history[t]
      PROVE  MayNow(f, tasks'[t].team, history'[t][f][i].by)
  BY <1>1, <1>2, <1>3, TeamStays
<1>4. CASE tasks' = tasks /\ history' = history /\ created' = created
  BY <1>3, <1>4
<1>5. ASSUME NEW c \in Callers, NEW s \in TaskIds, CreateInsert(c, s)
      PROVE  MayNow(f, tasks'[t].team, history'[t][f][i].by)
  <2>1. CASE t = s
    BY <1>5, <2>1, CreateEffect DEF NoHistory
  <2>2. CASE t # s
    BY <1>3, <1>5, <2>2, CreateEffect
  <2>3. QED
    BY <2>1, <2>2
<1>6. ASSUME NEW c \in Callers, UpdateCommit(c)
      PROVE  MayNow(f, tasks'[t].team, history'[t][f][i].by)
  <2> DEFINE k == call[c]
             e == [old |-> k.row.val[f], new |-> k.diff[f], by |-> k.user]
  <2>1. CASE t # k.task
    BY <1>3, <1>6, <2>1, UpdateEffect
  <2>2. CASE t = k.task
    <3>1. /\ tasks[t] # None /\ tasks[t] = k.row /\ tasks'[t].team = k.row.team
          /\ k.row.team \in Teams /\ k.user \in Users /\ history'[t] = CreateBatchTx(k)
      BY <1>6, <2>2, UpdateEffect, UpdateReads, CallType
      DEF UpdateCommit, TypeInv, TypeOK, TaskRows, Transactions
    <3>2. CASE i \in 1..Len(history[t][f]) /\ history'[t][f][i] = history[t][f][i]
      BY <1>1, <1>2, <3>1, <3>2
    <3>3. CASE f \in DOMAIN k.diff /\ history'[t][f][i] = e
      <4>1. history'[t][f][i].by = k.user
        BY <3>3
      <4>2. MayChange(f, k.row.team, k.user)
        BY <1>6, <3>3, UpdateReads
      <4>3. QED
        BY <1>1, <3>1, <4>1, <4>2
    <3>4. \/ i \in 1..Len(history[t][f]) /\ history'[t][f][i] = history[t][f][i]
          \/ f \in DOMAIN k.diff /\ history'[t][f][i] = e
      <4>1. history[t][f] \in Seq(Entries)
        BY DEF TypeInv, TypeOK
      <4>2. CASE f \notin DOMAIN k.diff
        <5>1. history'[t][f] = history[t][f]
          BY <2>2, <3>1, <4>2 DEF CreateBatchTx
        <5>2. QED
          BY <5>1
      <4>3. CASE f \in DOMAIN k.diff
        <5>1. history'[t][f] = Append(history[t][f], e)
          BY <2>2, <3>1, <4>3 DEF CreateBatchTx
        <5>2. e \in Entries
          BY <1>6, <4>3, BatchType DEF UpdateCommit
        <5> HIDE DEF e
        <5>3. QED
          BY <4>1, <4>3, <5>1, <5>2
      <4>4. QED
        BY <4>2, <4>3
    <3>5. QED
      BY <3>2, <3>3, <3>4
  <2>3. QED
    BY <2>1, <2>2
<1>7. ASSUME NEW c \in Callers, DeleteCommit(c)
      PROVE  MayNow(f, tasks'[t].team, history'[t][f][i].by)
  BY <1>3, <1>7, DeleteEffect
<1>8. QED
  BY <1>4, <1>5, <1>6, <1>7, HistorySteps

\* The assignee of a task is nobody or a member of its team.
AssigneeRule ==
  \A t \in TaskIds : tasks[t] # None => AssigneeOK(tasks[t].team, tasks[t].val)

\* The integrity query finds the tasks that break the rule.
LEMMA AssigneeQuery == TypeInv => (AssigneeIsMember <=> AssigneeRule)
<1> SUFFICES ASSUME TypeInv PROVE AssigneeIsMember <=> AssigneeRule
  OBVIOUS
<1>1. \A t \in TaskIds : tasks[t] # None => "assignee_id" \in DOMAIN tasks[t].val
  BY ValsFields DEF TypeInv, TypeOK, TaskRows, Fields
<1>2. QED
  BY <1>1 DEF AssigneeIsMember, AssigneeRule, FindTasksWithAssigneeNotMember, AssigneeOK

\* A task stays within the rule.
LEMMA AssigneeStep ==
  ASSUME TypeInv, LockInv, CreatedInv, CheckedInv, AssigneeRule, [Next]_vars
  PROVE  AssigneeRule'
<1> DEFINE OKNow(m, val) == ("assignee_id" \in DOMAIN val /\ val["assignee_id"] # None)
                              => role'[m][val["assignee_id"]] # None
<1> SUFFICES ASSUME NEW t \in TaskIds, tasks'[t] # None
             PROVE  OKNow(tasks'[t].team, tasks'[t].val)
  BY DEF AssigneeRule, AssigneeOK, IsMember
<1>1. ASSUME NEW m \in Teams, NEW val \in Vals, AssigneeOK(m, val) PROVE OKNow(m, val)
  BY <1>1, ValsFields, RolesStay DEF AssigneeOK, IsMember
<1> HIDE DEF OKNow
<1>2. tasks[t] # None =>
        /\ tasks[t].team \in Teams /\ tasks[t].val \in Vals
        /\ AssigneeOK(tasks[t].team, tasks[t].val)
  BY DEF AssigneeRule, TypeInv, TypeOK, TaskRows
<1>3. ASSUME tasks'[t] = tasks[t] PROVE OKNow(tasks'[t].team, tasks'[t].val)
  BY <1>1, <1>2, <1>3
<1>4. CASE tasks' = tasks /\ history' = history /\ created' = created
  BY <1>3, <1>4
<1>5. ASSUME NEW c \in Callers, NEW s \in TaskIds, CreateInsert(c, s)
      PROVE  OKNow(tasks'[t].team, tasks'[t].val)
  <2>1. CASE t = s
    <3>1. /\ tasks'[t].team \in Teams /\ tasks'[t].val \in Vals
          /\ AssigneeOK(tasks'[t].team, tasks'[t].val)
      BY <1>5, <2>1, CreateEffect DEF CreateInsert, CheckedInv, CreateOK, TaskRows
    <3>2. QED
      BY <1>1, <3>1
  <2>2. CASE t # s
    BY <1>3, <1>5, <2>2, CreateEffect
  <2>3. QED
    BY <2>1, <2>2
<1>6. ASSUME NEW c \in Callers, UpdateCommit(c) PROVE OKNow(tasks'[t].team, tasks'[t].val)
  <2> DEFINE k == call[c]
  <2>1. CASE t # k.task
    BY <1>3, <1>6, <2>1, UpdateEffect
  <2>2. CASE t = k.task
    <3>1. /\ tasks[t] # None /\ tasks[t] = k.row /\ tasks'[t].team = k.row.team
          /\ tasks'[t].val = UpdateTx(k.row.val, k.diff)
          /\ tasks'[t].val \in Vals /\ AssigneeOK(k.row.team, k.diff)
      BY <1>6, <2>2, UpdateEffect, UpdateReads DEF UpdateCommit, TaskRows
    <3>2. "assignee_id" \in Fields /\ DOMAIN k.row.val = Fields
      BY <1>2, <3>1, ValsFields DEF Fields
    <3>3. tasks'[t].val["assignee_id"] =
            IF "assignee_id" \in DOMAIN k.diff THEN k.diff["assignee_id"] ELSE k.row.val["assignee_id"]
      BY <3>1, <3>2 DEF UpdateTx
    <3>4. AssigneeOK(k.row.team, tasks'[t].val)
      BY <1>2, <3>1, <3>2, <3>3 DEF AssigneeOK
    <3>5. QED
      BY <1>1, <1>2, <3>1, <3>4
  <2>3. QED
    BY <2>1, <2>2
<1>7. ASSUME NEW c \in Callers, DeleteCommit(c) PROVE OKNow(tasks'[t].team, tasks'[t].val)
  BY <1>3, <1>7, DeleteEffect
<1>8. QED
  BY <1>4, <1>5, <1>6, <1>7, HistorySteps

-----------------------------------------------------------------------------
(* The theorems *)

\* Every step keeps all of it.
LEMMA SafetyStep == Safety /\ [Next]_vars => Safety'
<1> SUFFICES ASSUME Safety, [Next]_vars PROVE Safety'
  OBVIOUS
<1>1. /\ TypeInv /\ LockInv /\ CreatedInv /\ CheckedInv /\ EditInv /\ AssigneeRule
      /\ AuditChain /\ AuditAuthority /\ NoOrphanComment /\ CommentAuthority
  BY AssigneeQuery DEF Safety
<1>2. TypeInv' /\ LockInv' /\ CreatedInv' /\ CheckedInv'
  BY <1>1, TypeStep, LockStep, CreatedStep, CheckedStep
<1>3. NoOrphanComment'
  BY <1>1, OrphanStep
<1>4. EditInv' /\ CommentAuthority'
  BY <1>1, <1>3, EditStep, CommentStep
<1>5. AuditChain' /\ AuditAuthority'
  BY <1>1, ChainStep, AuthorityStep
<1>6. AssigneeRule'
  BY <1>1, AssigneeStep
<1>7. AssigneeIsMember'
  BY <1>2, <1>6, AssigneeQuery, PTL
<1>8. QED
  BY <1>2, <1>3, <1>4, <1>5, <1>7 DEF Safety

\* It holds in every reachable state.
LEMMA SafetyHolds == Spec => []Safety
  BY SafetyInit, SafetyStep, PTL DEF Spec

\* The history of a task leads, field by field and without a gap, from the
\* values it was created with to the values it has, however the transactions
\* of UpdateTask and DeleteTask interleave: each one computes its entries from
\* the row it holds, and nobody else changes that row.
THEOREM ChainTheorem == Spec => []AuditChain
<1>1. Safety => AuditChain
  BY DEF Safety
<1>2. QED
  BY <1>1, SafetyHolds, PTL

\* Every change of a task was made by a member of its team, and every change of
\* a field for managers by a manager, although UpdateTask looks the role up
\* before it writes: roles are only ever added.
THEOREM AuthorityTheorem == Spec => []AuditAuthority
<1>1. Safety => AuditAuthority
  BY DEF Safety
<1>2. QED
  BY <1>1, SafetyHolds, PTL

\* The administrators' integrity query for assignees who are no members finds
\* nothing.
THEOREM AssigneeTheorem == Spec => []AssigneeIsMember
<1>1. Safety => AssigneeIsMember
  BY DEF Safety
<1>2. QED
  BY <1>1, SafetyHolds, PTL

\* No comment outlives its task, although CreateComment checks the task before
\* it inserts: the foreign key waits for a delete in progress, and the delete
\* takes the comments along.
THEOREM OrphanTheorem == Spec => []NoOrphanComment
<1>1. Safety => NoOrphanComment
  BY DEF Safety
<1>2. QED
  BY <1>1, SafetyHolds, PTL

\* The text of a comment was last written by its author or by a manager of the
\* team, although UpdateComment checks before it writes: ids are not reused, a
\* comment keeps its author and task, and a manager stays one.
THEOREM CommentTheorem == Spec => []CommentAuthority
<1>1. Safety => CommentAuthority
  BY DEF Safety
<1>2. QED
  BY <1>1, SafetyHolds, PTL
=============================================================================
