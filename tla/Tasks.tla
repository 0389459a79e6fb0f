------------------------------- MODULE Tasks -------------------------------
(***************************************************************************)
(* Tasks, their history and their comments: internal/service/task.go on    *)
(* the tables tasks, task_history and task_comments.                       *)
(*                                                                         *)
(* A caller runs CreateTask, UpdateTask, DeleteTask, CreateComment,        *)
(* UpdateComment and DeleteComment, one after the other.  Reading and      *)
(* writing are separate steps, so what a caller has read may be stale when *)
(* it writes, except where it holds the row (SELECT ... FOR UPDATE).  A    *)
(* transaction's writes show when it commits.  A request that is refused   *)
(* before it holds anything changes nothing and is no step of the model.   *)
(*                                                                         *)
(* Of the six fields of a task the model keeps one of each kind: "title"   *)
(* stands for those only owners and admins may change (description,        *)
(* priority and due_date too), "assignee_id" for those every member may    *)
(* (status too); the assignee must be a member as well.                    *)
(***************************************************************************)
EXTENDS Naturals, Sequences, FiniteSets

CONSTANTS
  Teams, Users, TaskIds, CommentIds,
  Callers,     \* requests served at the same time
  Titles,      \* values of a title
  MaxEdits,    \* bound on the history entries per task and field
  None         \* NULL; no row, no role, nobody

ASSUME MaxEditsAssumption == MaxEdits \in Nat

Fields == {"title", "assignee_id"}
Roles == {"owner", "admin", "member"}

VARIABLES
  role,       \* team_members: the role of each user in each team, or None
  tasks,      \* committed rows of tasks, or None
  history,    \* task_history: per task and field, the entries in insertion order
  comments,   \* task_comments: the row, or None
  rowLock,    \* which caller's transaction holds each task row
  call,       \* where each caller is, with what it has read
  created,    \* history: the values each task was created with
  posted      \* history: the comment ids used so far

vars == <<role, tasks, history, comments, rowLock, call, created, posted>>

\* Mutant: values are not checked.
Unchecked(f) == Titles \cup Users \cup {None, "bogus"}

\* The values of a field that the request checks let through.
isValid(f) == IF f = "title" THEN Titles ELSE Users \cup {None}

\* What a client may send for some fields; "bogus" is valid for none of them.
Values == Titles \cup Users \cup {None}
Bodies == UNION {[F -> Values \cup {"bogus"}] : F \in SUBSET Fields}

\* Mutant: members may change every field.
allFieldsForMembers(r) == IF r \in Roles THEN Fields ELSE {}

allowedTaskFields(r) == CASE r \in {"owner", "admin"} -> Fields
                          [] r = "member" -> {"assignee_id"}
                          [] OTHER -> {}

IsMember(m, u) == role[m][u] # None
IsManager(m, u) == role[m][u] \in {"owner", "admin"}

\* Mutant: the assignee is taken as it comes.
AnyAssignee(m, val) == TRUE

\* An assignee must be a member of the task's team.
AssigneeOK(m, val) ==
  ("assignee_id" \in DOMAIN val /\ val["assignee_id"] # None)
    => IsMember(m, val["assignee_id"])

\* integrityIssuesSQL.
FindTasksWithAssigneeNotMember ==
  { t \in TaskIds :
      /\ tasks[t] # None /\ tasks[t].val["assignee_id"] # None
      /\ ~IsMember(tasks[t].team, tasks[t].val["assignee_id"]) }

\* parseTaskPatch, and the like checks of CreateTask.
Parses(m, val) ==
  /\ DOMAIN val # {}
  /\ \A f \in DOMAIN val : val[f] \in isValid(f)
  /\ AssigneeOK(m, val)

Vals == [title : Titles, assignee_id : Users \cup {None}]
TaskRows == [team : Teams, val : Vals]
Entries == [old : Values, new : Values, by : Users]
CommentRows == [task : TaskIds, user : Users, by : Users]

ASSUME TasksNoneAssumption ==
  /\ None \notin Callers \cup Users \cup Roles
  /\ None \notin TaskRows \cup Vals \cup CommentRows

NoHistory == [f \in Fields |-> <<>>]

Idle == [op |-> "idle"]
Become(c, state) == call' = [call EXCEPT ![c] = state]
Unlock(c) == rowLock' = [t \in TaskIds |-> IF rowLock[t] = c THEN None ELSE rowLock[t]]

-----------------------------------------------------------------------------
\* Every team starts with its owner (TeamService.CreateTeam).
Init ==
  /\ role \in [Teams -> {[u \in Users |-> IF u = o THEN "owner" ELSE None] : o \in Users}]
  /\ tasks = [t \in TaskIds |-> None]
  /\ history = [t \in TaskIds |-> NoHistory]
  /\ comments = [m \in CommentIds |-> None]
  /\ rowLock = [t \in TaskIds |-> None]
  /\ call = [c \in Callers |-> Idle]
  /\ created = [t \in TaskIds |-> None]
  /\ posted = {}

\* TeamService.InviteByEmail adds a member; nothing removes one or changes a role.
Join(m, u, r) ==
  /\ role[m][u] = None
  /\ role' = [role EXCEPT ![m][u] = r]
  /\ UNCHANGED <<tasks, history, comments, rowLock, call, created, posted>>

-----------------------------------------------------------------------------
(* CreateTask *)

\* The checks: membership of the caller, a title, values, membership of the
\* assignee.  A task created without an assignee has none.
CreateCheck(c, u, m, body) ==
  /\ call[c] = Idle
  /\ IsMember(m, u)
  /\ "title" \in DOMAIN body
  /\ Parses(m, body)
  /\ Become(c, [op |-> "create",
                row |-> [team |-> m,
                         val |-> [f \in Fields |-> IF f \in DOMAIN body THEN body[f] ELSE None]]])
  /\ UNCHANGED <<role, tasks, history, comments, rowLock, created, posted>>

\* tasks.Create, with an id that was never used.
CreateInsert(c, t) ==
  /\ call[c].op = "create"
  /\ created[t] = None
  /\ tasks' = [tasks EXCEPT ![t] = call[c].row]
  /\ created' = [created EXCEPT ![t] = call[c].row.val]
  /\ Become(c, Idle)
  /\ UNCHANGED <<role, history, comments, rowLock, posted>>

-----------------------------------------------------------------------------
(* UpdateTask and DeleteTask *)

\* Mutant: a SELECT without FOR UPDATE does not wait.
NeverWaits(t) == TRUE

RowFree(t) == rowLock[t] = None

\* GetByIDForUpdateTx, the first query of either operation; no row, no change.
SelectForUpdate(c, u, t, op) ==
  /\ call[c] = Idle
  /\ RowFree(t)
  /\ tasks[t] # None
  /\ rowLock' = [rowLock EXCEPT ![t] = c]
  /\ Become(c, [op |-> op, user |-> u, task |-> t, row |-> tasks[t]])
  /\ UNCHANGED <<role, tasks, history, comments, created, posted>>

Update(c, u, t) == SelectForUpdate(c, u, t, "update")
Delete(c, u, t) == SelectForUpdate(c, u, t, "delete")

\* Mutant: every field the patch names counts as changed.
WholePatch(val, patch) == patch

\* buildTaskDiffEntries: the fields to which the patch gives another value.
Diff(val, patch) == [f \in {g \in DOMAIN patch : patch[g] # val[g]} |-> patch[f]]

\* GetRole, parseTaskPatch, the field check and the diff, then UpdateTx and
\* CreateBatchTx inside the transaction.
UpdateWrite(c, patch) ==
  LET k == call[c]
      diff == Diff(k.row.val, patch)
  IN  /\ k.op = "update"
      /\ Parses(k.row.team, patch)
      /\ DOMAIN patch \subseteq allowedTaskFields(role[k.row.team][k.user])
      /\ DOMAIN diff # {}
      /\ \A f \in Fields : Len(history[k.task][f]) < MaxEdits
      /\ Become(c, [op |-> "update_commit", user |-> k.user, task |-> k.task,
                    row |-> k.row, diff |-> diff])
      /\ UNCHANGED <<role, tasks, history, comments, rowLock, created, posted>>

\* tasks.UpdateTx: the changed fields are set.
UpdateTx(val, diff) == [f \in Fields |-> IF f \in DOMAIN diff THEN diff[f] ELSE val[f]]

\* history.CreateBatchTx: one entry per changed field, with the value that the
\* transaction read.
CreateBatchTx(k) ==
  [f \in Fields |->
     IF f \in DOMAIN k.diff
     THEN Append(history[k.task][f], [old |-> k.row.val[f], new |-> k.diff[f], by |-> k.user])
     ELSE history[k.task][f]]

\* The entries refer to the task by a foreign key.
UpdateCommit(c) ==
  LET k == call[c]
  IN  /\ k.op = "update_commit"
      /\ tasks[k.task] # None
      /\ tasks' = [tasks EXCEPT ![k.task].val = UpdateTx(@, k.diff)]
      /\ history' = [history EXCEPT ![k.task] = CreateBatchTx(k)]
      /\ Unlock(c)
      /\ Become(c, Idle)
      /\ UNCHANGED <<role, comments, created, posted>>

\* Mutant: members may delete tasks.
AnyMemberDeletes(m, u) == IsMember(m, u)

\* The roles that may delete a task.
MayDelete(m, u) == IsManager(m, u)

\* GetRole and the role check, then the task_deleted entry and DeleteTx.
DeleteWrite(c) ==
  LET k == call[c]
  IN  /\ k.op = "delete"
      /\ MayDelete(k.row.team, k.user)
      /\ Become(c, [op |-> "delete_commit", user |-> k.user, task |-> k.task, row |-> k.row])
      /\ UNCHANGED <<role, tasks, history, comments, rowLock, created, posted>>

\* Deleting a task deletes its comments (ON DELETE CASCADE).
Cascade(t) ==
  [m \in CommentIds |->
     IF comments[m] # None /\ comments[m].task = t THEN None ELSE comments[m]]

\* The delete cascades to the history too, the task_deleted entry included.
DeleteCommit(c) ==
  LET t == call[c].task
  IN  /\ call[c].op = "delete_commit"
      /\ tasks' = [tasks EXCEPT ![t] = None]
      /\ history' = [history EXCEPT ![t] = NoHistory]
      /\ comments' = Cascade(t)
      /\ Unlock(c)
      /\ Become(c, Idle)
      /\ UNCHANGED <<role, created, posted>>

\* The end of a transaction that does not commit: forbidden, a bad patch, an
\* empty diff, an error, the 5 second limit, or the death of the process.
Rollback(c) ==
  /\ call[c].op \in {"update", "update_commit", "delete", "delete_commit"}
  /\ Unlock(c)
  /\ Become(c, Idle)
  /\ UNCHANGED <<role, tasks, history, comments, created, posted>>

-----------------------------------------------------------------------------
(* Comments *)

\* CreateComment up to the insert.
CommentCheck(c, u, t) ==
  /\ call[c] = Idle
  /\ tasks[t] # None
  /\ IsMember(tasks[t].team, u)
  /\ Become(c, [op |-> "comment", user |-> u, task |-> t])
  /\ UNCHANGED <<role, tasks, history, comments, rowLock, created, posted>>

\* Mutant: no foreign key.
NoForeignKey(t) == TRUE

\* The foreign key check takes a shared lock on the task's row, so it waits
\* for a transaction that holds it, and fails if the row is gone.
ForeignKeyOK(t) == RowFree(t) /\ tasks[t] # None

\* comments.Create; "by" is who wrote the text last.
CommentInsert(c, m) ==
  LET k == call[c]
  IN  /\ k.op = "comment"
      /\ m \notin posted
      /\ ForeignKeyOK(k.task)
      /\ comments' = [comments EXCEPT ![m] = [task |-> k.task, user |-> k.user, by |-> k.user]]
      /\ posted' = posted \cup {m}
      /\ Become(c, Idle)
      /\ UNCHANGED <<role, tasks, history, rowLock, created>>

\* Mutant: any member may change any comment.
AnyMemberEdits(u, m) == IsMember(tasks[comments[m].task].team, u)

\* The author, or an owner or admin of the task's team.
MayEdit(u, m) ==
  LET team == tasks[comments[m].task].team
  IN  IsMember(team, u) /\ (comments[m].user = u \/ IsManager(team, u))

\* UpdateComment and DeleteComment up to the write.
EditCheck(c, u, m, op) ==
  /\ call[c] = Idle
  /\ comments[m] # None
  /\ MayEdit(u, m)
  /\ Become(c, [op |-> op, user |-> u, comment |-> m])
  /\ UNCHANGED <<role, tasks, history, comments, rowLock, created, posted>>

\* comments.Update: without a row it changes nothing, and that is no error.
CommentUpdate(c) ==
  LET k == call[c]
  IN  /\ k.op = "edit"
      /\ comments' = IF comments[k.comment] = None THEN comments
                     ELSE [comments EXCEPT ![k.comment].by = k.user]
      /\ Become(c, Idle)
      /\ UNCHANGED <<role, tasks, history, rowLock, created, posted>>

\* comments.Delete: likewise.
CommentDelete(c) ==
  /\ call[c].op = "remove"
  /\ comments' = [comments EXCEPT ![call[c].comment] = None]
  /\ Become(c, Idle)
  /\ UNCHANGED <<role, tasks, history, rowLock, created, posted>>

\* The single statement of a create, or of a comment operation, fails: the
\* foreign key, an error, the 5 second limit, or the death of the process.
StatementFails(c) ==
  /\ call[c].op \in {"create", "comment", "edit", "remove"}
  /\ Become(c, Idle)
  /\ UNCHANGED <<role, tasks, history, comments, rowLock, created, posted>>

-----------------------------------------------------------------------------
Next ==
  \/ \E m \in Teams, u \in Users, r \in {"admin", "member"} : Join(m, u, r)
  \/ \E c \in Callers :
       \/ \E u \in Users, m \in Teams, body \in Bodies : CreateCheck(c, u, m, body)
       \/ \E t \in TaskIds : CreateInsert(c, t)
       \/ \E u \in Users, t \in TaskIds : Update(c, u, t) \/ Delete(c, u, t)
       \/ \E patch \in Bodies : UpdateWrite(c, patch)
       \/ UpdateCommit(c) \/ DeleteWrite(c) \/ DeleteCommit(c) \/ Rollback(c)
       \/ \E u \in Users, t \in TaskIds : CommentCheck(c, u, t)
       \/ \E m \in CommentIds : CommentInsert(c, m)
       \/ \E u \in Users, m \in CommentIds, op \in {"edit", "remove"} : EditCheck(c, u, m, op)
       \/ CommentUpdate(c) \/ CommentDelete(c) \/ StatementFails(c)

Spec == Init /\ [][Next]_vars

-----------------------------------------------------------------------------
(* Properties *)

CallStates ==
  {Idle} \cup [op : {"create"}, row : TaskRows]
  \cup [op : {"update", "delete", "delete_commit"}, user : Users, task : TaskIds, row : TaskRows]
  \cup [op : {"update_commit"}, user : Users, task : TaskIds, row : TaskRows,
        diff : UNION {[F -> Values] : F \in SUBSET Fields}]
  \cup [op : {"comment"}, user : Users, task : TaskIds]
  \cup [op : {"edit", "remove"}, user : Users, comment : CommentIds]

\* Types: the rows hold only values the checks let through, and the calls in
\* flight hold only rows that were read or are to be written.
TypeOK ==
  /\ role \in [Teams -> [Users -> Roles \cup {None}]]
  /\ tasks \in [TaskIds -> TaskRows \cup {None}]
  /\ history \in [TaskIds -> [Fields -> Seq(Entries)]]
  /\ comments \in [CommentIds -> CommentRows \cup {None}]
  /\ rowLock \in [TaskIds -> Callers \cup {None}]
  /\ call \in [Callers -> CallStates]
  /\ created \in [TaskIds -> Vals \cup {None}]
  /\ posted \subseteq CommentIds

\* The entries h lead from value v to value w, each one a change.
Leads(h, v, w) ==
  IF h = <<>> THEN v = w
  ELSE /\ h[1].old = v /\ h[Len(h)].new = w
       /\ \A i \in 1..Len(h) : h[i].old # h[i].new
       /\ \A i \in 1..(Len(h) - 1) : h[i].new = h[i + 1].old

\* The history of a task accounts for it completely: field by field it leads,
\* without a gap and without an entry that changes nothing, from the value the
\* task was created with to the value it has, however updates interleave
\* (UpdateTask reads the row under its lock before it computes the entries).
AuditChain ==
  \A t \in TaskIds : tasks[t] # None =>
    \A f \in Fields : Leads(history[t][f], created[t][f], tasks[t].val[f])

\* Every change in the history was made by a member of the team, and a change of
\* the title by an owner or admin, although UpdateTask looks the role up outside
\* the transaction that writes.
AuditAuthority ==
  \A t \in TaskIds : tasks[t] # None =>
    \A f \in Fields : \A i \in 1..Len(history[t][f]) :
      LET by == history[t][f][i].by
      IN  IF f = "title" THEN IsManager(tasks[t].team, by) ELSE IsMember(tasks[t].team, by)

\* No task is assigned to somebody outside its team, whatever sequence of
\* creations, patches and invitations led there: the administrators' integrity
\* query finds nothing.
AssigneeIsMember == FindTasksWithAssigneeNotMember = {}

\* A comment belongs to a task that exists, although CreateComment checks the
\* task before it inserts and the task may be deleted in between.
NoOrphanComment ==
  \A m \in CommentIds : comments[m] # None => tasks[comments[m].task] # None

\* The text of a comment was last written by its author or by an owner or admin
\* of the team, although UpdateComment checks before it writes.
CommentAuthority ==
  \A m \in CommentIds : comments[m] # None /\ tasks[comments[m].task] # None =>
    \/ comments[m].by = comments[m].user
    \/ IsManager(tasks[comments[m].task].team, comments[m].by)
=============================================================================
