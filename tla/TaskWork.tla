--------------------------------- MODULE TaskWork ---------------------------------
(***************************************************************************)
(* The tasks of one client: codes drawn from a sequence row under its      *)
(* lock, codes of subtasks counted from the subtasks there are, deletion   *)
(* with its cascade after the commit, and dependencies between tasks.      *)
(*                                                                         *)
(* The code TASK-7-B is <<7, 1>>: the number of the sequence, then for     *)
(* every level the count of subtasks that was found.  The sequence row is  *)
(* there: no index keeps two first tasks from inserting one each.  The     *)
(* body of an update of a subtask is not validated, and may carry another  *)
(* code and another parent.  Status, archiving, assignees, time logs and   *)
(* templates' texts are left out.                                          *)
(***************************************************************************)
EXTENDS Naturals, Sequences, FiniteSets

CONSTANTS Users,      \* requests that may overlap
          Tasks,      \* ids of the tasks ever created
          TemplateItems,   \* numbers of subtasks of the templates
          CodesSent,    \* codes that the body of an update may carry
          NoTask

ASSUME TasksAssumption ==
  NoTask \notin Tasks \union Users /\ IsFiniteSet(Tasks) /\ TemplateItems \subseteq Nat
  /\ CodesSent \subseteq Seq(Nat)

VARIABLES lastNumber,  \* task_sequences: currentSequence
          holder,      \* the transaction that has locked the sequence row, or NoTask
          tasks,       \* tasks rows: code, parent, deletedAt, isDeleted
          depends,     \* task_dependencies: <<task, task it depends on>>
          request,     \* per user: the next statement of the request, and what it read
          rewritten,   \* history: the subtasks to which an update gave a code or a parent
          bereft       \* history: the tasks whose subtask an update gave another parent

taskVars == <<lastNumber, holder, tasks, depends, request, rewritten, bereft>>

NoRequest == [at |-> "idle"]
Unmade == [state |-> "unmade"]
Task == [code : Seq(Nat), parent : Tasks \union {NoTask}, deleted : BOOLEAN, hidden : BOOLEAN]

Made == {t \in Tasks : tasks[t] # Unmade}
\* The rows a paranoid query finds.
Found == {t \in Made : ~tasks[t].deleted}
Children(p) == {t \in Made : tasks[t].parent = p}

NewTask(code, parent) == [code |-> code, parent |-> parent, deleted |-> FALSE, hidden |-> FALSE]

Turns(u, next) == request' = [request EXCEPT ![u] = next]
Unlock(u) == holder' = IF holder = u THEN NoTask ELSE holder

-----------------------------------------------------------------------------
\* create, and the task and subtasks of a template.

\* The row is read FOR UPDATE: whoever reads it next waits for the commit.
LockSequence(u) ==
  /\ request[u] = NoRequest
  /\ holder = NoTask
  /\ holder' = u
  /\ Turns(u, [at |-> "insert", number |-> lastNumber + 1])
  /\ UNCHANGED <<lastNumber, tasks, depends, rewritten, bereft>>

\* A task, or a task with one subtask per item of its template, and the commit.
InsertTask(u) ==
  /\ request[u].at = "insert"
  /\ \E t \in Tasks \ Made, items \in {0} \union TemplateItems :
       \E subtasks \in [1 .. items -> Tasks \ (Made \union {t})] :
         /\ \A i, j \in 1 .. items : subtasks[i] = subtasks[j] => i = j
         /\ tasks' = [r \in Tasks |->
              IF r = t THEN NewTask(<<request[u].number>>, NoTask)
              ELSE IF \E i \in 1 .. items : subtasks[i] = r
              THEN NewTask(<<request[u].number, (CHOOSE i \in 1 .. items : subtasks[i] = r) - 1>>, t)
              ELSE tasks[r]]
  /\ lastNumber' = request[u].number
  /\ Unlock(u)
  /\ Turns(u, NoRequest)
  /\ UNCHANGED <<depends, rewritten, bereft>>

\* (mutant) subtasks that were deleted are not counted
SiblingsFound(p) == Cardinality(Children(p) \intersect Found)

\* Subtasks that were deleted count.
Siblings(p) == Cardinality(Children(p))

CountSubtasks(u) ==
  /\ request[u] = NoRequest
  /\ \E p \in Found :
       Turns(u, [at |-> "insertSubtask", parent |-> p, code |-> Append(tasks[p].code, Siblings(p))])
  /\ UNCHANGED <<lastNumber, holder, tasks, depends, rewritten, bereft>>

InsertSubtask(u) ==
  /\ request[u].at = "insertSubtask"
  /\ \E t \in Tasks \ Made : tasks' = [tasks EXCEPT ![t] = NewTask(request[u].code, request[u].parent)]
  /\ Turns(u, NoRequest)
  /\ UNCHANGED <<lastNumber, holder, depends, rewritten, bereft>>

-----------------------------------------------------------------------------
\* updateSubtask: the body is of any type, so that all of it reaches the row.

FindSubtask(u) ==
  /\ request[u] = NoRequest
  /\ \E t \in Found : /\ tasks[t].parent # NoTask /\ ~tasks[t].hidden
                     /\ Turns(u, [at |-> "rewrite", task |-> t])
  /\ UNCHANGED <<lastNumber, holder, tasks, depends, rewritten, bereft>>

\* A row that was deleted meanwhile is not written.
RewriteSubtask(u) ==
  /\ request[u].at = "rewrite"
  /\ LET t == request[u].task IN
       \/ t \notin Found /\ UNCHANGED <<tasks, rewritten, bereft>>
       \/ /\ t \in Found
          /\ \E code \in CodesSent \union {tasks[t].code}, parent \in Made \union {NoTask} :
               /\ tasks' = [tasks EXCEPT ![t].code = code, ![t].parent = parent]
               /\ bereft' = bereft \union ({tasks[t].parent} \ {parent, NoTask})
          /\ rewritten' = rewritten \union {t}
  /\ Turns(u, NoRequest)
  /\ UNCHANGED <<lastNumber, holder, depends>>

-----------------------------------------------------------------------------
\* delete, bulkDelete, restore.

\* The transaction; the subtasks of a top-level task follow after the commit.
DeleteTask(u) ==
  /\ request[u] = NoRequest
  /\ \E t \in Found :
       /\ tasks' = [tasks EXCEPT ![t].deleted = TRUE]
       /\ Turns(u, IF tasks[t].parent = NoTask THEN [at |-> "hide", parent |-> t] ELSE NoRequest)
  /\ UNCHANGED <<lastNumber, holder, depends, rewritten, bereft>>

\* Two statements: isDeleted, then deletedAt, on whichever subtasks there are by now.
HideSubtasks(u) ==
  /\ request[u].at = "hide"
  /\ tasks' = [t \in Tasks |->
       IF t \in Found \intersect Children(request[u].parent) THEN [tasks[t] EXCEPT !.hidden = TRUE] ELSE tasks[t]]
  /\ Turns(u, [request[u] EXCEPT !.at = "destroy"])
  /\ UNCHANGED <<lastNumber, holder, depends, rewritten, bereft>>

DestroySubtasks(u) ==
  /\ request[u].at = "destroy"
  /\ tasks' = [t \in Tasks |->
       IF t \in Children(request[u].parent) THEN [tasks[t] EXCEPT !.deleted = TRUE] ELSE tasks[t]]
  /\ Turns(u, NoRequest)
  /\ UNCHANGED <<lastNumber, holder, depends, rewritten, bereft>>

\* No cascade; restore leaves isDeleted as it is.
BulkDelete(u) ==
  /\ request[u] = NoRequest
  /\ \E chosen \in (SUBSET Found) \ {{}} :
       tasks' = [t \in Tasks |-> IF t \in chosen THEN [tasks[t] EXCEPT !.deleted = TRUE] ELSE tasks[t]]
  /\ UNCHANGED <<lastNumber, holder, depends, request, rewritten, bereft>>

RestoreTask(u) ==
  /\ request[u] = NoRequest
  /\ \E t \in Made \ Found : tasks' = [tasks EXCEPT ![t].deleted = FALSE]
  /\ UNCHANGED <<lastNumber, holder, depends, request, rewritten, bereft>>

-----------------------------------------------------------------------------
\* Dependencies: wouldCreateCycle walks them, one query per task, before the insert.

BeginDependency(u) ==
  /\ request[u] = NoRequest
  /\ \E t, d \in Found :
       /\ t # d /\ <<t, d>> \notin depends
       /\ Turns(u, [at |-> "walk", task |-> t, on |-> d, queue |-> {d}, visited |-> {}])
  /\ UNCHANGED <<lastNumber, holder, tasks, depends, rewritten, bereft>>

DirectDependencies(t) == {d \in Tasks : <<t, d>> \in depends}

\* The order of the queue does not matter: all of it is visited, or the task is met.
Walk(u) ==
  /\ request[u].at = "walk"
  /\ LET r == request[u] IN
       IF r.task \in r.queue THEN Turns(u, NoRequest)
       ELSE IF r.queue = {} THEN Turns(u, [at |-> "depend", task |-> r.task, on |-> r.on])
       ELSE \E t \in r.queue :
              Turns(u, [r EXCEPT !.visited = @ \union {t},
                                   !.queue = (@ \union DirectDependencies(t)) \ (r.visited \union {t})])
  /\ UNCHANGED <<lastNumber, holder, tasks, depends, rewritten, bereft>>

Depend(u) ==
  /\ request[u].at = "depend"
  /\ depends' = depends \union {<<request[u].task, request[u].on>>}
  /\ Turns(u, NoRequest)
  /\ UNCHANGED <<lastNumber, holder, tasks, rewritten, bereft>>

RemoveDependency(u) ==
  /\ request[u] = NoRequest
  /\ \E d \in depends : depends' = depends \ {d}
  /\ UNCHANGED <<lastNumber, holder, tasks, request, rewritten, bereft>>

\* The process stops, or a statement fails: an open transaction is undone, a cascade is not finished.
FailRequest(u) ==
  /\ request[u] # NoRequest
  /\ Unlock(u)
  /\ Turns(u, NoRequest)
  /\ UNCHANGED <<lastNumber, tasks, depends, rewritten, bereft>>

-----------------------------------------------------------------------------
TasksInit ==
  /\ lastNumber = 0
  /\ holder = NoTask
  /\ tasks = [t \in Tasks |-> Unmade]
  /\ depends = {}
  /\ request = [u \in Users |-> NoRequest]
  /\ rewritten = {} /\ bereft = {}

Accept(u) ==
  \/ LockSequence(u) \/ CountSubtasks(u) \/ FindSubtask(u)
  \/ DeleteTask(u) \/ BulkDelete(u) \/ RestoreTask(u)
  \/ BeginDependency(u) \/ RemoveDependency(u)
Resume(u) ==
  \/ InsertTask(u) \/ InsertSubtask(u) \/ RewriteSubtask(u)
  \/ HideSubtasks(u) \/ DestroySubtasks(u)
  \/ Walk(u) \/ Depend(u)

TasksNext == \E u \in Users : Accept(u) \/ Resume(u) \/ FailRequest(u)

TasksSpec == TasksInit /\ [][TasksNext]_taskVars

-----------------------------------------------------------------------------
TasksTypeOK ==
  /\ lastNumber \in Nat
  /\ holder \in Users \union {NoTask}
  /\ \A t \in Made : tasks[t] \in Task
  /\ depends \subseteq Tasks \X Tasks
  /\ \A u \in Users : request[u].at \in {"idle", "insert", "insertSubtask", "rewrite", "hide", "destroy", "walk", "depend"}
  /\ rewritten \subseteq Tasks /\ bereft \subseteq Tasks

\* Two tasks never share a number of the sequence, however creations overlap and fail: what an
\* update made of a subtask has none.
NumbersUnique ==
  \A t, s \in Made \ rewritten :
    tasks[t].parent = NoTask /\ tasks[s].parent = NoTask /\ tasks[t].code = tasks[s].code => t = s

\* Two subtasks of one task have different codes, deleted and restored ones included, as long as
\* no update took a subtask from that task: the next one is then counted among fewer.  Nothing is
\* said of a subtask whose code an update wrote.  Requests one at a time: two subtasks counted at
\* once get the same letter.
CodesUnique ==
  \A t, s \in Made \ rewritten :
    /\ tasks[t].parent = tasks[s].parent /\ tasks[t].parent # NoTask /\ tasks[t].parent \notin bereft
    /\ tasks[t].code = tasks[s].code
    => t = s

\* No task depends on itself through others.  Requests one at a time: two walks that
\* overlap each miss what the other is about to insert.
Acyclic ==
  \A group \in (SUBSET Tasks) \ {{}} : \E t \in group : DirectDependencies(t) \intersect group = {}
=============================================================================
