-------------------------- MODULE SEControlPlane --------------------------
(***************************************************************************)
(* The Software Engineering control plane of one server process: the HTTP  *)
(* handlers that delegate, approve, reject, execute, reconcile and dispose *)
(* of coding Actions, run by a pool of threads over                        *)
(*   - the durable rows (SQLite, survives a crash),                        *)
(*   - the approval registry, the action lifecycle and the action queue    *)
(*     (process memory, lost in a crash), and                              *)
(*   - the git worktrees and the coding processes (outlive a crash).       *)
(* Nothing in the process is locked: a step of this specification is one   *)
(* access to shared state, and the handlers interleave between steps.      *)
(***************************************************************************)
EXTENDS Naturals, Sequences, SERunState

CONSTANTS
  Actions,      \* ids (UUIDs) that delegation may hand out
  Threads,      \* threads of the server's request pool
  Padded,       \* actions whose objective text has surrounding blanks
  Overlapping,  \* request kinds a client may send while another request on
                \* the same action is still being served
  DatabaseFails \* whether SQLite calls may fail

Kinds == {"delegate", "approve", "reject", "execute", "release", "abandon",
          "keep", "discard"}

ASSUME ControlPlaneAssumption ==
  /\ Padded \subseteq Actions
  /\ Overlapping \subseteq Kinds \ {"delegate"}
  /\ DatabaseFails \in BOOLEAN
  /\ "none" \notin Actions

VARIABLES
  runs,        \* durable row of every action
  fresh,       \* threads whose last row snapshot still has the row's updated_at
  issued,      \* action ids handed out so far
  registry,    \* InMemoryPendingApprovalRegistry: the ids it holds
  lifecycle,   \* ActionLifecycleRepository: status per action, "none" if absent
  queue,       \* ActionQueue, per action: the objective text of its entries
  worktree,    \* git worktree and branch derived from the action id
  orphans,     \* actions whose coding process outlived the server process
  pc,          \* where each thread is in its handler
  req,         \* the request a thread serves and the handler's locals
  granted,     \* history: actions an operator has asked to approve
  coded        \* history: how often a coding process was launched

memory == <<registry, lifecycle, queue>>
external == <<worktree, orphans, coded>>
vars == <<runs, fresh, issued, registry, lifecycle, queue, worktree, orphans,
          pc, req, granted, coded>>

Statuses == {"none", "queued", "approved", "rejected", "executing",
             "completed", "failed"}
Texts == {"clean", "padded"}

(* Steps at which a thread's next access is to the SQLite repository.      *)
DatabaseSteps ==
  {"dlg_get", "dlg_put", "dec_recover", "dec_ensure", "dec_get", "dec_put",
   "dec_check", "dec_write", "ex_claim", "st_get", "st_put", "st_read",
   "st_check", "st_mark", "fin_put", "rc_put", "dp_put"}

(* After its claim, until it has recorded a result, a thread owns the run. *)
BeforeStart == {"ex_match", "ex_life", "pr_get", "pr_life", "pr_remove",
                "pr_state", "pr_exec", "st_get", "st_put", "st_read",
                "st_check", "st_mark"}
AfterStart == {"run", "launch", "coding", "fin_put"}

(* An approve or reject request after it found its Action.                 *)
DecidePcs == {"dec_recover", "dec_life", "dec_ensure", "dec_get", "dec_put",
              "dec_check", "dec_write", "dec_set", "dec_drop", "dec_enqueue"}

Steps == DatabaseSteps \cup BeforeStart \cup AfterStart \cup
         {"idle", "dec_life", "dec_set", "dec_drop", "dec_enqueue",
          "ex_queue", "fin_life", "dp_apply"}

NoRequest == [kind |-> "none", action |-> "none", cur |-> NoRow,
              seen |-> "none", text |-> "none", want |-> "none",
              out |-> "none"]

Request == [kind: Kinds \cup {"none"}, action: Actions \cup {"none"},
            cur: Row, seen: Statuses, text: Texts \cup {"none"},
            want: {"none", "awaiting"}, out: Results \cup {"none"}]

Init ==
  /\ runs = [a \in Actions |-> NoRow]
  /\ fresh = {}
  /\ issued = {}
  /\ registry = {}
  /\ lifecycle = [a \in Actions |-> "none"]
  /\ queue = [a \in Actions |-> <<>>]
  /\ worktree = [a \in Actions |-> "absent"]
  /\ orphans = {}
  /\ pc = [t \in Threads |-> "idle"]
  /\ req = [t \in Threads |-> NoRequest]
  /\ granted = {}
  /\ coded = [a \in Actions |-> 0]

---------------------------------------------------------------------------
(* Stepping through a handler.                                             *)

Go(t, step) == pc' = [pc EXCEPT ![t] = step]

Finish(t) ==
  /\ pc' = [pc EXCEPT ![t] = "idle"]
  /\ req' = [req EXCEPT ![t] = NoRequest]

(* A repository method ends by reading back the row it wrote; when that    *)
(* read raises, the handler is left with the write already committed.      *)
GoOrRaise(t, step) ==
  \/ Go(t, step) /\ UNCHANGED req
  \/ DatabaseFails /\ Finish(t)

(* Every UPDATE stamps a new updated_at, so no snapshot of the row that    *)
(* was taken before it can match the row afterwards.                       *)
Write(a, row) ==
  /\ runs' = [runs EXCEPT ![a] = row]
  /\ fresh' = {t \in fresh : req[t].action # a}

(* The text an action's own payload holds; whatever is rebuilt from the    *)
(* row is stripped.                                                        *)
PayloadText(a) == IF a \in Padded THEN "padded" ELSE "clean"

MayStart(t, kind, a) ==
  /\ pc[t] = "idle"
  /\ a \in issued
  /\ kind \in Overlapping \/ \A u \in Threads : req[u].action # a

Start(t, kind, a) == [NoRequest EXCEPT !.kind = kind, !.action = a]

---------------------------------------------------------------------------
(* POST /tasks/software-engineering                                        *)

(* The delegator routes the fresh Action, asks for permission and records  *)
(* the outcome in memory; the id is public once the registry lists it.     *)
Delegate(t, a) ==
  /\ pc[t] = "idle"
  /\ a \notin issued
  /\ issued' = issued \cup {a}
  /\ \/ /\ lifecycle' = [lifecycle EXCEPT ![a] = "queued"]
        /\ registry' = registry \cup {a}
        /\ req' = [req EXCEPT ![t] =
                     [Start(t, "delegate", a) EXCEPT !.want = "awaiting"]]
     \/ \* denied: the permission engine raised or returned no decision
        /\ lifecycle' = [lifecycle EXCEPT ![a] = "rejected"]
        /\ req' = [req EXCEPT ![t] = Start(t, "delegate", a)]
        /\ UNCHANGED registry
     \/ \* route_rejected: no executor is registered for the route
        /\ req' = [req EXCEPT ![t] = Start(t, "delegate", a)]
        /\ UNCHANGED <<lifecycle, registry>>
  /\ Go(t, "dlg_get")
  /\ UNCHANGED <<runs, fresh, queue, external, granted>>

(* register_action, first half: SELECT the row.                            *)
RegisterGet(t, from, to) ==
  /\ pc[t] = from
  /\ req' = [req EXCEPT ![t].cur = runs[req[t].action]]
  /\ Go(t, to)
  /\ UNCHANGED <<runs, fresh, issued, memory, external, granted>>

(* register_action, second half: UPDATE or INSERT what the SELECT called   *)
(* for.  A lost INSERT leaves the row and its updated_at alone.            *)
RegisterPut(t, objective, approval) ==
  LET a == req[t].action
      row == register_action(runs[a], req[t].cur, objective, approval)
  IN IF ~req[t].cur.exists /\ runs[a].exists
     THEN UNCHANGED <<runs, fresh>>
     ELSE Write(a, row)

DelegatePut(t) ==
  /\ pc[t] = "dlg_put"
  /\ RegisterPut(t, req[t].want = "awaiting", req[t].want)
  /\ Finish(t)
  /\ UNCHANGED <<issued, memory, external, granted>>

---------------------------------------------------------------------------
(* POST /actions/{id}/approve and POST /actions/{id}/reject                *)

(* _resolve_pending_action: the registry first, then the durable row.      *)
Decide(t, kind, a) ==
  /\ kind \in {"approve", "reject"}
  /\ MayStart(t, kind, a)
  /\ granted' = IF kind = "approve" THEN granted \cup {a} ELSE granted
  /\ \/ /\ a \in registry
        /\ req' = [req EXCEPT ![t] =
                     [Start(t, kind, a) EXCEPT !.text = PayloadText(a)]]
        /\ Go(t, "dec_life")
     \/ /\ a \notin registry
        /\ req' = [req EXCEPT ![t] =
                     [Start(t, kind, a) EXCEPT !.text = "clean"]]
        /\ Go(t, "dec_recover")
  /\ UNCHANGED <<runs, fresh, issued, memory, external>>

DecideRecover(t) ==
  /\ pc[t] = "dec_recover"
  /\ IF recoverable(runs[req[t].action])
     THEN Go(t, "dec_life") /\ UNCHANGED req
     ELSE Finish(t)
  /\ UNCHANGED <<runs, fresh, issued, memory, external, granted>>

(* Both decisions are transitions out of QUEUED; an absent state counts    *)
(* as QUEUED with approval required.                                       *)
DecideLifecycle(t) ==
  /\ pc[t] = "dec_life"
  /\ IF lifecycle[req[t].action] \in {"none", "queued"}
     THEN Go(t, "dec_ensure") /\ UNCHANGED req
     ELSE Finish(t)
  /\ UNCHANGED <<runs, fresh, issued, memory, external, granted>>

(* _ensure_registered asks for AWAITING_APPROVAL only if it saw no row.    *)
DecideEnsure(t) ==
  /\ pc[t] = "dec_ensure"
  /\ req' = [req EXCEPT ![t].want =
               IF runs[req[t].action].exists THEN "none" ELSE "awaiting"]
  /\ Go(t, "dec_get")
  /\ UNCHANGED <<runs, fresh, issued, memory, external, granted>>

DecidePut(t) ==
  /\ pc[t] = "dec_put"
  /\ RegisterPut(t, TRUE, req[t].want)
  /\ Go(t, "dec_check")
  /\ UNCHANGED <<issued, memory, external, req, granted>>

(* record_approval and record_rejection check the row in one transaction   *)
(* and update it in the next.                                              *)
DecideCheck(t) ==
  /\ pc[t] = "dec_check"
  /\ LET row == runs[req[t].action]
     IN IF IF req[t].kind = "approve" THEN can_record_approval(row)
                                      ELSE can_record_rejection(row)
        THEN Go(t, "dec_write") /\ UNCHANGED req
        ELSE Finish(t)
  /\ UNCHANGED <<runs, fresh, issued, memory, external, granted>>

DecideWrite(t) ==
  /\ pc[t] = "dec_write"
  /\ LET a == req[t].action
     IN Write(a, IF req[t].kind = "approve" THEN record_approval(runs[a])
                                            ELSE record_rejection(runs[a]))
  /\ GoOrRaise(t, "dec_set")
  /\ UNCHANGED <<issued, memory, external, granted>>

DecideSet(t) ==
  /\ pc[t] = "dec_set"
  /\ lifecycle' = [lifecycle EXCEPT ![req[t].action] =
                     IF req[t].kind = "approve" THEN "approved" ELSE "rejected"]
  /\ Go(t, "dec_drop")
  /\ UNCHANGED <<runs, fresh, issued, registry, queue, external, req, granted>>

DecideDrop(t) ==
  /\ pc[t] = "dec_drop"
  /\ registry' = registry \ {req[t].action}
  /\ IF req[t].kind = "approve"
     THEN Go(t, "dec_enqueue") /\ UNCHANGED req
     ELSE Finish(t)
  /\ UNCHANGED <<runs, fresh, issued, lifecycle, queue, external, granted>>

ApproveEnqueue(t) ==
  /\ pc[t] = "dec_enqueue"
  /\ queue' = [queue EXCEPT ![req[t].action] = Append(@, req[t].text)]
  /\ Finish(t)
  /\ UNCHANGED <<runs, fresh, issued, registry, lifecycle, external, granted>>

---------------------------------------------------------------------------
(* POST /tasks/software-engineering/{id}/execute                           *)

Execute(t, a) ==
  /\ MayStart(t, "execute", a)
  /\ lifecycle[a] \in {"none", "queued", "approved"}
  /\ req' = [req EXCEPT ![t] =
               [Start(t, "execute", a) EXCEPT !.seen = lifecycle[a]]]
  /\ Go(t, "ex_queue")
  /\ UNCHANGED <<runs, fresh, issued, memory, external, granted>>

ExecuteQueue(t) ==
  /\ pc[t] = "ex_queue"
  /\ LET entries == queue[req[t].action]
     IN req' = [req EXCEPT ![t].text =
                  IF entries = <<>> THEN "none" ELSE Head(entries)]
  /\ Go(t, "ex_claim")
  /\ UNCHANGED <<runs, fresh, issued, memory, external, granted>>

ExecuteClaim(t) ==
  /\ pc[t] = "ex_claim"
  /\ LET a == req[t].action
     IN IF can_claim(runs[a])
        THEN /\ Write(a, claim_approved(runs[a]))
             /\ Go(t, "ex_match")
             /\ UNCHANGED req
        ELSE Finish(t) /\ UNCHANGED <<runs, fresh>>
  /\ UNCHANGED <<issued, memory, external, granted>>

(* A queue entry must carry the text the claim recovered; when none was    *)
(* seen, the recovered Action is enqueued.                                 *)
ExecuteMatch(t) ==
  /\ pc[t] = "ex_match"
  /\ \/ /\ req[t].text = "none"
        /\ queue' = [queue EXCEPT ![req[t].action] = Append(@, "clean")]
        /\ Go(t, "ex_life")
        /\ UNCHANGED req
     \/ req[t].text = "clean" /\ Go(t, "ex_life") /\ UNCHANGED <<queue, req>>
     \/ req[t].text = "padded" /\ Finish(t) /\ UNCHANGED queue
  /\ UNCHANGED <<runs, fresh, issued, registry, lifecycle, external, granted>>

(* Mutant: execute marks the action EXECUTING before the worker sees it.   *)
ExecuteLifecycle_Early(t) ==
  /\ pc[t] = "ex_life"
  /\ lifecycle' = [lifecycle EXCEPT ![req[t].action] = "executing"]
  /\ Go(t, "pr_get")
  /\ UNCHANGED <<runs, fresh, issued, registry, queue, external, req, granted>>

ExecuteLifecycle(t) ==
  /\ pc[t] = "ex_life"
  /\ lifecycle' = IF req[t].seen \in {"none", "queued"}
                  THEN [lifecycle EXCEPT ![req[t].action] = "approved"]
                  ELSE lifecycle
  /\ Go(t, "pr_get")
  /\ UNCHANGED <<runs, fresh, issued, registry, queue, external, req, granted>>

(* WorkerRuntime.process_action: peek at the queue, look at the lifecycle, *)
(* take the entry, look at the lifecycle again.                            *)
ProcessGet(t) ==
  /\ pc[t] = "pr_get"
  /\ IF queue[req[t].action] # <<>>
     THEN Go(t, "pr_life") /\ UNCHANGED req
     ELSE Finish(t)
  /\ UNCHANGED <<runs, fresh, issued, memory, external, granted>>

ProcessLifecycle(t) ==
  /\ pc[t] = "pr_life"
  /\ IF lifecycle[req[t].action] # "queued"
     THEN Go(t, "pr_remove") /\ UNCHANGED req
     ELSE Finish(t)
  /\ UNCHANGED <<runs, fresh, issued, memory, external, granted>>

ProcessRemove(t) ==
  /\ pc[t] = "pr_remove"
  /\ LET a == req[t].action
     IN IF queue[a] # <<>>
        THEN /\ queue' = [queue EXCEPT ![a] = Tail(@)]
             /\ req' = [req EXCEPT ![t].text = Head(queue[a])]
             /\ Go(t, "pr_state")
        ELSE Finish(t) /\ UNCHANGED queue
  /\ UNCHANGED <<runs, fresh, issued, registry, lifecycle, external, granted>>

(* _process_dequeued_action: an entry whose action still awaits approval   *)
(* goes back to the queue, one that is neither approved nor stateless is   *)
(* dropped.                                                                *)
ProcessState(t) ==
  /\ pc[t] = "pr_state"
  /\ LET a == req[t].action
     IN \/ /\ lifecycle[a] \in {"none", "approved"}
           /\ Go(t, "pr_exec")
           /\ UNCHANGED <<queue, req>>
        \/ /\ lifecycle[a] = "queued"
           /\ queue' = [queue EXCEPT ![a] = Append(@, req[t].text)]
           /\ Finish(t)
        \/ /\ lifecycle[a] \notin {"none", "approved", "queued"}
           /\ Finish(t)
           /\ UNCHANGED queue
  /\ UNCHANGED <<runs, fresh, issued, registry, lifecycle, external, granted>>

ProcessExecuting(t) ==
  /\ pc[t] = "pr_exec"
  /\ lifecycle' = [lifecycle EXCEPT ![req[t].action] = "executing"]
  /\ Go(t, "st_get")
  /\ UNCHANGED <<runs, fresh, issued, registry, queue, external, req, granted>>

---------------------------------------------------------------------------
(* DurableSoftwareEngineeringExecutionObserver and the coding executor     *)

StartPut(t) ==
  /\ pc[t] = "st_put"
  /\ RegisterPut(t, FALSE, "none")
  /\ Go(t, "st_read")
  /\ UNCHANGED <<issued, memory, external, req, granted>>

(* Mutant: the test on execution_started_at is inverted.                   *)
StartRead_Inverted(t) ==
  /\ pc[t] = "st_read"
  /\ LET row == runs[req[t].action]
     IN Go(t, IF row.claim /\ row.started THEN "st_check" ELSE "run")
  /\ UNCHANGED <<runs, fresh, issued, memory, external, req, granted>>

(* The start is recorded only for a claimed, unstarted row; for any other  *)
(* row the observer returns and the execution goes on without it.          *)
StartRead(t) ==
  /\ pc[t] = "st_read"
  /\ LET row == runs[req[t].action]
     IN Go(t, IF row.claim /\ ~row.started THEN "st_check" ELSE "run")
  /\ UNCHANGED <<runs, fresh, issued, memory, external, req, granted>>

StartCheck(t) ==
  /\ pc[t] = "st_check"
  /\ IF can_record_execution_started(runs[req[t].action])
     THEN Go(t, "st_mark") /\ UNCHANGED req
     ELSE Finish(t)
  /\ UNCHANGED <<runs, fresh, issued, memory, external, granted>>

StartMark(t) ==
  /\ pc[t] = "st_mark"
  /\ LET a == req[t].action
     IN Write(a, record_execution_started(runs[a]))
  /\ GoOrRaise(t, "run")
  /\ UNCHANGED <<issued, memory, external, granted>>

(* The executor needs a new worktree on a new branch, and then starts the  *)
(* coding process in it.                                                   *)
CreateWorktree(t) ==
  LET a == req[t].action
  IN /\ pc[t] = "run"
     /\ worktree[a] = "absent"
     /\ worktree' = [worktree EXCEPT ![a] = "present"]
     /\ Go(t, "launch")
     /\ UNCHANGED <<coded, req>>

Launch(t) ==
  /\ pc[t] = "launch"
  /\ coded' = [coded EXCEPT ![req[t].action] = @ + 1]
  /\ Go(t, "coding")
  /\ UNCHANGED <<worktree, req>>

(* A preflight check, git (which may leave parts behind) or starting the   *)
(* process fails before anything ran.                                      *)
FailToLaunch(t) ==
  LET a == req[t].action
  IN /\ \/ UNCHANGED worktree
        \/ /\ pc[t] = "run" /\ worktree[a] = "absent"
           /\ \E left \in {"present", "branch_only"} :
                worktree' = [worktree EXCEPT ![a] = left]
     /\ req' = [req EXCEPT ![t].out = "failed"]
     /\ Go(t, "fin_put")
     /\ UNCHANGED coded

RunExecutor(t) ==
  /\ pc[t] \in {"run", "launch"}
  /\ CreateWorktree(t) \/ Launch(t) \/ FailToLaunch(t)
  /\ UNCHANGED <<runs, fresh, issued, memory, orphans, granted>>

CoderExits(t) ==
  /\ pc[t] = "coding"
  /\ \E out \in Results : req' = [req EXCEPT ![t].out = out]
  /\ Go(t, "fin_put")
  /\ UNCHANGED <<runs, fresh, issued, memory, external, granted>>

FinishPut(t) ==
  /\ pc[t] = "fin_put"
  /\ LET a == req[t].action
     IN Write(a, record_execution(runs[a], req[t].out))
  /\ GoOrRaise(t, "fin_life")
  /\ UNCHANGED <<issued, memory, external, granted>>

(* Mutant: every outcome is reported as COMPLETED.                         *)
FinishLifecycle_Completes(t) ==
  /\ pc[t] = "fin_life"
  /\ lifecycle' = [lifecycle EXCEPT ![req[t].action] = "completed"]
  /\ Finish(t)
  /\ UNCHANGED <<runs, fresh, issued, registry, queue, external, granted>>

FinishLifecycle(t) ==
  /\ pc[t] = "fin_life"
  /\ lifecycle' = [lifecycle EXCEPT ![req[t].action] =
                     IF req[t].out = "succeeded" THEN "completed" ELSE "failed"]
  /\ Finish(t)
  /\ UNCHANGED <<runs, fresh, issued, registry, queue, external, granted>>

---------------------------------------------------------------------------
(* POST /tasks/software-engineering/{id}/claim/reconcile                   *)

(* Only the state token of the row as it now is gets past the check, so a  *)
(* client that holds an older token changes nothing.                       *)
Reconcile(t, kind, a) ==
  /\ kind \in {"release", "abandon"}
  /\ MayStart(t, kind, a)
  /\ IF kind = "release" THEN require_releasable(runs[a])
                         ELSE require_abandonable(runs[a])
  /\ fresh' = fresh \cup {t}
  /\ req' = [req EXCEPT ![t] = Start(t, kind, a)]
  /\ Go(t, "rc_put")
  /\ UNCHANGED <<runs, issued, memory, external, granted>>

ReconcilePut(t) ==
  /\ pc[t] = "rc_put"
  /\ LET a == req[t].action
     IN IF /\ t \in fresh
           /\ IF req[t].kind = "release" THEN can_release(runs[a])
                                         ELSE can_abandon(runs[a])
        THEN Write(a, IF req[t].kind = "release"
                      THEN release_unstarted_claim(runs[a])
                      ELSE abandon_started_claim(runs[a]))
        ELSE fresh' = fresh \ {t} /\ UNCHANGED runs
  /\ Finish(t)
  /\ UNCHANGED <<issued, memory, external, granted>>

---------------------------------------------------------------------------
(* POST /tasks/software-engineering/{id}/work-product/disposition          *)

(* Mutant: the work product is disposed of before a result exists.         *)
Dispose_Unfinished(t, kind, a) ==
  /\ kind \in Dispositions
  /\ MayStart(t, kind, a)
  /\ req' = [req EXCEPT ![t] = Start(t, kind, a)]
  /\ Go(t, "dp_apply")
  /\ UNCHANGED <<runs, fresh, issued, memory, external, granted>>

Dispose(t, kind, a) ==
  /\ kind \in Dispositions
  /\ MayStart(t, kind, a)
  /\ runs[a].execution # "none"
  /\ req' = [req EXCEPT ![t] = Start(t, kind, a)]
  /\ Go(t, "dp_apply")
  /\ UNCHANGED <<runs, fresh, issued, memory, external, granted>>

(* KEEP verifies the worktree.  DISCARD removes worktree and branch; what  *)
(* is left behind when git fails is not recorded as a disposition.  Its    *)
(* git commands are one step here: SEPromotion, where promotions commit    *)
(* into the same worktree, takes them one by one.                          *)
DisposeApply(t) ==
  /\ pc[t] = "dp_apply"
  /\ LET a == req[t].action
     IN \/ /\ worktree[a] = "present"
           /\ worktree' = [worktree EXCEPT ![a] =
                             IF req[t].kind = "discard" THEN "absent" ELSE @]
           /\ Go(t, "dp_put")
           /\ UNCHANGED req
        \/ /\ worktree[a] = "present" /\ req[t].kind = "discard"
           /\ \E left \in {"present", "branch_only", "absent"} :
                worktree' = [worktree EXCEPT ![a] = left]
           /\ Finish(t)
        \/ worktree[a] # "present" /\ Finish(t) /\ UNCHANGED worktree
  /\ UNCHANGED <<runs, fresh, issued, memory, orphans, coded, granted>>

DisposePut(t) ==
  /\ pc[t] = "dp_put"
  /\ LET a == req[t].action
     IN Write(a, record_disposition(runs[a], req[t].kind))
  /\ Finish(t)
  /\ UNCHANGED <<issued, memory, external, granted>>

---------------------------------------------------------------------------
(* Failures                                                                *)

(* A repository call raises: the exception leaves the handler, and what    *)
(* the handler did before stays done.                                      *)
DatabaseError(t) ==
  /\ DatabaseFails
  /\ pc[t] \in DatabaseSteps
  /\ fresh' = fresh \ {t}
  /\ Finish(t)
  /\ UNCHANGED <<runs, issued, memory, external, granted>>

(* The process dies.  Coding processes run in sessions of their own and    *)
(* survive it.                                                             *)
Crash ==
  /\ fresh' = {}
  /\ registry' = {}
  /\ lifecycle' = [a \in Actions |-> "none"]
  /\ queue' = [a \in Actions |-> <<>>]
  /\ orphans' = orphans \cup {a \in Actions : \E t \in Threads :
                                 pc[t] = "coding" /\ req[t].action = a}
  /\ pc' = [t \in Threads |-> "idle"]
  /\ req' = [t \in Threads |-> NoRequest]
  /\ UNCHANGED <<runs, issued, worktree, granted, coded>>

OrphanExits(a) ==
  /\ a \in orphans
  /\ orphans' = orphans \ {a}
  /\ UNCHANGED <<runs, fresh, issued, memory, worktree, coded, pc, req, granted>>

---------------------------------------------------------------------------
Requests(t, a) ==
  \/ Delegate(t, a)
  \/ \E kind \in {"approve", "reject"} : Decide(t, kind, a)
  \/ Execute(t, a)
  \/ \E kind \in {"release", "abandon"} : Reconcile(t, kind, a)
  \/ \E kind \in Dispositions : Dispose(t, kind, a)

DecisionSteps(t) ==
  \/ DecideRecover(t) \/ DecideLifecycle(t) \/ DecideEnsure(t)
  \/ RegisterGet(t, "dec_get", "dec_put") \/ DecidePut(t)
  \/ DecideCheck(t) \/ DecideWrite(t)
  \/ DecideSet(t) \/ DecideDrop(t) \/ ApproveEnqueue(t)

ExecutionSteps(t) ==
  \/ ExecuteQueue(t) \/ ExecuteClaim(t) \/ ExecuteMatch(t)
  \/ ExecuteLifecycle(t)
  \/ ProcessGet(t) \/ ProcessLifecycle(t) \/ ProcessRemove(t)
  \/ ProcessState(t) \/ ProcessExecuting(t)
  \/ RegisterGet(t, "st_get", "st_put") \/ StartPut(t)
  \/ StartRead(t) \/ StartCheck(t) \/ StartMark(t)
  \/ RunExecutor(t) \/ CoderExits(t) \/ FinishPut(t) \/ FinishLifecycle(t)

OtherSteps(t) ==
  \/ RegisterGet(t, "dlg_get", "dlg_put") \/ DelegatePut(t)
  \/ ReconcilePut(t) \/ DisposeApply(t) \/ DisposePut(t)
  \/ DatabaseError(t)

HandlerStep(t) == DecisionSteps(t) \/ ExecutionSteps(t) \/ OtherSteps(t)

(* What happens while the server process lives.                            *)
Running ==
  \/ \E t \in Threads : (\E a \in Actions : Requests(t, a)) \/ HandlerStep(t)
  \/ \E a \in Actions : OrphanExits(a)

Next == Running \/ Crash

Spec == Init /\ [][Next]_vars
---------------------------------------------------------------------------
(* Properties                                                              *)

(* Every variable holds values of its type.                                *)
TypeOK ==
  /\ runs \in [Actions -> Row]
  /\ fresh \subseteq Threads
  /\ issued \subseteq Actions
  /\ registry \subseteq Actions
  /\ lifecycle \in [Actions -> Statuses]
  /\ queue \in [Actions -> Seq(Texts)]
  /\ worktree \in [Actions -> {"absent", "present", "branch_only"}]
  /\ orphans \subseteq Actions
  /\ pc \in [Threads -> Steps]
  /\ req \in [Threads -> Request]
  /\ granted \subseteq Actions
  /\ coded \in [Actions -> Nat]

Serves(t, a) == req[t].action = a

(* A coding process is at work on the action: launched by a thread that    *)
(* waits for it, or left over from a process that died.                    *)
CoderAlive(a) ==
  \/ a \in orphans
  \/ \E t \in Threads : pc[t] = "coding" /\ Serves(t, a)

(* Approval first: no coding process is ever launched for an action that   *)
(* no operator asked to approve, whatever the interleaving and however     *)
(* often the process restarts (permission, approval, claim, worker).       *)
NoRunWithoutApproval ==
  \A a \in Actions : coded[a] > 0 => a \in granted

(* A coding run is not idempotent: one action launches at most one coding  *)
(* process, through crashes, releases and repeated execute requests.       *)
AtMostOneCodingRun == \A a \in Actions : coded[a] <= 1

(* While a coding process works on an action, the row holds a started      *)
(* claim without a result and the worktree is there: nothing releases the  *)
(* claim, records a result or discards the worktree under the process,     *)
(* even after the server died and only the process is left.                *)
CodingHoldsClaim ==
  \A a \in Actions : CoderAlive(a) =>
    /\ runs[a].claim /\ runs[a].started /\ runs[a].execution = "none"
    /\ worktree[a] = "present"

(* The evidence a release relies on: a row without execution_started_at    *)
(* never has a worktree or a coding process behind it, because the mark is *)
(* committed before the executor touches git.                              *)
SideEffectsAreMarked ==
  \A a \in Actions :
    worktree[a] # "absent" \/ coded[a] > 0 => runs[a].started

(* status.retriable, computed in run_control, is true exactly for the rows *)
(* that claim_approved, in the repository, accepts.                        *)
RetriableIsHonest ==
  \A a \in Actions : retriable(runs[a]) <=> can_claim(runs[a])

(* A recorded execution result is never replaced by another one.           *)
ResultWrittenOnce ==
  [][\A a \in Actions : runs[a].execution # "none" =>
       runs'[a].execution = runs[a].execution]_runs

(* A durable rejection is final.                                           *)
RejectionIsFinal ==
  [][\A a \in Actions : runs[a].approval = "rejected" =>
       runs'[a].approval = "rejected"]_runs

(* The objective text is gone once the action was rejected, abandoned or   *)
(* executed.                                                               *)
ObjectiveScrubbed ==
  \A a \in Actions :
    \/ runs[a].approval = "rejected"
    \/ runs[a].resolution = "abandoned"
    \/ runs[a].execution # "none"
    => ~runs[a].objective

(* What status offers as a reconciliation is what reconcile accepts, so a  *)
(* claim without a result can always be resolved by the operator.          *)
ClaimIsReconcilable ==
  \A a \in Actions :
    /\ "release" \in reconciliation_options(runs[a])
          => require_releasable(runs[a]) /\ can_release(runs[a])
    /\ "abandon" \in reconciliation_options(runs[a])
          => require_abandonable(runs[a]) /\ can_abandon(runs[a])

(* A claim hands execution the envelope that was approved: a queue entry   *)
(* never differs from the Action recovered from the row.                   *)
ClaimMatchesQueue ==
  \A t \in Threads : pc[t] = "ex_match" => req[t].text # "padded"

(* No live handler serves the action, and its row is decided: then process *)
(* memory and the row tell the same story about it.                        *)
Quiet(a) == \A t \in Threads : ~Serves(t, a)

MemoryAgreesWithRow ==
  \A a \in Actions : Quiet(a) =>
    /\ runs[a].approval = "rejected" =>
         lifecycle[a] \in {"none", "queued", "rejected"} /\ queue[a] = <<>>
    /\ lifecycle[a] = "approved" => runs[a].approval = "approved"
    /\ lifecycle[a] = "completed" => runs[a].execution = "succeeded"
    /\ lifecycle[a] = "executing" => runs[a].claim /\ ~CoderAlive(a)

(* What status calls retriable can be executed now: no leftover lifecycle  *)
(* status of this process makes /execute refuse it.                        *)
RetriableIsExecutable ==
  \A a \in Actions :
    Quiet(a) /\ retriable(runs[a]) =>
      lifecycle[a] \in {"none", "queued", "approved"}

---------------------------------------------------------------------------
(* Who owns a run.  The parts of the argument that claim, start, coder and *)
(* result stay in order when handlers, crashes and failed database calls   *)
(* interleave, as long as nobody releases a claim under a live handler.    *)

(* Between its claim and its result a thread is the owner of the run.      *)
Owns(t, a) == Serves(t, a) /\ pc[t] \in BeforeStart \cup AfterStart

(* The locals a handler relies on at its later steps.                      *)
LocalsFit(t) ==
  /\ pc[t] # "idle" => req[t].action \in Actions
  /\ pc[t] \in DecidePcs => req[t].kind \in {"approve", "reject"}
                            /\ req[t].text \in Texts
  /\ pc[t] \in DecidePcs /\ req[t].kind = "approve"
       => req[t].action \in granted
  /\ pc[t] = "dec_write" => runs[req[t].action].exists
  /\ pc[t] = "pr_state" => req[t].text \in Texts
  /\ pc[t] \in {"fin_put", "fin_life"} => req[t].out \in Results
  /\ pc[t] = "rc_put" => req[t].kind \in {"release", "abandon"}
  /\ pc[t] \in {"dp_apply", "dp_put"} =>
       req[t].kind \in Dispositions /\ runs[req[t].action].execution # "none"
  /\ t \in fresh => pc[t] = "rc_put"

HandlerLocals == \A t \in Threads : LocalsFit(t)

(* Which columns of a row can be set together.                             *)
RowShape ==
  \A a \in Actions :
    LET row == runs[a]
    IN /\ ~row.exists => ~row.claim /\ row.approval # "approved"
       /\ row.started => row.claim
       /\ row.execution # "none" => row.started
       /\ row.resolution = "abandoned" => row.started
       /\ row.approval = "approved" /\ ~row.started => row.objective
       /\ row.approval = "approved" \/ row.claim => a \in granted

(* The owner is alone, and the row says how far it is.                     *)
OwnerHoldsRow ==
  \A t \in Threads, a \in Actions : Owns(t, a) =>
    /\ runs[a].claim
    /\ runs[a].execution = "none"
    /\ runs[a].started <=> pc[t] \in AfterStart
    /\ \A u \in Threads : Owns(u, a) => u = t

(* A release that can still succeed has no live owner to pull the claim    *)
(* away from.                                                              *)
ReleaseFindsNoOwner ==
  \A t \in Threads : t \in fresh /\ req[t].kind = "release" =>
    \A u \in Threads : ~Owns(u, req[t].action)

(* Worktrees, coding processes and launches are covered by a started row.  *)
SideEffects ==
  \A a \in Actions :
    /\ ~runs[a].started => worktree[a] = "absent" /\ coded[a] = 0
    /\ coded[a] <= 1
    /\ a \in orphans =>
         /\ runs[a].started /\ runs[a].execution = "none"
         /\ worktree[a] = "present"
         /\ \A t \in Threads : ~Owns(t, a)
    /\ \A t \in Threads : Serves(t, a) =>
         /\ pc[t] \in {"run", "launch"} => coded[a] = 0
         /\ pc[t] \in {"launch", "coding"} => worktree[a] = "present"

(* The inductive invariant behind the theorems about claims and runs.      *)
ClaimDiscipline ==
  /\ HandlerLocals
  /\ RowShape
  /\ OwnerHoldsRow
  /\ ReleaseFindsNoOwner
  /\ SideEffects

---------------------------------------------------------------------------
(* The control plane implements the ledger: in every phase a row can be    *)
(* in, each step of every handler, every crash and every failed database   *)
(* call is a step of the ledger or leaves it alone.                        *)
phase ==
  [a \in Actions |->
     LET row == runs[a]
     IN IF row.execution # "none" THEN "finished"
        ELSE IF row.resolution = "abandoned" THEN "abandoned"
        ELSE IF row.claim /\ row.started THEN "started"
        ELSE IF row.claim THEN "claimed"
        ELSE "open"]

Ledger == INSTANCE ExecutionLedger
            WITH approved <- granted, attempts <- coded

ImplementsLedger == Ledger!Spec

===========================================================================
