----------------------- MODULE SEControlPlaneProofs -----------------------
(***************************************************************************)
(* Proofs about SEControlPlane, for any number of actions and threads and  *)
(* any set of overlapping requests without "release".                      *)
(***************************************************************************)
EXTENDS SEControlPlane, TLAPS

IInv == TypeOK /\ ClaimDiscipline

(* The operators on rows return rows.                                      *)
LEMMA RowTypes ==
  ASSUME NEW row \in Row
  PROVE  /\ \A cur \in Row, o \in BOOLEAN, p \in Approvals :
              register_action(row, cur, o, p) \in Row
         /\ record_approval(row) \in Row
         /\ record_rejection(row) \in Row
         /\ claim_approved(row) \in Row
         /\ record_execution_started(row) \in Row
         /\ release_unstarted_claim(row) \in Row
         /\ abandon_started_claim(row) \in Row
         /\ \A s \in Results : record_execution(row, s) \in Row
         /\ \A d \in Dispositions : record_disposition(row, d) \in Row
<1> USE DEF Row, NoRow, Approvals, Resolutions, Results, Dispositions
<1>1. ASSUME NEW cur \in Row, NEW o \in BOOLEAN, NEW p \in Approvals
      PROVE  register_action(row, cur, o, p) \in Row
  <2>1. CASE cur.exists
    <3> DEFINE text == row.objective \/ (o /\ ~cur.objective)
               status == IF p = "none" THEN row.approval ELSE p
    <3>1. text \in BOOLEAN /\ status \in Approvals
      OBVIOUS
    <3>2. register_action(row, cur, o, p) =
            [row EXCEPT !.objective = text, !.approval = status]
      BY <2>1 DEF register_action
    <3> HIDE DEF text, status
    <3> QED BY <3>1, <3>2
  <2>2. CASE ~cur.exists /\ row.exists
    BY <2>2 DEF register_action
  <2>3. CASE ~cur.exists /\ ~row.exists
    <3>1. register_action(row, cur, o, p) =
            [exists |-> TRUE, objective |-> o, approval |-> p, claim |-> FALSE,
             started |-> FALSE, resolution |-> "none", execution |-> "none",
             disposition |-> "none"]
      BY <2>3 DEF register_action
    <3> QED BY <3>1
  <2> QED BY <2>1, <2>2, <2>3
<1>2. /\ record_approval(row) \in Row
      /\ record_rejection(row) \in Row
  BY DEF record_approval, record_rejection
<1>3. /\ claim_approved(row) \in Row
      /\ record_execution_started(row) \in Row
  BY DEF claim_approved, record_execution_started
<1>4. /\ release_unstarted_claim(row) \in Row
      /\ abandon_started_claim(row) \in Row
  BY DEF release_unstarted_claim, abandon_started_claim
<1>5. /\ \A s \in Results : record_execution(row, s) \in Row
      /\ \A d \in Dispositions : record_disposition(row, d) \in Row
  BY DEF record_execution, record_disposition
<1> QED BY <1>1, <1>2, <1>3, <1>4, <1>5

(* What a step may do without disturbing the discipline: thread t moves on *)
(* inside its handler, no row changes its claim, start or result.          *)
LEMMA HandlerStepKeepsDiscipline ==
  ASSUME TypeOK, ClaimDiscipline, TypeOK',
         NEW t \in Threads,
         \A u \in Threads \ {t} : pc'[u] = pc[u] /\ req'[u] = req[u],
         \A a \in Actions : /\ runs'[a].claim = runs[a].claim
                            /\ runs'[a].started = runs[a].started
                            /\ runs'[a].execution = runs[a].execution
                            /\ runs[a].exists => runs'[a].exists,
         fresh' \subseteq fresh,
         granted \subseteq granted',
         UNCHANGED external,
         RowShape',
         LocalsFit(t)',
         pc'[t] \in BeforeStart =>
           pc[t] \in BeforeStart /\ req'[t].action = req[t].action,
         pc'[t] \in AfterStart =>
           pc[t] \in AfterStart /\ req'[t].action = req[t].action,
         pc'[t] \notin {"run", "launch", "coding"},
         t \notin fresh'
  PROVE  ClaimDiscipline'
<1>1. HandlerLocals'
  <2>1. ASSUME NEW u \in Threads, u # t PROVE LocalsFit(u)'
    <3>1. LocalsFit(u) /\ pc'[u] = pc[u] /\ req'[u] = req[u]
      BY <2>1 DEF ClaimDiscipline, HandlerLocals
    <3>2. req[u].action \in Actions =>
            /\ runs'[req[u].action].execution = runs[req[u].action].execution
            /\ runs[req[u].action].exists => runs'[req[u].action].exists
      OBVIOUS
    <3> QED BY <3>1, <3>2 DEF LocalsFit, DecidePcs
  <2> QED BY <2>1 DEF HandlerLocals
<1>2. \A u \in Threads, a \in Actions : Owns(u, a)' =>
        /\ Owns(u, a)
        /\ pc'[u] \in AfterStart <=> pc[u] \in AfterStart
  BY DEF Owns, Serves, BeforeStart, AfterStart
<1>3. OwnerHoldsRow'
  BY <1>2 DEF ClaimDiscipline, OwnerHoldsRow
<1>4. ReleaseFindsNoOwner'
  BY <1>2 DEF ClaimDiscipline, ReleaseFindsNoOwner, HandlerLocals, LocalsFit
<1>5. SideEffects'
  BY <1>2 DEF ClaimDiscipline, SideEffects, external, Serves
<1> QED BY <1>1, <1>3, <1>4, <1>5 DEF ClaimDiscipline

---------------------------------------------------------------------------
(* Requests.                                                               *)
LEMMA RequestTypes ==
  /\ NoRequest \in Request
  /\ \A t \in Threads, kind \in Kinds, a \in Actions :
       /\ Start(t, kind, a) \in Request
       /\ Start(t, kind, a).action = a
       /\ Start(t, kind, a).kind = kind
       /\ [Start(t, kind, a) EXCEPT !.want = "awaiting"] \in Request
       /\ \A x \in Texts : [Start(t, kind, a) EXCEPT !.text = x] \in Request
       /\ \A x \in Statuses : [Start(t, kind, a) EXCEPT !.seen = x] \in Request
<1>1. NoRequest \in Request
  BY DEF NoRequest, Request, NoRow, Row, Approvals, Resolutions, Statuses
<1>2. ASSUME NEW t \in Threads, NEW kind \in Kinds, NEW a \in Actions
      PROVE  /\ Start(t, kind, a) \in Request
             /\ Start(t, kind, a).action = a
             /\ Start(t, kind, a).kind = kind
  BY <1>1 DEF Start, Request, NoRequest
<1>3. \A r \in Request : [r EXCEPT !.want = "awaiting"] \in Request
  BY DEF Request
<1>4. \A r \in Request : \A x \in Texts : [r EXCEPT !.text = x] \in Request
  BY DEF Request
<1>5. \A r \in Request : \A x \in Statuses : [r EXCEPT !.seen = x] \in Request
  BY DEF Request
<1> QED BY <1>1, <1>2, <1>3, <1>4, <1>5

(* The ways a step moves a thread are type correct.                        *)
LEMMA MoveTypes ==
  ASSUME TypeOK, NEW t \in Threads
  PROVE  /\ Finish(t) => pc' \in [Threads -> Steps] /\ req' \in [Threads -> Request]
         /\ \A step \in Steps : Go(t, step) => pc' \in [Threads -> Steps]
         /\ \A step \in Steps : GoOrRaise(t, step) =>
              pc' \in [Threads -> Steps] /\ req' \in [Threads -> Request]
<1>1. "idle" \in Steps
  BY DEF Steps
<1>2. Finish(t) => pc' \in [Threads -> Steps] /\ req' \in [Threads -> Request]
  BY <1>1, RequestTypes DEF TypeOK, Finish
<1>3. \A step \in Steps : Go(t, step) => pc' \in [Threads -> Steps]
  BY DEF TypeOK, Go
<1> QED BY <1>2, <1>3 DEF GoOrRaise, TypeOK

(* A write keeps rows and snapshots well typed.                            *)
LEMMA WriteTypes ==
  ASSUME TypeOK, NEW a \in Actions, NEW row \in Row, Write(a, row)
  PROVE  runs' \in [Actions -> Row] /\ fresh' \subseteq Threads
  BY DEF TypeOK, Write

(* One Action's entry in the lifecycle or the queue can be replaced.       *)
LEMMA MemoryTypes ==
  ASSUME TypeOK, NEW a \in Actions
  PROVE  /\ \A s \in Statuses : [lifecycle EXCEPT ![a] = s] \in [Actions -> Statuses]
         /\ \A q \in Seq(Texts) : [queue EXCEPT ![a] = q] \in [Actions -> Seq(Texts)]
<1>1. lifecycle \in [Actions -> Statuses] /\ queue \in [Actions -> Seq(Texts)]
  BY DEF TypeOK
<1> QED BY <1>1

(* Updating one local of a request keeps it a request.                     *)
LEMMA LocalTypes ==
  ASSUME TypeOK, NEW t \in Threads
  PROVE  /\ \A x \in Row : [req EXCEPT ![t].cur = x] \in [Threads -> Request]
         /\ \A x \in {"none", "awaiting"} :
              [req EXCEPT ![t].want = x] \in [Threads -> Request]
         /\ \A x \in Texts \cup {"none"} :
              [req EXCEPT ![t].text = x] \in [Threads -> Request]
         /\ \A x \in Results :
              [req EXCEPT ![t].out = x] \in [Threads -> Request]
         /\ \A x \in Request : [req EXCEPT ![t] = x] \in [Threads -> Request]
<1>1. req \in [Threads -> Request] /\ req[t] \in Request
  BY DEF TypeOK
<1>2. /\ \A x \in Row : [req[t] EXCEPT !.cur = x] \in Request
      /\ \A x \in {"none", "awaiting"} : [req[t] EXCEPT !.want = x] \in Request
      /\ \A x \in Texts \cup {"none"} : [req[t] EXCEPT !.text = x] \in Request
      /\ \A x \in Results : [req[t] EXCEPT !.out = x] \in Request
  BY <1>1 DEF Request
<1> QED BY <1>1, <1>2

(* Registering a row keeps rows and snapshots well typed.                  *)
LEMMA RegisterTypes ==
  ASSUME IInv, NEW t \in Threads, pc[t] # "idle",
         NEW o \in BOOLEAN, NEW p \in Approvals, RegisterPut(t, o, p)
  PROVE  runs' \in [Actions -> Row] /\ fresh' \subseteq Threads
<1> DEFINE a == req[t].action
           row == register_action(runs[a], req[t].cur, o, p)
<1>1. a \in Actions
  BY DEF IInv, ClaimDiscipline, HandlerLocals, LocalsFit
<1>2. runs[a] \in Row /\ req[t].cur \in Row
  BY <1>1 DEF IInv, TypeOK, Request
<1>3. row \in Row
  BY <1>2, RowTypes
<1>4. CASE Write(a, row)
  BY <1>1, <1>3, <1>4, WriteTypes DEF IInv
<1>5. CASE UNCHANGED <<runs, fresh>>
  BY <1>5 DEF IInv, TypeOK
<1> QED BY <1>4, <1>5 DEF RegisterPut

---------------------------------------------------------------------------
(* Every step keeps the types.                                             *)
LEMMA ThreadStepTypes ==
  ASSUME IInv, NEW t \in Threads, NEW a \in Actions,
         Requests(t, a) \/ HandlerStep(t)
  PROVE  TypeOK'
<1> DEFINE b == req[t].action
<1>loc. /\ \A x \in Row : [req EXCEPT ![t].cur = x] \in [Threads -> Request]
        /\ \A x \in {"none", "awaiting"} :
             [req EXCEPT ![t].want = x] \in [Threads -> Request]
        /\ \A x \in Texts \cup {"none"} :
             [req EXCEPT ![t].text = x] \in [Threads -> Request]
        /\ \A x \in Results :
             [req EXCEPT ![t].out = x] \in [Threads -> Request]
        /\ \A x \in Request : [req EXCEPT ![t] = x] \in [Threads -> Request]
  BY LocalTypes DEF IInv
<1>mem. \A x \in Actions :
          /\ \A s \in Statuses : [lifecycle EXCEPT ![x] = s] \in [Actions -> Statuses]
          /\ \A q \in Seq(Texts) : [queue EXCEPT ![x] = q] \in [Actions -> Seq(Texts)]
  BY MemoryTypes DEF IInv
<1>reg. \A o \in BOOLEAN, p \in {"none", "awaiting"} :
          pc[t] # "idle" /\ RegisterPut(t, o, p) =>
            runs' \in [Actions -> Row] /\ fresh' \subseteq Threads
  BY RegisterTypes DEF Approvals
<1> USE RequestTypes, MoveTypes DEF IInv, TypeOK, memory, external
<1>1. pc[t] # "idle" => b \in Actions /\ runs[b] \in Row
  BY DEF ClaimDiscipline, HandlerLocals, LocalsFit
<1>2. \A r \in Request : r.action \in Actions \cup {"none"} /\ r.cur \in Row
                         /\ r.text \in Texts \cup {"none"}
                         /\ r.want \in {"none", "awaiting"}
                         /\ r.out \in Results \cup {"none"}
  BY DEF Request
<1> USE <1>1, <1>2
<1>3. ASSUME Delegate(t, a) PROVE TypeOK'
  <2>1. req' \in [Threads -> Request]
    <3>1. "delegate" \in Kinds
      BY DEF Kinds
    <3>2. /\ Start(t, "delegate", a) \in Request
          /\ [Start(t, "delegate", a) EXCEPT !.want = "awaiting"] \in Request
      BY <3>1, RequestTypes
    <3>3. \E x \in Request : req' = [req EXCEPT ![t] = x]
      BY <1>3, <3>2 DEF Delegate
    <3> QED BY <3>3, <1>loc
  <2>2. lifecycle' \in [Actions -> Statuses]
    <3>1. "queued" \in Statuses /\ "rejected" \in Statuses
      BY DEF Statuses
    <3>2. \/ lifecycle' = lifecycle
          \/ lifecycle' = [lifecycle EXCEPT ![a] = "queued"]
          \/ lifecycle' = [lifecycle EXCEPT ![a] = "rejected"]
      BY <1>3 DEF Delegate
    <3>3. CASE lifecycle' = lifecycle
      BY <3>3
    <3>4. CASE lifecycle' = [lifecycle EXCEPT ![a] = "queued"]
      BY ONLY <3>1, <3>4, <1>mem, a \in Actions
    <3>5. CASE lifecycle' = [lifecycle EXCEPT ![a] = "rejected"]
      BY ONLY <3>1, <3>5, <1>mem, a \in Actions
    <3> QED BY <3>2, <3>3, <3>4, <3>5
  <2>4. registry' \subseteq Actions
    BY <1>3 DEF Delegate
  <2>3. pc' \in [Threads -> Steps] /\ issued' \subseteq Actions
    BY <1>3 DEF Delegate, Steps, DatabaseSteps
  <2> QED BY <1>3, <2>1, <2>2, <2>3, <2>4 DEF Delegate
<1>4. ASSUME NEW kind \in {"approve", "reject"}, Decide(t, kind, a) PROVE TypeOK'
  <2>1. req' \in [Threads -> Request]
    <3>1. kind \in Kinds /\ "clean" \in Texts /\ PayloadText(a) \in Texts
      BY DEF Kinds, Texts, PayloadText
    <3>2. \A x \in Texts : [Start(t, kind, a) EXCEPT !.text = x] \in Request
      BY <3>1, RequestTypes
    <3>3. \E x \in Request : req' = [req EXCEPT ![t] = x]
      BY <1>4, <3>1, <3>2 DEF Decide
    <3> QED BY <3>3, <1>loc
  <2>2. pc' \in [Threads -> Steps]
    BY <1>4 DEF Decide, Steps, DatabaseSteps
  <2>3. granted' \subseteq Actions
    BY <1>4 DEF Decide
  <2> QED BY <1>4, <2>1, <2>2, <2>3 DEF Decide
<1>5. ASSUME Execute(t, a) PROVE TypeOK'
  BY <1>5 DEF Execute, Go, Steps, Kinds, Statuses
<1>6. ASSUME NEW kind \in {"release", "abandon"}, Reconcile(t, kind, a) PROVE TypeOK'
  <2>1. req' \in [Threads -> Request]
    BY <1>6, <1>loc DEF Reconcile, Kinds
  <2>2. pc' \in [Threads -> Steps] /\ fresh' \subseteq Threads
    BY <1>6 DEF Reconcile, Steps, DatabaseSteps
  <2> QED BY <1>6, <2>1, <2>2 DEF Reconcile
<1>7. ASSUME NEW kind \in Dispositions, Dispose(t, kind, a) PROVE TypeOK'
  BY <1>7 DEF Dispose, Go, Steps, Kinds, Dispositions
<1>8. ASSUME DecideRecover(t) PROVE TypeOK'
  BY <1>8 DEF DecideRecover, Steps
<1>9. ASSUME DecideLifecycle(t) PROVE TypeOK'
  BY <1>9 DEF DecideLifecycle, Steps, DatabaseSteps
<1>10. ASSUME DecideEnsure(t) PROVE TypeOK'
  <2>1. req' \in [Threads -> Request]
    BY <1>10, <1>loc DEF DecideEnsure
  <2> QED BY <1>10, <2>1 DEF DecideEnsure, Steps, DatabaseSteps
<1>11. ASSUME DecidePut(t) PROVE TypeOK'
  <2>1. runs' \in [Actions -> Row] /\ fresh' \subseteq Threads
    <3>1. pc[t] # "idle" /\ req[t].want \in {"none", "awaiting"}
      BY <1>11 DEF DecidePut
    <3>2. RegisterPut(t, TRUE, req[t].want)
      BY <1>11 DEF DecidePut
    <3> QED BY <3>1, <3>2, <1>reg
  <2> QED BY <1>11, <2>1 DEF DecidePut, Steps, DatabaseSteps
<1>12. ASSUME DecideCheck(t) PROVE TypeOK'
  BY <1>12 DEF DecideCheck, Steps, DatabaseSteps
<1>13. ASSUME DecideWrite(t) PROVE TypeOK'
  <2>1. b \in Actions /\ runs[b] \in Row
    BY <1>13 DEF DecideWrite
  <2>2. runs' \in [Actions -> Row] /\ fresh' \subseteq Threads
    BY <1>13, <2>1, RowTypes, WriteTypes DEF DecideWrite
  <2> QED BY <1>13, <2>2 DEF DecideWrite, Steps
<1>14. ASSUME DecideSet(t) PROVE TypeOK'
  BY <1>14 DEF DecideSet, Steps, Statuses
<1>15. ASSUME DecideDrop(t) PROVE TypeOK'
  BY <1>15 DEF DecideDrop, Steps
<1>16. ASSUME ApproveEnqueue(t) PROVE TypeOK'
  BY <1>16 DEF ApproveEnqueue, ClaimDiscipline, HandlerLocals, LocalsFit, DecidePcs
<1>17. ASSUME ExecuteQueue(t) PROVE TypeOK'
  <2>1. b \in Actions
    BY <1>17 DEF ExecuteQueue
  <2>2. req' \in [Threads -> Request]
    <3>1. CASE queue[b] = <<>>
      BY <1>17, <3>1, <1>loc DEF ExecuteQueue
    <3>2. CASE queue[b] # <<>>
      <4>1. Head(queue[b]) \in Texts
        BY <2>1, <3>2
      <4> QED BY <1>17, <3>2, <4>1, <1>loc DEF ExecuteQueue
    <3> QED BY <3>1, <3>2
  <2> QED BY <1>17, <2>2 DEF ExecuteQueue, Steps, DatabaseSteps
<1>18. ASSUME ExecuteClaim(t) PROVE TypeOK'
  <2>1. b \in Actions /\ runs[b] \in Row
    BY <1>18 DEF ExecuteClaim
  <2>2. runs' \in [Actions -> Row] /\ fresh' \subseteq Threads
    BY <1>18, <2>1, RowTypes, WriteTypes DEF ExecuteClaim
  <2> QED BY <1>18, <2>2 DEF ExecuteClaim, Steps, BeforeStart
<1>19. ASSUME ExecuteMatch(t) PROVE TypeOK'
  <2>1. queue' \in [Actions -> Seq(Texts)]
    <3>1. b \in Actions /\ Append(queue[b], "clean") \in Seq(Texts)
      BY <1>19 DEF ExecuteMatch, Texts
    <3>2. \/ queue' = queue
          \/ queue' = [queue EXCEPT ![b] = Append(queue[b], "clean")]
      BY <1>19 DEF ExecuteMatch
    <3>3. CASE queue' = queue
      BY <3>3
    <3>4. CASE queue' = [queue EXCEPT ![b] = Append(queue[b], "clean")]
      BY ONLY <3>1, <3>4, <1>mem
    <3> QED BY <3>2, <3>3, <3>4
  <2>2. pc' \in [Threads -> Steps] /\ req' \in [Threads -> Request]
    BY <1>19 DEF ExecuteMatch, Steps, BeforeStart
  <2> QED BY <1>19, <2>1, <2>2 DEF ExecuteMatch
<1>20. ASSUME ExecuteLifecycle(t) PROVE TypeOK'
  BY <1>20 DEF ExecuteLifecycle, Steps, BeforeStart, Statuses
<1>21. ASSUME ProcessGet(t) PROVE TypeOK'
  BY <1>21 DEF ProcessGet, Steps, BeforeStart
<1>22. ASSUME ProcessLifecycle(t) PROVE TypeOK'
  BY <1>22 DEF ProcessLifecycle, Steps, BeforeStart
<1>23. ASSUME ProcessRemove(t) PROVE TypeOK'
  <2>1. b \in Actions
    BY <1>23 DEF ProcessRemove
  <2>2. CASE queue[b] # <<>>
    <3>1. Head(queue[b]) \in Texts /\ Tail(queue[b]) \in Seq(Texts)
      BY <2>1, <2>2
    <3>2. req' \in [Threads -> Request]
      <4>1. req' = [req EXCEPT ![t].text = Head(queue[b])]
        BY <1>23, <2>2 DEF ProcessRemove
      <4> QED BY <3>1, <4>1, <1>loc
    <3>3. queue' \in [Actions -> Seq(Texts)]
      <4>1. queue' = [queue EXCEPT ![b] = Tail(queue[b])]
        BY <1>23, <2>2 DEF ProcessRemove
      <4> QED BY <2>1, <3>1, <4>1, <1>mem
    <3> QED BY <1>23, <2>2, <3>2, <3>3 DEF ProcessRemove, Steps, BeforeStart
  <2>3. CASE queue[b] = <<>>
    BY <1>23, <2>3 DEF ProcessRemove
  <2> QED BY <2>2, <2>3
<1>24. ASSUME ProcessState(t) PROVE TypeOK'
  <2>1. b \in Actions /\ req[t].text \in Texts
    BY <1>24 DEF ProcessState, ClaimDiscipline, HandlerLocals, LocalsFit
  <2>2. queue' \in [Actions -> Seq(Texts)]
    <3>1. Append(queue[b], req[t].text) \in Seq(Texts)
      BY <2>1
    <3>2. \/ queue' = queue
          \/ queue' = [queue EXCEPT ![b] = Append(queue[b], req[t].text)]
      BY <1>24 DEF ProcessState
    <3>3. CASE queue' = queue
      BY <3>3
    <3>4. CASE queue' = [queue EXCEPT ![b] = Append(queue[b], req[t].text)]
      BY ONLY <2>1, <3>1, <3>4, <1>mem
    <3> QED BY <3>2, <3>3, <3>4
  <2>3. pc' \in [Threads -> Steps] /\ req' \in [Threads -> Request]
    BY <1>24 DEF ProcessState, Steps, BeforeStart
  <2> QED BY <1>24, <2>2, <2>3 DEF ProcessState
<1>25. ASSUME ProcessExecuting(t) PROVE TypeOK'
  BY <1>25 DEF ProcessExecuting, Steps, BeforeStart, Statuses
<1>26. ASSUME StartPut(t) PROVE TypeOK'
  <2>1. runs' \in [Actions -> Row] /\ fresh' \subseteq Threads
    BY <1>26, <1>reg DEF StartPut
  <2> QED BY <1>26, <2>1 DEF StartPut, Steps, BeforeStart
<1>27. ASSUME StartRead(t) PROVE TypeOK'
  BY <1>27 DEF StartRead, Steps, BeforeStart, AfterStart
<1>28. ASSUME StartCheck(t) PROVE TypeOK'
  BY <1>28 DEF StartCheck, Steps, BeforeStart
<1>29. ASSUME StartMark(t) PROVE TypeOK'
  <2>1. b \in Actions /\ runs[b] \in Row
    BY <1>29 DEF StartMark
  <2>2. runs' \in [Actions -> Row] /\ fresh' \subseteq Threads
    BY <1>29, <2>1, RowTypes, WriteTypes DEF StartMark
  <2> QED BY <1>29, <2>2 DEF StartMark, Steps, AfterStart
<1>30. ASSUME RunExecutor(t) PROVE TypeOK'
  <2>1. b \in Actions
    BY <1>30 DEF RunExecutor
  <2>2. req' \in [Threads -> Request]
    <3>1. "failed" \in Results
      BY DEF Results
    <3>2. \/ req' = req
          \/ req' = [req EXCEPT ![t].out = "failed"]
      BY <1>30 DEF RunExecutor, CreateWorktree, Launch, FailToLaunch
    <3>3. CASE req' = req
      BY <3>3
    <3>4. CASE req' = [req EXCEPT ![t].out = "failed"]
      BY <3>1, <3>4, <1>loc
    <3> QED BY <3>2, <3>3, <3>4
  <2>3. worktree' \in [Actions -> {"absent", "present", "branch_only"}]
    <3>1. \/ worktree' = worktree
          \/ \E left \in {"present", "branch_only"} :
               worktree' = [worktree EXCEPT ![b] = left]
      BY <1>30 DEF RunExecutor, CreateWorktree, Launch, FailToLaunch
    <3>2. CASE worktree' = worktree
      BY <3>2
    <3>3. CASE \E left \in {"present", "branch_only"} :
                 worktree' = [worktree EXCEPT ![b] = left]
      BY <2>1, <3>3
    <3> QED BY <3>1, <3>2, <3>3
  <2>5. coded' \in [Actions -> Nat]
    <3>1. coded[b] + 1 \in Nat
      BY <2>1
    <3> QED BY <1>30, <3>1 DEF RunExecutor, CreateWorktree, Launch, FailToLaunch
  <2>4. pc' \in [Threads -> Steps]
    BY <1>30 DEF RunExecutor, CreateWorktree, Launch, FailToLaunch, Steps, AfterStart
  <2> QED BY <1>30, <2>2, <2>3, <2>4, <2>5 DEF RunExecutor
<1>31. ASSUME CoderExits(t) PROVE TypeOK'
  <2>1. req' \in [Threads -> Request]
    BY <1>31, <1>loc DEF CoderExits
  <2> QED BY <1>31, <2>1 DEF CoderExits, Steps, AfterStart
<1>32. ASSUME FinishPut(t) PROVE TypeOK'
  <2>1. b \in Actions /\ runs[b] \in Row
    BY <1>32 DEF FinishPut
  <2>2. runs' \in [Actions -> Row] /\ fresh' \subseteq Threads
    BY <1>32, <2>1, RowTypes, WriteTypes DEF FinishPut, ClaimDiscipline, HandlerLocals, LocalsFit
  <2> QED BY <1>32, <2>2 DEF FinishPut, Steps
<1>33. ASSUME FinishLifecycle(t) PROVE TypeOK'
  BY <1>33 DEF FinishLifecycle, Statuses
<1>34. ASSUME NEW f \in Steps, NEW g \in Steps \cap DatabaseSteps, f # "idle", RegisterGet(t, f, g) PROVE TypeOK'
  <2>1. req' \in [Threads -> Request]
    BY <1>34, <1>loc DEF RegisterGet
  <2> QED BY <1>34, <2>1 DEF RegisterGet
<1>35. ASSUME DelegatePut(t) PROVE TypeOK'
  <2>1. runs' \in [Actions -> Row] /\ fresh' \subseteq Threads
    BY <1>35, <1>reg DEF DelegatePut
  <2> QED BY <1>35, <2>1 DEF DelegatePut
<1>36. ASSUME ReconcilePut(t) PROVE TypeOK'
  <2>1. b \in Actions /\ runs[b] \in Row
    BY <1>36 DEF ReconcilePut
  <2>2. runs' \in [Actions -> Row] /\ fresh' \subseteq Threads
    BY <1>36, <2>1, RowTypes, WriteTypes DEF ReconcilePut
  <2> QED BY <1>36, <2>2 DEF ReconcilePut
<1>37. ASSUME DisposeApply(t) PROVE TypeOK'
  BY <1>37 DEF DisposeApply, Steps, DatabaseSteps
<1>38. ASSUME DisposePut(t) PROVE TypeOK'
  <2>1. b \in Actions /\ runs[b] \in Row
    BY <1>38 DEF DisposePut
  <2>2. runs' \in [Actions -> Row] /\ fresh' \subseteq Threads
    BY <1>38, <2>1, RowTypes, WriteTypes DEF DisposePut, ClaimDiscipline, HandlerLocals, LocalsFit
  <2> QED BY <1>38, <2>2 DEF DisposePut
<1>39. ASSUME DatabaseError(t) PROVE TypeOK'
  BY <1>39 DEF DatabaseError
<1> QED
  BY <1>3, <1>4, <1>5, <1>6, <1>7, <1>8, <1>9, <1>10, <1>11, <1>12, <1>13, <1>14, <1>15, <1>16, <1>17, <1>18, <1>19, <1>20, <1>21, <1>22, <1>23, <1>24, <1>25, <1>26, <1>27, <1>28, <1>29, <1>30, <1>31, <1>32, <1>33, <1>34, <1>35, <1>36, <1>37, <1>38, <1>39
     DEF Requests, HandlerStep, DecisionSteps, ExecutionSteps, OtherSteps, Steps, DatabaseSteps, BeforeStart, AfterStart

---------------------------------------------------------------------------
(* Every step keeps the discipline.                                        *)

(* A handler ends; rows may have changed, but not their claims, starts or  *)
(* results.                                                                *)
LEMMA FinishKeepsDiscipline ==
  ASSUME IInv, TypeOK', NEW t \in Threads, Finish(t),
         \A a \in Actions : /\ runs'[a].claim = runs[a].claim
                            /\ runs'[a].started = runs[a].started
                            /\ runs'[a].execution = runs[a].execution
                            /\ runs[a].exists => runs'[a].exists,
         RowShape',
         fresh' \subseteq fresh \ {t},
         granted' = granted,
         UNCHANGED external
  PROVE  ClaimDiscipline'
<1>1. pc'[t] = "idle" /\ \A u \in Threads \ {t} : pc'[u] = pc[u] /\ req'[u] = req[u]
  BY DEF IInv, TypeOK, Finish
<1>2. LocalsFit(t)'
  BY <1>1 DEF LocalsFit, DecidePcs
<1>3. pc'[t] \notin BeforeStart \cup AfterStart \cup {"run", "launch", "coding"}
  BY <1>1 DEF BeforeStart, AfterStart
<1> QED BY <1>1, <1>2, <1>3, HandlerStepKeepsDiscipline DEF IInv

(* A handler moves on without touching rows, files or snapshots.           *)
LEMMA MoveKeepsDiscipline ==
  ASSUME IInv, TypeOK', NEW t \in Threads,
         pc[t] \notin {"idle", "rc_put"},
         pc'[t] \notin {"idle", "run", "launch", "coding", "rc_put"},
         \A u \in Threads \ {t} : pc'[u] = pc[u] /\ req'[u] = req[u],
         req'[t].action = req[t].action,
         UNCHANGED <<runs, fresh, granted, external>>,
         pc'[t] \in BeforeStart => pc[t] \in BeforeStart,
         pc'[t] \in AfterStart => pc[t] \in AfterStart,
         pc'[t] \in DecidePcs => /\ pc[t] \in DecidePcs
                                /\ req'[t].kind = req[t].kind
                                /\ req'[t].text = req[t].text,
         pc'[t] = "dec_write" => runs[req[t].action].exists,
         pc'[t] = "pr_state" => req'[t].text \in Texts,
         pc'[t] \in {"fin_put", "fin_life"} => req'[t].out \in Results,
         pc'[t] \notin {"dp_apply", "dp_put"}
  PROVE  ClaimDiscipline'
<1>2. LocalsFit(t)
  BY DEF IInv, ClaimDiscipline, HandlerLocals
<1>3. LocalsFit(t)'
  BY <1>2 DEF LocalsFit
<1>4. RowShape'
  BY DEF IInv, ClaimDiscipline, RowShape
<1>5. t \notin fresh
  BY <1>2 DEF LocalsFit
<1> QED BY <1>3, <1>4, <1>5, HandlerStepKeepsDiscipline DEF IInv

(* register_action never touches a claim, a start or a result.             *)
LEMMA RegisterKeepsRows ==
  ASSUME IInv, NEW t \in Threads, pc[t] # "idle",
         NEW o \in BOOLEAN, NEW p \in {"none", "awaiting"},
         RegisterPut(t, o, p), granted' = granted
  PROVE  /\ \A a \in Actions : /\ runs'[a].claim = runs[a].claim
                               /\ runs'[a].started = runs[a].started
                               /\ runs'[a].execution = runs[a].execution
                               /\ runs[a].exists => runs'[a].exists
         /\ \A a \in Actions : runs'[a].resolution = "abandoned" <=>
                               runs[a].resolution = "abandoned"
         /\ RowShape'
         /\ fresh' \subseteq fresh
<1> DEFINE b == req[t].action
           row == register_action(runs[b], req[t].cur, o, p)
<1>1. b \in Actions
  BY DEF IInv, ClaimDiscipline, HandlerLocals, LocalsFit
<1>2. RowShape /\ runs \in [Actions -> Row]
  BY DEF IInv, ClaimDiscipline, TypeOK
<1>3. CASE ~req[t].cur.exists /\ runs[b].exists
  BY <1>2, <1>3 DEF RegisterPut, RowShape
<1>4. CASE ~(~req[t].cur.exists /\ runs[b].exists)
  <2>1. /\ runs' = [runs EXCEPT ![b] = row]
        /\ fresh' \subseteq fresh
    BY <1>4 DEF RegisterPut, Write
  <2>2. runs[b] \in Row
    BY <1>1, <1>2
  <2>3. /\ ~runs[b].exists => ~runs[b].claim /\ runs[b].approval # "approved"
        /\ runs[b].started => runs[b].claim
        /\ runs[b].execution # "none" => runs[b].started
        /\ runs[b].resolution = "abandoned" => runs[b].started
        /\ runs[b].approval = "approved" /\ ~runs[b].started => runs[b].objective
        /\ runs[b].approval = "approved" \/ runs[b].claim => b \in granted
    BY <1>1, <1>2 DEF RowShape
  <2>4. /\ row.claim = runs[b].claim
        /\ row.started = runs[b].started
        /\ row.execution = runs[b].execution
        /\ runs[b].exists => row.exists
        /\ row.resolution # runs[b].resolution => row.resolution = "none"
        /\ row.resolution # runs[b].resolution => ~runs[b].started
        /\ row.approval # runs[b].approval => row.approval # "approved"
        /\ ~row.exists => ~runs[b].exists
        /\ row.approval = "approved" /\ runs[b].objective => row.objective
    <3>1. CASE req[t].cur.exists
      BY <2>2, <3>1 DEF register_action, Row
    <3>2. CASE ~req[t].cur.exists
      BY <1>4, <2>2, <2>3, <3>2 DEF register_action, Row, NoRow, Results
    <3> QED BY <3>1, <3>2
  <2> HIDE DEF row
  <2>5. \A a \in Actions : runs'[a] = IF a = b THEN row ELSE runs[a]
    BY <1>2, <2>1
  <2>6. RowShape'
    BY <1>2, <2>3, <2>4, <2>5 DEF RowShape
  <2>7. \A a \in Actions : runs'[a].resolution = "abandoned" <=>
                           runs[a].resolution = "abandoned"
    BY <2>3, <2>4, <2>5
  <2> QED BY <2>1, <2>4, <2>5, <2>6, <2>7
<1> QED BY <1>3, <1>4

(* The steps of a handler that neither write a row nor touch the worktree. *)
LEMMA QuietStepsKeepDiscipline ==
  ASSUME IInv, TypeOK', NEW t \in Threads
  PROVE  /\ DecideRecover(t) => ClaimDiscipline'
         /\ DecideLifecycle(t) => ClaimDiscipline'
         /\ DecideEnsure(t) => ClaimDiscipline'
         /\ DecideCheck(t) => ClaimDiscipline'
         /\ DecideSet(t) => ClaimDiscipline'
         /\ DecideDrop(t) => ClaimDiscipline'
         /\ ApproveEnqueue(t) => ClaimDiscipline'
         /\ ExecuteQueue(t) => ClaimDiscipline'
         /\ ExecuteMatch(t) => ClaimDiscipline'
         /\ ExecuteLifecycle(t) => ClaimDiscipline'
         /\ ProcessGet(t) => ClaimDiscipline'
         /\ ProcessLifecycle(t) => ClaimDiscipline'
         /\ ProcessRemove(t) => ClaimDiscipline'
         /\ ProcessState(t) => ClaimDiscipline'
         /\ ProcessExecuting(t) => ClaimDiscipline'
         /\ StartRead(t) => ClaimDiscipline'
         /\ StartCheck(t) => ClaimDiscipline'
         /\ CoderExits(t) => ClaimDiscipline'
         /\ FinishLifecycle(t) => ClaimDiscipline'
         /\ RegisterGet(t, "dlg_get", "dlg_put") => ClaimDiscipline'
         /\ RegisterGet(t, "dec_get", "dec_put") => ClaimDiscipline'
         /\ RegisterGet(t, "st_get", "st_put") => ClaimDiscipline'
<1>1. req \in [Threads -> Request] /\ pc \in [Threads -> Steps]
  BY DEF IInv, TypeOK
<1>2. RowShape /\ LocalsFit(t)
  BY DEF IInv, ClaimDiscipline, HandlerLocals
<1>3. (UNCHANGED <<runs, granted>>) => RowShape'
  BY <1>2 DEF RowShape
<1>4. ASSUME pc[t] # "rc_put", UNCHANGED <<runs, fresh, granted, external>>, Finish(t)
      PROVE  ClaimDiscipline'
  <2>1. t \notin fresh
    BY <1>2, <1>4 DEF LocalsFit
  <2> QED BY <1>3, <1>4, <2>1, FinishKeepsDiscipline
<1>5. ASSUME DecideRecover(t) PROVE ClaimDiscipline'
  <2>1. UNCHANGED <<runs, fresh, granted, external>> /\ pc[t] # "rc_put"
    BY <1>5 DEF DecideRecover
  <2>2. CASE Finish(t)
    BY <1>4, <2>1, <2>2
  <2>3. CASE Go(t, "dec_life") /\ UNCHANGED req
    BY <1>5, <1>1, <1>2, <2>1, <2>3, MoveKeepsDiscipline
       DEF Go, DecideRecover, BeforeStart, AfterStart, DecidePcs, LocalsFit
  <2> QED BY <1>5, <2>2, <2>3 DEF DecideRecover
<1>6. ASSUME DecideLifecycle(t) PROVE ClaimDiscipline'
  <2>1. UNCHANGED <<runs, fresh, granted, external>> /\ pc[t] # "rc_put"
    BY <1>6 DEF DecideLifecycle
  <2>2. CASE Finish(t)
    BY <1>4, <2>1, <2>2
  <2>3. CASE Go(t, "dec_ensure") /\ UNCHANGED req
    BY <1>6, <1>1, <1>2, <2>1, <2>3, MoveKeepsDiscipline
       DEF Go, DecideLifecycle, BeforeStart, AfterStart, DecidePcs, LocalsFit
  <2> QED BY <1>6, <2>2, <2>3 DEF DecideLifecycle
<1>7. ASSUME DecideEnsure(t) PROVE ClaimDiscipline'
  <2>1. UNCHANGED <<runs, fresh, granted, external>> /\ pc[t] # "rc_put"
    BY <1>7 DEF DecideEnsure
  <2>2. Go(t, "dec_get")
    BY <1>7 DEF DecideEnsure
  <2>3. PICK x : req' = [req EXCEPT ![t].want = x]
    BY <1>7 DEF DecideEnsure
  <2>4. \A u \in Threads \ {t} : pc'[u] = pc[u] /\ req'[u] = req[u]
    BY <1>1, <2>2, <2>3 DEF Go
  <2>5. /\ req'[t].action = req[t].action /\ req'[t].kind = req[t].kind
        /\ req'[t].text = req[t].text
    BY <1>1, <2>3 DEF Request
  <2>6. pc[t] = "dec_ensure" /\ pc'[t] = "dec_get"
    BY <1>7, <1>1, <2>2 DEF DecideEnsure, Go
  <2> QED
    BY <1>2, <2>1, <2>2, <2>4, <2>5, <2>6, MoveKeepsDiscipline
       DEF BeforeStart, AfterStart, DecidePcs
<1>8. ASSUME DecideCheck(t) PROVE ClaimDiscipline'
  <2>1. UNCHANGED <<runs, fresh, granted, external>> /\ pc[t] # "rc_put"
    BY <1>8 DEF DecideCheck
  <2>2. CASE Finish(t)
    BY <1>4, <2>1, <2>2
  <2>3. CASE Go(t, "dec_write") /\ UNCHANGED req
    <3>1. pc[t] = "dec_check"
      BY <1>8 DEF DecideCheck
    <3>2. runs[req[t].action].exists
      <4>1. Go(t, "dec_write") => ~Finish(t)
        BY <1>1 DEF Go, Finish, IInv, TypeOK
      <4> QED BY <1>8, <2>3, <4>1
              DEF DecideCheck, can_record_approval, can_record_rejection
    <3> QED
      BY <1>1, <1>2, <2>1, <2>3, <3>1, <3>2, MoveKeepsDiscipline
         DEF Go, BeforeStart, AfterStart, DecidePcs
  <2> QED BY <1>8, <2>2, <2>3 DEF DecideCheck
<1>9. ASSUME DecideSet(t) PROVE ClaimDiscipline'
  <2>1. UNCHANGED <<runs, fresh, granted, external>> /\ pc[t] # "rc_put"
    BY <1>9 DEF DecideSet
  <2>2. Go(t, "dec_drop") /\ UNCHANGED req
    BY <1>9 DEF DecideSet
  <2> QED
    BY <1>9, <1>1, <1>2, <2>1, <2>2, MoveKeepsDiscipline
       DEF Go, DecideSet, BeforeStart, AfterStart, DecidePcs, LocalsFit
<1>10. ASSUME DecideDrop(t) PROVE ClaimDiscipline'
  <2>1. UNCHANGED <<runs, fresh, granted, external>> /\ pc[t] # "rc_put"
    BY <1>10 DEF DecideDrop
  <2>2. CASE Finish(t)
    BY <1>4, <2>1, <2>2
  <2>3. CASE Go(t, "dec_enqueue") /\ UNCHANGED req
    BY <1>10, <1>1, <1>2, <2>1, <2>3, MoveKeepsDiscipline
       DEF Go, DecideDrop, BeforeStart, AfterStart, DecidePcs, LocalsFit
  <2> QED BY <1>10, <2>2, <2>3 DEF DecideDrop
<1>11. ASSUME ApproveEnqueue(t) PROVE ClaimDiscipline'
  BY <1>11, <1>4 DEF ApproveEnqueue, external
<1>12. ASSUME ExecuteQueue(t) PROVE ClaimDiscipline'
  <2>1. UNCHANGED <<runs, fresh, granted, external>> /\ pc[t] # "rc_put"
    BY <1>12 DEF ExecuteQueue
  <2>2. Go(t, "ex_claim")
    BY <1>12 DEF ExecuteQueue
  <2>3. PICK x : req' = [req EXCEPT ![t].text = x]
    BY <1>12 DEF ExecuteQueue
  <2>4. \A u \in Threads \ {t} : pc'[u] = pc[u] /\ req'[u] = req[u]
    BY <1>1, <2>2, <2>3 DEF Go
  <2>5. /\ req'[t].action = req[t].action /\ req'[t].kind = req[t].kind
        /\ req'[t].out = req[t].out
    BY <1>1, <2>3 DEF Request
  <2>6. pc[t] = "ex_queue" /\ pc'[t] = "ex_claim"
    BY <1>12, <1>1, <2>2 DEF ExecuteQueue, Go
  <2> QED
    BY <1>2, <2>1, <2>2, <2>4, <2>5, <2>6, MoveKeepsDiscipline
       DEF BeforeStart, AfterStart, DecidePcs
<1>13. ASSUME ExecuteMatch(t) PROVE ClaimDiscipline'
  <2>1. UNCHANGED <<runs, fresh, granted, external>> /\ pc[t] # "rc_put"
    BY <1>13 DEF ExecuteMatch
  <2>2. CASE Finish(t)
    BY <1>4, <2>1, <2>2
  <2>3. CASE Go(t, "ex_life") /\ UNCHANGED req
    BY <1>13, <1>1, <1>2, <2>1, <2>3, MoveKeepsDiscipline
       DEF Go, ExecuteMatch, BeforeStart, AfterStart, DecidePcs, LocalsFit
  <2> QED BY <1>13, <2>2, <2>3 DEF ExecuteMatch
<1>14. ASSUME ExecuteLifecycle(t) PROVE ClaimDiscipline'
  <2>1. UNCHANGED <<runs, fresh, granted, external>> /\ pc[t] # "rc_put"
    BY <1>14 DEF ExecuteLifecycle
  <2>2. Go(t, "pr_get") /\ UNCHANGED req
    BY <1>14 DEF ExecuteLifecycle
  <2> QED
    BY <1>14, <1>1, <1>2, <2>1, <2>2, MoveKeepsDiscipline
       DEF Go, ExecuteLifecycle, BeforeStart, AfterStart, DecidePcs, LocalsFit
<1>15. ASSUME ProcessGet(t) PROVE ClaimDiscipline'
  <2>1. UNCHANGED <<runs, fresh, granted, external>> /\ pc[t] # "rc_put"
    BY <1>15 DEF ProcessGet
  <2>2. CASE Finish(t)
    BY <1>4, <2>1, <2>2
  <2>3. CASE Go(t, "pr_life") /\ UNCHANGED req
    BY <1>15, <1>1, <1>2, <2>1, <2>3, MoveKeepsDiscipline
       DEF Go, ProcessGet, BeforeStart, AfterStart, DecidePcs, LocalsFit
  <2> QED BY <1>15, <2>2, <2>3 DEF ProcessGet
<1>16. ASSUME ProcessLifecycle(t) PROVE ClaimDiscipline'
  <2>1. UNCHANGED <<runs, fresh, granted, external>> /\ pc[t] # "rc_put"
    BY <1>16 DEF ProcessLifecycle
  <2>2. CASE Finish(t)
    BY <1>4, <2>1, <2>2
  <2>3. CASE Go(t, "pr_remove") /\ UNCHANGED req
    BY <1>16, <1>1, <1>2, <2>1, <2>3, MoveKeepsDiscipline
       DEF Go, ProcessLifecycle, BeforeStart, AfterStart, DecidePcs, LocalsFit
  <2> QED BY <1>16, <2>2, <2>3 DEF ProcessLifecycle
<1>17. ASSUME ProcessRemove(t) PROVE ClaimDiscipline'
  <2>1. UNCHANGED <<runs, fresh, granted, external>> /\ pc[t] # "rc_put"
    BY <1>17 DEF ProcessRemove
  <2>2. CASE Finish(t)
    BY <1>4, <2>1, <2>2
  <2>3. CASE queue[req[t].action] # <<>>
    <3> DEFINE x == Head(queue[req[t].action])
    <3>1. pc' = [pc EXCEPT ![t] = "pr_state"] /\ req' = [req EXCEPT ![t].text = x]
      BY <1>17, <2>3 DEF ProcessRemove, Go
    <3>2. /\ pc'[t] = "pr_state"
          /\ req'[t].action = req[t].action /\ req'[t].text = x
          /\ \A u \in Threads \ {t} : pc'[u] = pc[u] /\ req'[u] = req[u]
      BY <1>1, <3>1 DEF Request
    <3>3. x \in Texts
      BY <1>17, <1>2, <2>3 DEF ProcessRemove, LocalsFit, IInv, TypeOK
    <3>4. pc[t] = "pr_remove"
      BY <1>17 DEF ProcessRemove
    <3> HIDE DEF x
    <3> QED
      BY <1>2, <2>1, <3>1, <3>2, <3>3, <3>4, MoveKeepsDiscipline
         DEF BeforeStart, AfterStart, DecidePcs
  <2> QED BY <1>17, <2>2, <2>3 DEF ProcessRemove
<1>18. ASSUME ProcessState(t) PROVE ClaimDiscipline'
  <2>1. UNCHANGED <<runs, fresh, granted, external>> /\ pc[t] # "rc_put"
    BY <1>18 DEF ProcessState
  <2>2. CASE Finish(t)
    BY <1>4, <2>1, <2>2
  <2>3. CASE Go(t, "pr_exec") /\ UNCHANGED req
    BY <1>18, <1>1, <1>2, <2>1, <2>3, MoveKeepsDiscipline
       DEF Go, ProcessState, BeforeStart, AfterStart, DecidePcs, LocalsFit
  <2> QED BY <1>18, <2>2, <2>3 DEF ProcessState
<1>19. ASSUME ProcessExecuting(t) PROVE ClaimDiscipline'
  <2>1. UNCHANGED <<runs, fresh, granted, external>> /\ pc[t] # "rc_put"
    BY <1>19 DEF ProcessExecuting
  <2>2. Go(t, "st_get") /\ UNCHANGED req
    BY <1>19 DEF ProcessExecuting
  <2> QED
    BY <1>19, <1>1, <1>2, <2>1, <2>2, MoveKeepsDiscipline
       DEF Go, ProcessExecuting, BeforeStart, AfterStart, DecidePcs, LocalsFit
<1>20. ASSUME StartRead(t) PROVE ClaimDiscipline'
  <2>1. UNCHANGED <<runs, fresh, granted, external>> /\ pc[t] # "rc_put"
    BY <1>20 DEF StartRead
  <2>2. runs[req[t].action].claim /\ ~runs[req[t].action].started
    BY <1>20, <1>2 DEF StartRead, IInv, ClaimDiscipline, OwnerHoldsRow, Owns,
                    Serves, LocalsFit, BeforeStart, AfterStart
  <2>3. Go(t, "st_check") /\ UNCHANGED req
    BY <1>20, <2>2 DEF StartRead
  <2> QED
    BY <1>20, <1>1, <1>2, <2>1, <2>3, MoveKeepsDiscipline
       DEF Go, StartRead, BeforeStart, AfterStart, DecidePcs
<1>21. ASSUME StartCheck(t) PROVE ClaimDiscipline'
  <2>1. UNCHANGED <<runs, fresh, granted, external>> /\ pc[t] # "rc_put"
    BY <1>21 DEF StartCheck
  <2>2. CASE Finish(t)
    BY <1>4, <2>1, <2>2
  <2>3. CASE Go(t, "st_mark") /\ UNCHANGED req
    BY <1>21, <1>1, <1>2, <2>1, <2>3, MoveKeepsDiscipline
       DEF Go, StartCheck, BeforeStart, AfterStart, DecidePcs, LocalsFit
  <2> QED BY <1>21, <2>2, <2>3 DEF StartCheck
<1>22. ASSUME CoderExits(t) PROVE ClaimDiscipline'
  <2>1. UNCHANGED <<runs, fresh, granted, external>> /\ pc[t] # "rc_put"
    BY <1>22 DEF CoderExits
  <2>2. Go(t, "fin_put")
    BY <1>22 DEF CoderExits
  <2>3. PICK x : req' = [req EXCEPT ![t].out = x] /\ x \in Results
    BY <1>22 DEF CoderExits
  <2>4. \A u \in Threads \ {t} : pc'[u] = pc[u] /\ req'[u] = req[u]
    BY <1>1, <2>2, <2>3 DEF Go
  <2>5. /\ req'[t].action = req[t].action /\ req'[t].kind = req[t].kind
        /\ req'[t].text = req[t].text /\ req'[t].out \in Results
    BY <1>1, <2>3 DEF Request
  <2>6. pc[t] = "coding" /\ pc'[t] = "fin_put"
    BY <1>22, <1>1, <2>2 DEF CoderExits, Go
  <2> QED
    BY <1>2, <2>1, <2>2, <2>4, <2>5, <2>6, MoveKeepsDiscipline
       DEF BeforeStart, AfterStart, DecidePcs
<1>23. ASSUME FinishLifecycle(t) PROVE ClaimDiscipline'
  BY <1>23, <1>4 DEF FinishLifecycle, external
<1>24. ASSUME RegisterGet(t, "dlg_get", "dlg_put") PROVE ClaimDiscipline'
  <2>1. UNCHANGED <<runs, fresh, granted, external>> /\ pc[t] # "rc_put"
    BY <1>24 DEF RegisterGet
  <2>2. Go(t, "dlg_put")
    BY <1>24 DEF RegisterGet
  <2>3. PICK x : req' = [req EXCEPT ![t].cur = x]
    BY <1>24 DEF RegisterGet
  <2>4. \A u \in Threads \ {t} : pc'[u] = pc[u] /\ req'[u] = req[u]
    BY <1>1, <2>2, <2>3 DEF Go
  <2>5. /\ req'[t].action = req[t].action /\ req'[t].kind = req[t].kind
        /\ req'[t].text = req[t].text
    BY <1>1, <2>3 DEF Request
  <2>6. pc[t] = "dlg_get" /\ pc'[t] = "dlg_put"
    BY <1>24, <1>1, <2>2 DEF RegisterGet, Go
  <2> QED
    BY <1>2, <2>1, <2>2, <2>4, <2>5, <2>6, MoveKeepsDiscipline
       DEF BeforeStart, AfterStart, DecidePcs
<1>25. ASSUME RegisterGet(t, "dec_get", "dec_put") PROVE ClaimDiscipline'
  <2>1. UNCHANGED <<runs, fresh, granted, external>> /\ pc[t] # "rc_put"
    BY <1>25 DEF RegisterGet
  <2>2. Go(t, "dec_put")
    BY <1>25 DEF RegisterGet
  <2>3. PICK x : req' = [req EXCEPT ![t].cur = x]
    BY <1>25 DEF RegisterGet
  <2>4. \A u \in Threads \ {t} : pc'[u] = pc[u] /\ req'[u] = req[u]
    BY <1>1, <2>2, <2>3 DEF Go
  <2>5. /\ req'[t].action = req[t].action /\ req'[t].kind = req[t].kind
        /\ req'[t].text = req[t].text
    BY <1>1, <2>3 DEF Request
  <2>6. pc[t] = "dec_get" /\ pc'[t] = "dec_put"
    BY <1>25, <1>1, <2>2 DEF RegisterGet, Go
  <2> QED
    BY <1>2, <2>1, <2>2, <2>4, <2>5, <2>6, MoveKeepsDiscipline
       DEF BeforeStart, AfterStart, DecidePcs
<1>26. ASSUME RegisterGet(t, "st_get", "st_put") PROVE ClaimDiscipline'
  <2>1. UNCHANGED <<runs, fresh, granted, external>> /\ pc[t] # "rc_put"
    BY <1>26 DEF RegisterGet
  <2>2. Go(t, "st_put")
    BY <1>26 DEF RegisterGet
  <2>3. PICK x : req' = [req EXCEPT ![t].cur = x]
    BY <1>26 DEF RegisterGet
  <2>4. \A u \in Threads \ {t} : pc'[u] = pc[u] /\ req'[u] = req[u]
    BY <1>1, <2>2, <2>3 DEF Go
  <2>5. /\ req'[t].action = req[t].action /\ req'[t].kind = req[t].kind
        /\ req'[t].text = req[t].text
    BY <1>1, <2>3 DEF Request
  <2>6. pc[t] = "st_get" /\ pc'[t] = "st_put"
    BY <1>26, <1>1, <2>2 DEF RegisterGet, Go
  <2> QED
    BY <1>2, <2>1, <2>2, <2>4, <2>5, <2>6, MoveKeepsDiscipline
       DEF BeforeStart, AfterStart, DecidePcs
<1> QED BY <1>5, <1>6, <1>7, <1>8, <1>9, <1>10, <1>11, <1>12, <1>13, <1>14, <1>15, <1>16, <1>17, <1>18, <1>19, <1>20, <1>21, <1>22, <1>23, <1>24, <1>25, <1>26

(* A new request, other than a reconciliation, starts a handler.           *)
LEMMA RequestsKeepDiscipline ==
  ASSUME IInv, TypeOK', NEW t \in Threads, NEW a \in Actions
  PROVE  /\ Delegate(t, a) => ClaimDiscipline'
         /\ \A kind \in {"approve", "reject"} :
              Decide(t, kind, a) => ClaimDiscipline'
         /\ Execute(t, a) => ClaimDiscipline'
         /\ \A kind \in Dispositions : Dispose(t, kind, a) => ClaimDiscipline'
<1>1. pc \in [Threads -> Steps] /\ req \in [Threads -> Request]
  BY DEF IInv, TypeOK
<1>2. RowShape /\ LocalsFit(t)
  BY DEF IInv, ClaimDiscipline, HandlerLocals
<1>3. ASSUME pc[t] = "idle", UNCHANGED <<runs, fresh, external>>,
             granted \subseteq granted', LocalsFit(t)',
             pc'[t] \notin BeforeStart \cup AfterStart,
             \A u \in Threads \ {t} : pc'[u] = pc[u] /\ req'[u] = req[u]
      PROVE  ClaimDiscipline'
  <2>1. t \notin fresh /\ pc'[t] \notin {"run", "launch", "coding"}
    BY <1>2, <1>3 DEF LocalsFit, AfterStart
  <2>2. RowShape'
    BY <1>2, <1>3 DEF RowShape
  <2> QED BY <1>3, <2>1, <2>2, HandlerStepKeepsDiscipline DEF IInv
<1>4. ASSUME Delegate(t, a) PROVE ClaimDiscipline'
  <2>1. /\ pc[t] = "idle" /\ pc'[t] = "dlg_get"
        /\ UNCHANGED <<runs, fresh, external, granted>>
        /\ \A u \in Threads \ {t} : pc'[u] = pc[u] /\ req'[u] = req[u]
    BY <1>1, <1>4 DEF Delegate, Go
  <2>2. req'[t].action = a
    <3>1. \/ req'[t] = Start(t, "delegate", a)
          \/ req'[t] = [Start(t, "delegate", a) EXCEPT !.want = "awaiting"]
      BY <1>1, <1>4 DEF Delegate
    <3> QED BY <3>1 DEF Start, NoRequest
  <2>3. LocalsFit(t)'
    BY <1>2, <2>1, <2>2 DEF LocalsFit, DecidePcs
  <2> QED BY <1>3, <2>1, <2>3 DEF BeforeStart, AfterStart
<1>5. ASSUME NEW kind \in {"approve", "reject"}, Decide(t, kind, a)
      PROVE  ClaimDiscipline'
  <2>1. /\ pc[t] = "idle" /\ pc'[t] \in {"dec_life", "dec_recover"}
        /\ UNCHANGED <<runs, fresh, external>>
        /\ \A u \in Threads \ {t} : pc'[u] = pc[u] /\ req'[u] = req[u]
    BY <1>1, <1>5 DEF Decide, MayStart, Go
  <2>2. PICK x \in Texts : req'[t] = [Start(t, kind, a) EXCEPT !.text = x]
    BY <1>1, <1>5 DEF Decide, Texts, PayloadText
  <2>3. req'[t].action = a /\ req'[t].kind = kind /\ req'[t].text \in Texts
    BY <2>2 DEF Start, NoRequest
  <2>4. granted \subseteq granted' /\ (kind = "approve" => a \in granted')
    BY <1>5 DEF Decide
  <2>5. LocalsFit(t)'
    BY <1>2, <2>1, <2>3, <2>4 DEF LocalsFit, DecidePcs
  <2> QED BY <1>3, <2>1, <2>4, <2>5 DEF BeforeStart, AfterStart
<1>6. ASSUME Execute(t, a) PROVE ClaimDiscipline'
  <2>1. /\ pc[t] = "idle" /\ pc'[t] = "ex_queue"
        /\ UNCHANGED <<runs, fresh, external, granted>>
        /\ \A u \in Threads \ {t} : pc'[u] = pc[u] /\ req'[u] = req[u]
    BY <1>1, <1>6 DEF Execute, MayStart, Go
  <2>2. req'[t].action = a
    BY <1>1, <1>6 DEF Execute, Start, NoRequest
  <2>3. LocalsFit(t)'
    BY <1>2, <2>1, <2>2 DEF LocalsFit, DecidePcs
  <2> QED BY <1>3, <2>1, <2>3 DEF BeforeStart, AfterStart
<1>7. ASSUME NEW kind \in Dispositions, Dispose(t, kind, a)
      PROVE  ClaimDiscipline'
  <2>1. /\ pc[t] = "idle" /\ pc'[t] = "dp_apply"
        /\ UNCHANGED <<runs, fresh, external, granted>>
        /\ \A u \in Threads \ {t} : pc'[u] = pc[u] /\ req'[u] = req[u]
        /\ runs[a].execution # "none"
    BY <1>1, <1>7 DEF Dispose, MayStart, Go
  <2>2. req'[t].action = a /\ req'[t].kind = kind
    BY <1>1, <1>7 DEF Dispose, Start, NoRequest
  <2>3. LocalsFit(t)'
    BY <1>2, <2>1, <2>2 DEF LocalsFit, DecidePcs
  <2> QED BY <1>3, <2>1, <2>3 DEF BeforeStart, AfterStart
<1> QED BY <1>4, <1>5, <1>6, <1>7

(* The steps that write a row but neither its claim, start nor result.     *)
LEMMA RowWritesKeepDiscipline ==
  ASSUME IInv, TypeOK', NEW t \in Threads
  PROVE  /\ DelegatePut(t) => ClaimDiscipline'
         /\ DecidePut(t) => ClaimDiscipline'
         /\ StartPut(t) => ClaimDiscipline'
         /\ DecideWrite(t) => ClaimDiscipline'
         /\ DisposePut(t) => ClaimDiscipline'
         /\ DatabaseError(t) => ClaimDiscipline'
<1> DEFINE b == req[t].action
           SameProgress == \A a \in Actions :
                             /\ runs'[a].claim = runs[a].claim
                             /\ runs'[a].started = runs[a].started
                             /\ runs'[a].execution = runs[a].execution
                             /\ runs[a].exists => runs'[a].exists
<1>1. /\ pc \in [Threads -> Steps] /\ req \in [Threads -> Request]
      /\ runs \in [Actions -> Row]
  BY DEF IInv, TypeOK
<1>2. RowShape /\ LocalsFit(t)
  BY DEF IInv, ClaimDiscipline, HandlerLocals
<1>3. pc[t] # "rc_put" => t \notin fresh
  BY <1>2 DEF LocalsFit
<1>4. req[t].want \in {"none", "awaiting"}
  BY <1>1 DEF Request
<1>5. ASSUME DelegatePut(t) PROVE ClaimDiscipline'
  <2>1. SameProgress /\ RowShape' /\ fresh' \subseteq fresh
    BY <1>4, <1>5, RegisterKeepsRows DEF DelegatePut
  <2>2. Finish(t) /\ t \notin fresh /\ granted' = granted /\ UNCHANGED external
    BY <1>3, <1>5 DEF DelegatePut
  <2> QED BY <2>1, <2>2, FinishKeepsDiscipline
<1>6. ASSUME DecidePut(t) PROVE ClaimDiscipline'
  <2>1. SameProgress /\ RowShape' /\ fresh' \subseteq fresh
    BY <1>4, <1>6, RegisterKeepsRows DEF DecidePut
  <2>2. /\ t \notin fresh /\ granted' = granted /\ UNCHANGED external
        /\ pc[t] = "dec_put" /\ pc'[t] = "dec_check" /\ req' = req
        /\ \A u \in Threads \ {t} : pc'[u] = pc[u] /\ req'[u] = req[u]
    BY <1>1, <1>3, <1>6 DEF DecidePut, Go
  <2>3. LocalsFit(t)'
    BY <1>2, <2>1, <2>2 DEF LocalsFit, DecidePcs
  <2> QED BY <2>1, <2>2, <2>3, HandlerStepKeepsDiscipline
          DEF IInv, BeforeStart, AfterStart
<1>7. ASSUME StartPut(t) PROVE ClaimDiscipline'
  <2>1. SameProgress /\ RowShape' /\ fresh' \subseteq fresh
    BY <1>7, RegisterKeepsRows DEF StartPut
  <2>2. /\ t \notin fresh /\ granted' = granted /\ UNCHANGED external
        /\ pc[t] = "st_put" /\ pc'[t] = "st_read" /\ req' = req
        /\ \A u \in Threads \ {t} : pc'[u] = pc[u] /\ req'[u] = req[u]
    BY <1>1, <1>3, <1>7 DEF StartPut, Go
  <2>3. LocalsFit(t)'
    BY <1>2, <2>1, <2>2 DEF LocalsFit, DecidePcs
  <2> QED BY <2>1, <2>2, <2>3, HandlerStepKeepsDiscipline
          DEF IInv, BeforeStart, AfterStart
<1>8. ASSUME DecideWrite(t) PROVE ClaimDiscipline'
  <2> DEFINE row == IF req[t].kind = "approve" THEN record_approval(runs[b])
                                               ELSE record_rejection(runs[b])
  <2>1. /\ b \in Actions /\ runs[b] \in Row /\ runs[b].exists
        /\ req[t].kind = "approve" => b \in granted
    BY <1>1, <1>2, <1>8 DEF DecideWrite, LocalsFit, DecidePcs
  <2>2. /\ runs' = [runs EXCEPT ![b] = row] /\ fresh' \subseteq fresh
        /\ t \notin fresh /\ granted' = granted /\ UNCHANGED external
        /\ pc[t] = "dec_write"
    BY <1>3, <1>8 DEF DecideWrite, Write
  <2>3. /\ row.claim = runs[b].claim /\ row.started = runs[b].started
        /\ row.execution = runs[b].execution /\ row.exists
        /\ row.resolution = runs[b].resolution
        /\ row.approval = "approved" => row.objective /\ b \in granted
    BY <2>1 DEF record_approval, record_rejection, Row
  <2> HIDE DEF row
  <2>4. \A a \in Actions : runs'[a] = IF a = b THEN row ELSE runs[a]
    BY <1>1, <2>2
  <2>5. SameProgress
    BY <2>3, <2>4
  <2>6. RowShape'
    BY <1>2, <2>1, <2>2, <2>3, <2>4 DEF RowShape
  <2>7. CASE Finish(t)
    BY <2>2, <2>5, <2>6, <2>7, FinishKeepsDiscipline
  <2>8. CASE Go(t, "dec_set") /\ UNCHANGED req
    <3>1. /\ pc'[t] = "dec_set"
          /\ \A u \in Threads \ {t} : pc'[u] = pc[u] /\ req'[u] = req[u]
      BY <1>1, <2>8 DEF Go
    <3>2. LocalsFit(t)'
      BY <1>2, <2>2, <2>8, <3>1 DEF LocalsFit, DecidePcs
    <3> QED BY <2>2, <2>5, <2>6, <3>1, <3>2, HandlerStepKeepsDiscipline
            DEF IInv, BeforeStart, AfterStart
  <2> QED BY <1>8, <2>7, <2>8 DEF DecideWrite, GoOrRaise
<1>9. ASSUME DisposePut(t) PROVE ClaimDiscipline'
  <2> DEFINE row == record_disposition(runs[b], req[t].kind)
  <2>1. b \in Actions /\ runs[b] \in Row
    BY <1>1, <1>2, <1>9 DEF DisposePut, LocalsFit
  <2>2. /\ runs' = [runs EXCEPT ![b] = row] /\ fresh' \subseteq fresh
        /\ t \notin fresh /\ granted' = granted /\ UNCHANGED external
        /\ Finish(t)
    BY <1>3, <1>9 DEF DisposePut, Write
  <2>3. /\ row.claim = runs[b].claim /\ row.started = runs[b].started
        /\ row.execution = runs[b].execution /\ row.exists = runs[b].exists
        /\ row.resolution = runs[b].resolution
        /\ row.approval = runs[b].approval /\ row.objective = runs[b].objective
    BY <2>1 DEF record_disposition, Row
  <2> HIDE DEF row
  <2>4. \A a \in Actions : runs'[a] = IF a = b THEN row ELSE runs[a]
    BY <1>1, <2>2
  <2>5. SameProgress
    BY <2>3, <2>4
  <2>6. RowShape'
    BY <1>2, <2>1, <2>2, <2>3, <2>4 DEF RowShape
  <2> QED BY <2>2, <2>5, <2>6, FinishKeepsDiscipline
<1>10. ASSUME DatabaseError(t) PROVE ClaimDiscipline'
  <2>1. /\ Finish(t) /\ fresh' \subseteq fresh \ {t} /\ runs' = runs
        /\ granted' = granted /\ UNCHANGED external
    BY <1>10 DEF DatabaseError
  <2>2. RowShape'
    BY <1>2, <2>1 DEF RowShape
  <2> QED BY <2>1, <2>2, FinishKeepsDiscipline
<1> QED BY <1>5, <1>6, <1>7, <1>8, <1>9, <1>10

(* The steps that claim, start, run, finish or reconcile a run.            *)
LEMMA ClaimKeepsDiscipline ==
  ASSUME IInv, TypeOK', NEW t \in Threads, ExecuteClaim(t)
  PROVE  ClaimDiscipline'
<1> DEFINE b == req[t].action
           row == claim_approved(runs[b])
<1>1. /\ pc \in [Threads -> Steps] /\ req \in [Threads -> Request]
      /\ runs \in [Actions -> Row]
  BY DEF IInv, TypeOK
<1>2. HandlerLocals /\ RowShape /\ OwnerHoldsRow /\ ReleaseFindsNoOwner /\ SideEffects
  BY DEF IInv, ClaimDiscipline
<1>3. /\ pc[t] = "ex_claim" /\ b \in Actions /\ t \notin fresh
      /\ granted' = granted /\ UNCHANGED external
  BY <1>2 DEF ExecuteClaim, HandlerLocals, LocalsFit
<1>4. CASE ~can_claim(runs[b])
  <2>1. Finish(t) /\ UNCHANGED <<runs, fresh>>
    BY <1>4 DEF ExecuteClaim
  <2>2. RowShape'
    BY <1>2, <1>3, <2>1 DEF RowShape
  <2> QED BY <1>3, <2>1, <2>2, FinishKeepsDiscipline
<1>5. CASE can_claim(runs[b])
  <2>1. /\ runs' = [runs EXCEPT ![b] = row]
        /\ fresh' = {u \in fresh : req[u].action # b}
        /\ pc' = [pc EXCEPT ![t] = "ex_match"] /\ req' = req
    BY <1>5 DEF ExecuteClaim, Write, Go
  <2>2. /\ runs[b].exists /\ runs[b].approval = "approved"
        /\ runs[b].execution = "none" /\ ~runs[b].claim /\ runs[b].objective
        /\ ~runs[b].started /\ b \in granted
    BY <1>2, <1>3, <1>5 DEF can_claim, RowShape
  <2>3. /\ row.exists /\ row.approval = "approved" /\ row.execution = "none"
        /\ row.claim /\ row.objective /\ ~row.started /\ row.resolution = "none"
    BY <1>1, <1>3, <2>2 DEF claim_approved, Row
  <2> HIDE DEF row
  <2>4. \A a \in Actions : runs'[a] = IF a = b THEN row ELSE runs[a]
    BY <1>1, <2>1
  <2>5. \A u \in Threads : pc'[u] = IF u = t THEN "ex_match" ELSE pc[u]
    BY <1>1, <2>1
  <2>6. \A u \in Threads : ~Owns(u, b)
    BY <1>2, <1>3, <2>2 DEF OwnerHoldsRow
  <2>7. \A u \in Threads, a \in Actions :
          Owns(u, a)' <=> (u = t /\ a = b) \/ (u # t /\ Owns(u, a))
    BY <1>3, <2>1, <2>5 DEF Owns, Serves, BeforeStart
  <2>8. HandlerLocals'
    <3>1. ASSUME NEW u \in Threads PROVE LocalsFit(u)'
      <4>1. CASE u = t
        BY <1>3, <2>1, <2>5, <4>1 DEF LocalsFit, DecidePcs
      <4>2. CASE u # t
        <5>1. LocalsFit(u) /\ pc'[u] = pc[u]
          BY <1>2, <2>5, <4>2 DEF HandlerLocals
        <5>2. req[u].action \in Actions =>
                /\ runs[req[u].action].exists => runs'[req[u].action].exists
                /\ runs'[req[u].action].execution = runs[req[u].action].execution
          BY <2>2, <2>3, <2>4
        <5> QED BY <1>3, <2>1, <5>1, <5>2 DEF LocalsFit, DecidePcs
      <4> QED BY <4>1, <4>2
    <3> QED BY <3>1 DEF HandlerLocals
  <2>9. RowShape'
    BY <1>2, <1>3, <2>2, <2>3, <2>4 DEF RowShape
  <2>10. OwnerHoldsRow'
    <3>1. ASSUME NEW u \in Threads, NEW a \in Actions, Owns(u, a)'
          PROVE  /\ runs'[a].claim /\ runs'[a].execution = "none"
                 /\ runs'[a].started <=> pc'[u] \in AfterStart
                 /\ \A v \in Threads : Owns(v, a)' => v = u
      <4>1. CASE u = t /\ a = b
        BY <2>3, <2>4, <2>5, <2>6, <2>7, <4>1 DEF AfterStart
      <4>2. CASE u # t /\ Owns(u, a)
        <5>1. a # b
          BY <2>6, <4>2
        <5> QED BY <1>2, <2>4, <2>5, <2>7, <4>2, <5>1 DEF OwnerHoldsRow
      <4> QED BY <2>7, <3>1, <4>1, <4>2
    <3> QED BY <3>1 DEF OwnerHoldsRow
  <2>11. ReleaseFindsNoOwner'
    <3>1. ASSUME NEW u \in Threads, u \in fresh', req'[u].kind = "release",
                 NEW v \in Threads
          PROVE  ~Owns(v, req[u].action)'
      <4>1. u \in fresh /\ req[u].action # b /\ req[u].action \in Actions
        BY <1>2, <2>1, <3>1 DEF HandlerLocals, LocalsFit
      <4>2. ~Owns(v, req[u].action)
        BY <1>2, <2>1, <3>1, <4>1 DEF ReleaseFindsNoOwner
      <4> QED BY <2>1, <2>5, <4>1, <4>2 DEF Owns, Serves
    <3> QED BY <3>1 DEF ReleaseFindsNoOwner
  <2>12. SideEffects'
    <3>1. worktree' = worktree /\ orphans' = orphans /\ coded' = coded
      BY <1>3 DEF external
    <3>2. b \notin orphans
      BY <1>2, <1>3, <2>2 DEF SideEffects
    <3> QED BY <1>2, <1>3, <2>1, <2>2, <2>3, <2>4, <2>5, <2>7, <3>1, <3>2
            DEF SideEffects, Serves
  <2> QED BY <2>8, <2>9, <2>10, <2>11, <2>12 DEF ClaimDiscipline
<1> QED BY <1>4, <1>5

(* The owner marks the start of its run.                                   *)
LEMMA StartMarkKeepsDiscipline ==
  ASSUME IInv, TypeOK', NEW t \in Threads, StartMark(t)
  PROVE  ClaimDiscipline'
<1> DEFINE b == req[t].action
           row == record_execution_started(runs[b])
<1>1. /\ pc \in [Threads -> Steps] /\ req \in [Threads -> Request]
      /\ runs \in [Actions -> Row]
  BY DEF IInv, TypeOK
<1>2. HandlerLocals /\ RowShape /\ OwnerHoldsRow /\ ReleaseFindsNoOwner /\ SideEffects
  BY DEF IInv, ClaimDiscipline
<1>3. /\ pc[t] = "st_mark" /\ b \in Actions /\ t \notin fresh
      /\ granted' = granted /\ UNCHANGED external
  BY <1>2 DEF StartMark, HandlerLocals, LocalsFit
<1>4. Owns(t, b)
  BY <1>3 DEF Owns, Serves, BeforeStart, AfterStart
<1>5. /\ runs[b].claim /\ runs[b].execution = "none"
      /\ runs[b].started <=> pc[t] \in AfterStart
      /\ \A u \in Threads : Owns(u, b) => u = t
      /\ b \notin orphans
  BY <1>2, <1>3, <1>4 DEF OwnerHoldsRow, SideEffects
<1>6. /\ runs' = [runs EXCEPT ![b] = row]
      /\ fresh' \subseteq fresh
  BY DEF StartMark, Write
<1>7. /\ row.exists = runs[b].exists /\ row.claim /\ row.started
      /\ row.approval = runs[b].approval
      /\ row.execution = "none" /\ row.resolution = runs[b].resolution
  BY <1>1, <1>3, <1>5 DEF record_execution_started, Row, AfterStart
<1> HIDE DEF row
<1>8. \A a \in Actions : runs'[a] = IF a = b THEN row ELSE runs[a]
  BY <1>1, <1>6
<1>9. RowShape'
  BY <1>2, <1>3, <1>5, <1>7, <1>8 DEF RowShape
<1>10. PICK p \in {"run", "idle"} :
         /\ pc' = [pc EXCEPT ![t] = p]
         /\ p = "run" => req' = req
         /\ \A u \in Threads \ {t} : req'[u] = req[u]
  BY <1>1 DEF StartMark, GoOrRaise, Go, Finish
<1>11. \A u \in Threads : pc'[u] = IF u = t THEN p ELSE pc[u]
  BY <1>1, <1>10
<1>12. HandlerLocals'
  <2>1. ASSUME NEW u \in Threads PROVE LocalsFit(u)'
    <3>1. CASE u = t
      BY <1>2, <1>3, <1>6, <1>10, <1>11, <3>1 DEF HandlerLocals, LocalsFit, DecidePcs
    <3>2. CASE u # t
      <4>1. LocalsFit(u) /\ pc'[u] = pc[u] /\ req'[u] = req[u]
        BY <1>2, <1>10, <1>11, <3>2 DEF HandlerLocals
      <4>2. req[u].action \in Actions =>
              /\ runs[req[u].action].exists => runs'[req[u].action].exists
              /\ runs[req[u].action].execution # "none" =>
                   runs'[req[u].action].execution # "none"
        BY <1>5, <1>7, <1>8
      <4> QED BY <1>3, <1>6, <4>1, <4>2 DEF LocalsFit, DecidePcs
    <3> QED BY <3>1, <3>2
  <2> QED BY <2>1 DEF HandlerLocals
<1>13. ReleaseFindsNoOwner'
  <2>1. ASSUME NEW u \in Threads, u \in fresh', req'[u].kind = "release",
               NEW v \in Threads
        PROVE  ~Owns(v, req[u].action)'
    <3>1. u \in fresh /\ u # t /\ req'[u] = req[u]
      BY <1>3, <1>6, <1>10, <2>1
    <3>2. ~Owns(v, req[u].action) /\ req[u].action \in Actions
      BY <1>2, <2>1, <3>1 DEF ReleaseFindsNoOwner, HandlerLocals, LocalsFit
    <3>3. CASE v = t
      BY <1>4, <1>10, <1>11, <3>1, <3>2, <3>3, ControlPlaneAssumption
         DEF Owns, Serves, BeforeStart, AfterStart
    <3>4. CASE v # t
      BY <1>10, <1>11, <3>1, <3>2, <3>4 DEF Owns, Serves
    <3> QED BY <3>3, <3>4
  <2> QED BY <2>1 DEF ReleaseFindsNoOwner
<1>14. OwnerHoldsRow'
  <2>1. \A u \in Threads, a \in Actions : Owns(u, a)' =>
          Owns(u, a) /\ (u # t => a # b) /\ (u = t => a = b /\ p = "run")
    BY <1>3, <1>5, <1>10, <1>11 DEF Owns, Serves, BeforeStart, AfterStart
  <2> QED BY <1>2, <1>7, <1>8, <1>11, <2>1 DEF OwnerHoldsRow, AfterStart
<1>15. SideEffects'
  <2>1. worktree' = worktree /\ orphans' = orphans /\ coded' = coded
    BY <1>3 DEF external
  <2>2. coded[b] = 0
    BY <1>2, <1>3, <1>5 DEF SideEffects, AfterStart
  <2>3. \A u \in Threads, a \in Actions : Owns(u, a)' => Owns(u, a)
    BY <1>3, <1>4, <1>10, <1>11 DEF Owns, Serves, BeforeStart, AfterStart
  <2>4. \A u \in Threads, a \in Actions : Serves(u, a)' /\ pc'[u] # "idle" =>
          Serves(u, a) /\ (u = t => a = b /\ pc'[u] = "run")
    BY <1>3, <1>10, <1>11 DEF Serves
  <2> QED BY <1>2, <1>3, <1>5, <1>7, <1>8, <1>11, <2>1, <2>2, <2>3, <2>4
          DEF SideEffects
<1> QED BY <1>9, <1>12, <1>13, <1>14, <1>15 DEF ClaimDiscipline

(* The owner records the result and gives up the run.                      *)
LEMMA FinishPutKeepsDiscipline ==
  ASSUME IInv, TypeOK', NEW t \in Threads, FinishPut(t)
  PROVE  ClaimDiscipline'
<1> DEFINE b == req[t].action
           row == record_execution(runs[b], req[t].out)
<1>1. /\ pc \in [Threads -> Steps] /\ req \in [Threads -> Request]
      /\ runs \in [Actions -> Row]
  BY DEF IInv, TypeOK
<1>2. HandlerLocals /\ RowShape /\ OwnerHoldsRow /\ ReleaseFindsNoOwner /\ SideEffects
  BY DEF IInv, ClaimDiscipline
<1>3. /\ pc[t] = "fin_put" /\ b \in Actions /\ t \notin fresh
      /\ granted' = granted /\ UNCHANGED external /\ req[t].out \in Results
  BY <1>2 DEF FinishPut, HandlerLocals, LocalsFit
<1>4. Owns(t, b)
  BY <1>3 DEF Owns, Serves, BeforeStart, AfterStart
<1>5. /\ runs[b].claim /\ runs[b].execution = "none"
      /\ runs[b].started <=> pc[t] \in AfterStart
      /\ \A u \in Threads : Owns(u, b) => u = t
      /\ b \notin orphans
  BY <1>2, <1>3, <1>4 DEF OwnerHoldsRow, SideEffects
<1>6. /\ runs' = [runs EXCEPT ![b] = row]
      /\ fresh' \subseteq fresh
  BY DEF FinishPut, Write
<1>7. /\ row.exists = runs[b].exists /\ row.claim /\ row.started
      /\ row.approval = runs[b].approval
      /\ row.execution = req[t].out /\ row.resolution = runs[b].resolution
      /\ row.execution # "none"
  BY <1>1, <1>3, <1>5 DEF record_execution, Row, Results, AfterStart
<1> HIDE DEF row
<1>8. \A a \in Actions : runs'[a] = IF a = b THEN row ELSE runs[a]
  BY <1>1, <1>6
<1>9. RowShape'
  BY <1>2, <1>3, <1>5, <1>7, <1>8 DEF RowShape
<1>10. PICK p \in {"fin_life", "idle"} :
         /\ pc' = [pc EXCEPT ![t] = p]
         /\ p = "fin_life" => req' = req
         /\ \A u \in Threads \ {t} : req'[u] = req[u]
  BY <1>1 DEF FinishPut, GoOrRaise, Go, Finish
<1>11. \A u \in Threads : pc'[u] = IF u = t THEN p ELSE pc[u]
  BY <1>1, <1>10
<1>12. HandlerLocals'
  <2>1. ASSUME NEW u \in Threads PROVE LocalsFit(u)'
    <3>1. CASE u = t
      BY <1>2, <1>3, <1>6, <1>10, <1>11, <3>1 DEF HandlerLocals, LocalsFit, DecidePcs
    <3>2. CASE u # t
      <4>1. LocalsFit(u) /\ pc'[u] = pc[u] /\ req'[u] = req[u]
        BY <1>2, <1>10, <1>11, <3>2 DEF HandlerLocals
      <4>2. req[u].action \in Actions =>
              /\ runs[req[u].action].exists => runs'[req[u].action].exists
              /\ runs[req[u].action].execution # "none" =>
                   runs'[req[u].action].execution # "none"
        BY <1>5, <1>7, <1>8
      <4> QED BY <1>3, <1>6, <4>1, <4>2 DEF LocalsFit, DecidePcs
    <3> QED BY <3>1, <3>2
  <2> QED BY <2>1 DEF HandlerLocals
<1>13. ReleaseFindsNoOwner'
  <2>1. ASSUME NEW u \in Threads, u \in fresh', req'[u].kind = "release",
               NEW v \in Threads
        PROVE  ~Owns(v, req[u].action)'
    <3>1. u \in fresh /\ u # t /\ req'[u] = req[u]
      BY <1>3, <1>6, <1>10, <2>1
    <3>2. ~Owns(v, req[u].action) /\ req[u].action \in Actions
      BY <1>2, <2>1, <3>1 DEF ReleaseFindsNoOwner, HandlerLocals, LocalsFit
    <3>3. CASE v = t
      BY <1>4, <1>10, <1>11, <3>1, <3>2, <3>3, ControlPlaneAssumption
         DEF Owns, Serves, BeforeStart, AfterStart
    <3>4. CASE v # t
      BY <1>10, <1>11, <3>1, <3>2, <3>4 DEF Owns, Serves
    <3> QED BY <3>3, <3>4
  <2> QED BY <2>1 DEF ReleaseFindsNoOwner
<1>14. \A u \in Threads, a \in Actions : Owns(u, a)' =>
         u # t /\ a # b /\ Owns(u, a) /\ pc'[u] = pc[u]
  BY <1>5, <1>10, <1>11 DEF Owns, Serves, BeforeStart, AfterStart
<1>15. OwnerHoldsRow'
  BY <1>2, <1>8, <1>14 DEF OwnerHoldsRow
<1>16. SideEffects'
  <2>1. worktree' = worktree /\ orphans' = orphans /\ coded' = coded
    BY <1>3 DEF external
  <2>2. \A u \in Threads, a \in Actions : Serves(u, a)' =>
          \/ pc'[u] \notin {"run", "launch", "coding"}
          \/ Serves(u, a) /\ pc'[u] = pc[u]
    BY <1>10, <1>11 DEF Serves
  <2> QED BY <1>2, <1>3, <1>5, <1>7, <1>8, <1>14, <2>1, <2>2 DEF SideEffects
<1> QED BY <1>9, <1>12, <1>13, <1>15, <1>16 DEF ClaimDiscipline

(* The owner's executor creates the worktree and launches the coder.       *)
LEMMA RunExecutorKeepsDiscipline ==
  ASSUME IInv, TypeOK', NEW t \in Threads, RunExecutor(t)
  PROVE  ClaimDiscipline'
<1> DEFINE b == req[t].action
<1>1. /\ pc \in [Threads -> Steps] /\ req \in [Threads -> Request]
      /\ runs \in [Actions -> Row]
      /\ worktree \in [Actions -> {"absent", "present", "branch_only"}]
      /\ coded \in [Actions -> Nat]
  BY DEF IInv, TypeOK
<1>2. HandlerLocals /\ RowShape /\ OwnerHoldsRow /\ ReleaseFindsNoOwner /\ SideEffects
  BY DEF IInv, ClaimDiscipline
<1>3. /\ pc[t] \in {"run", "launch"} /\ b \in Actions /\ t \notin fresh
      /\ UNCHANGED <<runs, fresh, orphans, granted>>
  BY <1>2 DEF RunExecutor, HandlerLocals, LocalsFit
<1>4. Owns(t, b) /\ Serves(t, b)
  BY <1>3 DEF Owns, Serves, BeforeStart, AfterStart
<1>5. /\ runs[b].started /\ coded[b] = 0
      /\ pc[t] = "launch" => worktree[b] = "present"
      /\ \A u \in Threads : Owns(u, b) => u = t
      /\ b \notin orphans
  BY <1>2, <1>3, <1>4 DEF OwnerHoldsRow, SideEffects, AfterStart
<1>6. PICK p \in {"launch", "coding", "fin_put"} : pc' = [pc EXCEPT ![t] = p]
  BY DEF RunExecutor, CreateWorktree, Launch, FailToLaunch, Go
<1>7. \A u \in Threads : pc'[u] = IF u = t THEN p ELSE pc[u]
  BY <1>1, <1>6
<1>8. /\ \A u \in Threads : req'[u].action = req[u].action /\ req'[u].kind = req[u].kind
      /\ \A u \in Threads \ {t} : req'[u] = req[u]
      /\ p = "fin_put" => req'[t].out \in Results
  <2>1. CASE CreateWorktree(t) \/ Launch(t)
    BY <1>1, <1>6, <2>1 DEF CreateWorktree, Launch, Go
  <2>2. CASE FailToLaunch(t)
    BY <1>1, <2>2 DEF FailToLaunch, Request, Results
  <2> QED BY <2>1, <2>2 DEF RunExecutor
<1>9. /\ \A a \in Actions \ {b} : worktree'[a] = worktree[a] /\ coded'[a] = coded[a]
      /\ coded'[b] <= 1
      /\ p = "launch" => coded'[b] = 0
      /\ p \in {"launch", "coding"} => worktree'[b] = "present"
  <2>1. CASE Launch(t)
    BY <1>1, <1>3, <1>5, <1>6, <2>1 DEF Launch, Go
  <2>3. CASE CreateWorktree(t)
    BY <1>1, <1>3, <1>5, <1>6, <2>3 DEF CreateWorktree, Go
  <2>2. CASE FailToLaunch(t)
    BY <1>1, <1>3, <1>5, <1>6, <2>2 DEF FailToLaunch, Go
  <2> QED BY <2>1, <2>2, <2>3 DEF RunExecutor
<1>10. \A u \in Threads, a \in Actions : Owns(u, a)' <=> Owns(u, a)
  BY <1>3, <1>7, <1>8 DEF Owns, Serves, AfterStart
<1>11. HandlerLocals'
  <2>1. ASSUME NEW u \in Threads PROVE LocalsFit(u)'
    <3>1. LocalsFit(u)
      BY <1>2 DEF HandlerLocals
    <3>2. CASE u = t
      BY <1>3, <1>7, <1>8, <3>1, <3>2 DEF LocalsFit, DecidePcs
    <3>3. CASE u # t
      BY <1>3, <1>7, <1>8, <3>1, <3>3 DEF LocalsFit, DecidePcs
    <3> QED BY <3>2, <3>3
  <2> QED BY <2>1 DEF HandlerLocals
<1>12. RowShape'
  BY <1>2, <1>3 DEF RowShape
<1>13. OwnerHoldsRow'
  <2>1. \A u \in Threads : pc'[u] \in AfterStart <=> pc[u] \in AfterStart
    BY <1>3, <1>7 DEF AfterStart
  <2> QED BY <1>2, <1>3, <1>10, <2>1 DEF OwnerHoldsRow
<1>14. ReleaseFindsNoOwner'
  <2>1. ASSUME NEW u \in Threads, u \in fresh', req'[u].kind = "release",
               NEW v \in Threads
        PROVE  ~Owns(v, req[u].action)'
    <3>1. ~Owns(v, req[u].action)
      BY <1>2, <1>3, <1>8, <2>1 DEF ReleaseFindsNoOwner
    <3> QED BY <1>3, <1>7, <1>8, <3>1 DEF Owns, Serves, AfterStart
  <2> QED BY <2>1 DEF ReleaseFindsNoOwner
<1>15. SideEffects'
  <2>1. \A u \in Threads, a \in Actions : Serves(u, a)' <=> Serves(u, a)
    BY <1>8 DEF Serves
  <2>2. ASSUME NEW u \in Threads, Serves(u, b), pc'[u] \in {"run", "launch", "coding"}
        PROVE  u = t
    BY <1>5, <1>7, <2>2 DEF Owns, AfterStart
  <2>3. ASSUME NEW a \in Actions, a # b
        PROVE  /\ ~runs'[a].started => worktree'[a] = "absent" /\ coded'[a] = 0
               /\ coded'[a] <= 1
               /\ a \in orphans' =>
                    /\ runs'[a].started /\ runs'[a].execution = "none"
                    /\ worktree'[a] = "present"
                    /\ \A u \in Threads : ~Owns(u, a)'
               /\ \A u \in Threads : Serves(u, a)' =>
                    /\ pc'[u] \in {"run", "launch"} => coded'[a] = 0
                    /\ pc'[u] \in {"launch", "coding"} => worktree'[a] = "present"
    <3>1. worktree'[a] = worktree[a] /\ coded'[a] = coded[a] /\ ~Serves(t, a)
      BY <1>9, <2>3 DEF Serves
    <3> QED BY <1>2, <1>3, <1>7, <1>10, <2>1, <3>1 DEF SideEffects
  <2>4. ASSUME NEW a \in Actions, a = b
        PROVE  /\ runs'[a].started /\ coded'[a] <= 1 /\ a \notin orphans'
               /\ \A u \in Threads : Serves(u, a)' =>
                    /\ pc'[u] \in {"run", "launch"} => coded'[a] = 0
                    /\ pc'[u] \in {"launch", "coding"} => worktree'[a] = "present"
    <3>1. \A u \in Threads : Serves(u, a)' /\ pc'[u] \in {"run", "launch", "coding"} => u = t
      BY <2>1, <2>2, <2>4
    <3> QED BY <1>3, <1>5, <1>7, <1>9, <2>4, <3>1
  <2> QED BY <2>3, <2>4 DEF SideEffects
<1> QED BY <1>11, <1>12, <1>13, <1>14, <1>15 DEF ClaimDiscipline

(* KEEP and DISCARD only reach the worktree of a run that has a result.    *)
LEMMA DisposeApplyKeepsDiscipline ==
  ASSUME IInv, TypeOK', NEW t \in Threads, DisposeApply(t)
  PROVE  ClaimDiscipline'
<1> DEFINE b == req[t].action
<1>1. /\ pc \in [Threads -> Steps] /\ req \in [Threads -> Request]
      /\ runs \in [Actions -> Row]
      /\ worktree \in [Actions -> {"absent", "present", "branch_only"}]
      /\ coded \in [Actions -> Nat]
  BY DEF IInv, TypeOK
<1>2. HandlerLocals /\ RowShape /\ OwnerHoldsRow /\ ReleaseFindsNoOwner /\ SideEffects
  BY DEF IInv, ClaimDiscipline
<1>3. /\ pc[t] = "dp_apply" /\ b \in Actions /\ t \notin fresh
      /\ runs[b].execution # "none" /\ req[t].kind \in Dispositions
      /\ UNCHANGED <<runs, fresh, orphans, coded, granted>>
  BY <1>2 DEF DisposeApply, HandlerLocals, LocalsFit
<1>4. /\ runs[b].started /\ b \notin orphans
      /\ \A u \in Threads : ~Owns(u, b)
  BY <1>2, <1>3 DEF OwnerHoldsRow, SideEffects, RowShape
<1>5. PICK p \in {"dp_put", "idle"} :
        /\ pc' = [pc EXCEPT ![t] = p]
        /\ p = "dp_put" => req' = req
        /\ \A u \in Threads \ {t} : req'[u] = req[u]
  BY <1>1 DEF DisposeApply, Go, Finish
<1>6. \A u \in Threads : pc'[u] = IF u = t THEN p ELSE pc[u]
  BY <1>1, <1>5
<1>7. \A a \in Actions \ {b} : worktree'[a] = worktree[a]
  BY <1>1 DEF DisposeApply
<1>8. \A u \in Threads, a \in Actions : Owns(u, a)' =>
        u # t /\ Owns(u, a) /\ pc'[u] = pc[u]
  BY <1>5, <1>6 DEF Owns, Serves, BeforeStart, AfterStart
<1>9. HandlerLocals'
  <2>1. ASSUME NEW u \in Threads PROVE LocalsFit(u)'
    <3>1. LocalsFit(u)
      BY <1>2 DEF HandlerLocals
    <3>2. CASE u = t
      BY <1>3, <1>5, <1>6, <3>1, <3>2 DEF LocalsFit, DecidePcs
    <3>3. CASE u # t
      BY <1>3, <1>5, <1>6, <3>1, <3>3 DEF LocalsFit, DecidePcs
    <3> QED BY <3>2, <3>3
  <2> QED BY <2>1 DEF HandlerLocals
<1>10. RowShape'
  BY <1>2, <1>3 DEF RowShape
<1>11. OwnerHoldsRow'
  BY <1>2, <1>3, <1>8 DEF OwnerHoldsRow
<1>12. ReleaseFindsNoOwner'
  <2>1. ASSUME NEW u \in Threads, u \in fresh', req'[u].kind = "release",
               NEW v \in Threads
        PROVE  ~Owns(v, req[u].action)'
    <3>1. u # t /\ req'[u] = req[u] /\ ~Owns(v, req[u].action)
      BY <1>2, <1>3, <1>5, <2>1 DEF ReleaseFindsNoOwner
    <3> QED BY <1>5, <1>6, <3>1 DEF Owns, Serves, BeforeStart, AfterStart
  <2> QED BY <2>1 DEF ReleaseFindsNoOwner
<1>13. SideEffects'
  <2>1. \A u \in Threads, a \in Actions :
          Serves(u, a)' /\ pc'[u] \in {"run", "launch", "coding"} =>
            Serves(u, a) /\ pc'[u] = pc[u] /\ a # b
    BY <1>4, <1>5, <1>6 DEF Serves, Owns, AfterStart
  <2> QED BY <1>2, <1>3, <1>4, <1>7, <1>8, <2>1 DEF SideEffects
<1> QED BY <1>9, <1>10, <1>11, <1>12, <1>13 DEF ClaimDiscipline

(* A reconciliation starts.  A release does so only when no other request  *)
(* on the action is being served.                                          *)
LEMMA ReconcileKeepsDiscipline ==
  ASSUME IInv, TypeOK', "release" \notin Overlapping,
         NEW t \in Threads, NEW a \in Actions,
         NEW kind \in {"release", "abandon"}, Reconcile(t, kind, a)
  PROVE  ClaimDiscipline'
<1>1. /\ pc \in [Threads -> Steps] /\ req \in [Threads -> Request]
      /\ runs \in [Actions -> Row]
  BY DEF IInv, TypeOK
<1>2. HandlerLocals /\ RowShape /\ OwnerHoldsRow /\ ReleaseFindsNoOwner /\ SideEffects
  BY DEF IInv, ClaimDiscipline
<1>3. /\ pc[t] = "idle" /\ fresh' = fresh \cup {t}
      /\ UNCHANGED <<runs, external, granted>>
      /\ kind = "release" => \A u \in Threads : req[u].action # a
  BY DEF Reconcile, MayStart
<1>4. \A u \in Threads : pc'[u] = IF u = t THEN "rc_put" ELSE pc[u]
  BY <1>1 DEF Reconcile, Go
<1>5. /\ \A u \in Threads \ {t} : req'[u] = req[u]
      /\ req'[t].action = a /\ req'[t].kind = kind
  BY <1>1 DEF Reconcile, Start, NoRequest
<1>6. \A u \in Threads, x \in Actions : Owns(u, x)' =>
        u # t /\ Owns(u, x) /\ pc'[u] = pc[u]
  BY <1>4, <1>5 DEF Owns, Serves, BeforeStart, AfterStart
<1>7. HandlerLocals'
  <2>1. ASSUME NEW u \in Threads PROVE LocalsFit(u)'
    <3>1. LocalsFit(u)
      BY <1>2 DEF HandlerLocals
    <3>2. CASE u = t
      BY <1>4, <1>5, <3>2 DEF LocalsFit, DecidePcs
    <3>3. CASE u # t
      BY <1>3, <1>4, <1>5, <3>1, <3>3 DEF LocalsFit, DecidePcs
    <3> QED BY <3>2, <3>3
  <2> QED BY <2>1 DEF HandlerLocals
<1>8. RowShape'
  BY <1>2, <1>3 DEF RowShape
<1>9. OwnerHoldsRow'
  BY <1>2, <1>3, <1>6 DEF OwnerHoldsRow
<1>10. ReleaseFindsNoOwner'
  <2>1. ASSUME NEW u \in Threads, u \in fresh', req'[u].kind = "release",
               NEW v \in Threads
        PROVE  ~Owns(v, req[u].action)'
    <3>1. CASE u = t
      BY <1>3, <1>4, <1>5, <2>1, <3>1 DEF Owns, Serves, BeforeStart, AfterStart
    <3>2. CASE u # t
      <4>1. req'[u] = req[u] /\ ~Owns(v, req[u].action)
        BY <1>2, <1>3, <1>5, <2>1, <3>2 DEF ReleaseFindsNoOwner
      <4> QED BY <1>4, <1>5, <4>1 DEF Owns, Serves, BeforeStart, AfterStart
    <3> QED BY <3>1, <3>2
  <2> QED BY <2>1 DEF ReleaseFindsNoOwner
<1>11. SideEffects'
  <2>1. \A u \in Threads, x \in Actions :
          Serves(u, x)' /\ pc'[u] \in {"run", "launch", "coding"} =>
            Serves(u, x) /\ pc'[u] = pc[u]
    BY <1>4, <1>5 DEF Serves
  <2> QED BY <1>2, <1>3, <1>6, <2>1 DEF SideEffects, external
<1> QED BY <1>7, <1>8, <1>9, <1>10, <1>11 DEF ClaimDiscipline

(* A reconciliation takes effect: a release only on a row without owner.   *)
LEMMA ReconcilePutKeepsDiscipline ==
  ASSUME IInv, TypeOK', NEW t \in Threads, ReconcilePut(t)
  PROVE  ClaimDiscipline'
<1> DEFINE b == req[t].action
<1>1. /\ pc \in [Threads -> Steps] /\ req \in [Threads -> Request]
      /\ runs \in [Actions -> Row]
  BY DEF IInv, TypeOK
<1>2. HandlerLocals /\ RowShape /\ OwnerHoldsRow /\ ReleaseFindsNoOwner /\ SideEffects
  BY DEF IInv, ClaimDiscipline
<1>3. /\ pc[t] = "rc_put" /\ b \in Actions /\ Finish(t)
      /\ req[t].kind \in {"release", "abandon"}
      /\ UNCHANGED <<external, granted>>
  BY <1>2 DEF ReconcilePut, HandlerLocals, LocalsFit
<1>4. runs[b] \in Row
  BY <1>1, <1>3
<1>5. CASE runs' = runs /\ fresh' = fresh \ {t}
  <2>1. RowShape'
    BY <1>2, <1>3, <1>5 DEF RowShape
  <2> QED BY <1>3, <1>5, <2>1, FinishKeepsDiscipline
<1>6. CASE /\ t \in fresh /\ req[t].kind = "abandon" /\ can_abandon(runs[b])
           /\ Write(b, abandon_started_claim(runs[b]))
  <2> DEFINE row == abandon_started_claim(runs[b])
  <2>1. /\ runs' = [runs EXCEPT ![b] = row]
        /\ fresh' \subseteq fresh \ {t}
    BY <1>6 DEF Write
  <2>2. /\ row.exists = runs[b].exists /\ row.claim = runs[b].claim
        /\ row.started = runs[b].started /\ row.started
        /\ row.execution = runs[b].execution
        /\ row.approval = runs[b].approval
    BY <1>4, <1>6 DEF abandon_started_claim, can_abandon, Row
  <2> HIDE DEF row
  <2>3. \A a \in Actions : runs'[a] = IF a = b THEN row ELSE runs[a]
    BY <1>1, <2>1
  <2>4. RowShape'
    BY <1>2, <1>3, <2>2, <2>3 DEF RowShape
  <2> QED BY <1>3, <2>1, <2>2, <2>3, <2>4, FinishKeepsDiscipline
<1>7. CASE /\ t \in fresh /\ req[t].kind = "release" /\ can_release(runs[b])
           /\ Write(b, release_unstarted_claim(runs[b]))
  <2> DEFINE row == release_unstarted_claim(runs[b])
  <2>1. /\ runs' = [runs EXCEPT ![b] = row]
        /\ fresh' \subseteq fresh \ {t}
    BY <1>7 DEF Write
  <2>2. /\ row.exists = runs[b].exists /\ ~row.claim
        /\ ~row.started /\ ~runs[b].started
        /\ row.execution = runs[b].execution
        /\ row.approval = runs[b].approval /\ row.objective = runs[b].objective
        /\ row.resolution = "released" /\ runs[b].claim
    BY <1>4, <1>7 DEF release_unstarted_claim, can_release, Row
  <2> HIDE DEF row
  <2>3. \A a \in Actions : runs'[a] = IF a = b THEN row ELSE runs[a]
    BY <1>1, <2>1
  <2>4. \A u \in Threads : ~Owns(u, b)
    BY <1>2, <1>7 DEF ReleaseFindsNoOwner
  <2>5. /\ \A u \in Threads \ {t} : pc'[u] = pc[u] /\ req'[u] = req[u]
        /\ pc'[t] = "idle"
    BY <1>1, <1>3 DEF Finish
  <2>6. \A u \in Threads, a \in Actions : Owns(u, a)' =>
          u # t /\ a # b /\ Owns(u, a) /\ pc'[u] = pc[u]
    BY <2>4, <2>5 DEF Owns, Serves, BeforeStart, AfterStart
  <2>7. HandlerLocals'
    <3>1. ASSUME NEW u \in Threads PROVE LocalsFit(u)'
      <4>1. LocalsFit(u)
        BY <1>2 DEF HandlerLocals
      <4>2. CASE u = t
        BY <2>1, <2>5, <4>2 DEF LocalsFit, DecidePcs
      <4>3. CASE u # t
        <5>1. req[u].action \in Actions =>
                /\ runs[req[u].action].exists => runs'[req[u].action].exists
                /\ runs'[req[u].action].execution = runs[req[u].action].execution
          BY <2>2, <2>3
        <5> QED BY <1>3, <2>1, <2>5, <4>1, <4>3, <5>1 DEF LocalsFit, DecidePcs
      <4> QED BY <4>2, <4>3
    <3> QED BY <3>1 DEF HandlerLocals
  <2>8. RowShape'
    BY <1>2, <1>3, <2>2, <2>3 DEF RowShape
  <2>9. OwnerHoldsRow'
    BY <1>2, <2>3, <2>6 DEF OwnerHoldsRow
  <2>10. ReleaseFindsNoOwner'
    <3>1. ASSUME NEW u \in Threads, u \in fresh', req'[u].kind = "release",
                 NEW v \in Threads
          PROVE  ~Owns(v, req[u].action)'
      <4>1. u # t /\ req'[u] = req[u] /\ ~Owns(v, req[u].action)
        BY <1>2, <2>1, <2>5, <3>1 DEF ReleaseFindsNoOwner
      <4> QED BY <2>5, <4>1 DEF Owns, Serves, BeforeStart, AfterStart
    <3> QED BY <3>1 DEF ReleaseFindsNoOwner
  <2>11. SideEffects'
    <3>1. \A u \in Threads, a \in Actions :
            Serves(u, a)' /\ pc'[u] \in {"run", "launch", "coding"} =>
              Serves(u, a) /\ pc'[u] = pc[u]
      BY <2>5 DEF Serves
    <3>2. b \notin orphans
      BY <1>2, <1>3, <2>2 DEF SideEffects
    <3> QED BY <1>2, <1>3, <2>2, <2>3, <2>6, <3>1, <3>2 DEF SideEffects, external
  <2> QED BY <2>7, <2>8, <2>9, <2>10, <2>11 DEF ClaimDiscipline
<1> QED BY <1>3, <1>5, <1>6, <1>7 DEF ReconcilePut

(* The process dies: no owner is left, running coders become orphans.      *)
LEMMA CrashKeepsDiscipline ==
  ASSUME IInv, Crash
  PROVE  IInv'
<1>1. /\ pc \in [Threads -> Steps] /\ req \in [Threads -> Request]
      /\ runs \in [Actions -> Row]
  BY DEF IInv, TypeOK
<1>2. HandlerLocals /\ RowShape /\ OwnerHoldsRow /\ ReleaseFindsNoOwner /\ SideEffects
  BY DEF IInv, ClaimDiscipline
<1>3. /\ fresh' = {} /\ UNCHANGED <<runs, worktree, granted, coded, issued>>
      /\ \A t \in Threads : pc'[t] = "idle" /\ req'[t] = NoRequest
  BY DEF Crash
<1>4. TypeOK'
  <2>1. pc' \in [Threads -> Steps] /\ req' \in [Threads -> Request]
    BY RequestTypes DEF Crash, Steps
  <2>2. lifecycle' \in [Actions -> Statuses] /\ queue' \in [Actions -> Seq(Texts)]
    BY DEF Crash, Statuses
  <2> QED BY <2>1, <2>2 DEF Crash, IInv, TypeOK
<1>5. HandlerLocals'
  BY <1>3 DEF HandlerLocals, LocalsFit, DecidePcs
<1>6. RowShape'
  BY <1>2, <1>3 DEF RowShape
<1>7. \A t \in Threads, a \in Actions : ~Owns(t, a)'
  BY <1>3 DEF Owns, BeforeStart, AfterStart
<1>8. OwnerHoldsRow' /\ ReleaseFindsNoOwner'
  BY <1>3, <1>7 DEF OwnerHoldsRow, ReleaseFindsNoOwner
<1>9. SideEffects'
  <2>1. \A a \in orphans' :
          /\ a \in Actions => /\ runs[a].started /\ runs[a].execution = "none"
                               /\ worktree[a] = "present"
    <3>1. ASSUME NEW t \in Threads, NEW a \in Actions, pc[t] = "coding",
                 req[t].action = a
          PROVE  /\ runs[a].started /\ runs[a].execution = "none"
                 /\ worktree[a] = "present"
      BY <1>2, <3>1 DEF OwnerHoldsRow, SideEffects, Owns, Serves, AfterStart
    <3> QED BY <1>2, <3>1 DEF Crash, SideEffects
  <2> QED BY <1>2, <1>3, <1>7, <2>1 DEF SideEffects
<1> QED BY <1>4, <1>5, <1>6, <1>8, <1>9 DEF IInv, ClaimDiscipline

(* A coder left over from a dead process exits.                            *)
LEMMA OrphanExitsKeepsDiscipline ==
  ASSUME IInv, NEW a \in Actions, OrphanExits(a)
  PROVE  IInv'
<1>1. /\ UNCHANGED <<runs, fresh, issued, memory, worktree, coded, pc, req, granted>>
      /\ orphans' \subseteq orphans
  BY DEF OrphanExits
<1>2. TypeOK'
  BY <1>1 DEF IInv, TypeOK, memory
<1>4. HandlerLocals'
  BY <1>1 DEF IInv, ClaimDiscipline, HandlerLocals, LocalsFit
<1>7. RowShape'
  BY <1>1 DEF IInv, ClaimDiscipline, RowShape
<1>8. OwnerHoldsRow'
  BY <1>1 DEF IInv, ClaimDiscipline, OwnerHoldsRow, Owns, Serves
<1>5. ReleaseFindsNoOwner'
  BY <1>1 DEF IInv, ClaimDiscipline, ReleaseFindsNoOwner, Owns, Serves
<1>6. SideEffects'
  <2>1. SideEffects /\ \A x \in Actions : x \in orphans' => x \in orphans
    BY <1>1 DEF IInv, ClaimDiscipline
  <2> QED BY <1>1, <2>1 DEF SideEffects, Owns, Serves
<1> QED BY <1>2, <1>4, <1>5, <1>6, <1>7, <1>8 DEF IInv, ClaimDiscipline

---------------------------------------------------------------------------
(* Initially nothing is registered, claimed or running.                    *)
LEMMA InitEstablishes == Init => IInv
<1> SUFFICES ASSUME Init PROVE IInv
  OBVIOUS
<1>1. NoRow \in Row
  BY DEF NoRow, Row, Approvals, Resolutions
<1>2. TypeOK
  BY <1>1, RequestTypes DEF Init, TypeOK, Statuses, Steps
<1>3. /\ \A t \in Threads : pc[t] = "idle" /\ t \notin fresh
      /\ \A a \in Actions : /\ runs[a] = NoRow /\ worktree[a] = "absent"
                            /\ coded[a] = 0 /\ a \notin orphans
  BY DEF Init
<1>4. HandlerLocals
  BY <1>3 DEF HandlerLocals, LocalsFit, DecidePcs
<1>5. RowShape
  BY <1>3 DEF RowShape, NoRow
<1>6. \A t \in Threads, a \in Actions : ~Owns(t, a)
  BY <1>3 DEF Owns, BeforeStart, AfterStart
<1>7. OwnerHoldsRow /\ ReleaseFindsNoOwner
  BY <1>3, <1>6 DEF OwnerHoldsRow, ReleaseFindsNoOwner
<1>8. SideEffects
  BY <1>3 DEF SideEffects
<1> QED BY <1>2, <1>4, <1>5, <1>7, <1>8 DEF IInv, ClaimDiscipline

(* Every step keeps the inductive invariant.                               *)
LEMMA NextPreserves ==
  ASSUME "release" \notin Overlapping, IInv, [Next]_vars
  PROVE  IInv'
<1>1. ASSUME NEW t \in Threads, NEW a \in Actions, Requests(t, a)
      PROVE  IInv'
  <2>1. TypeOK'
    BY <1>1, ThreadStepTypes
  <2>2. ClaimDiscipline'
    BY <1>1, <2>1, RequestsKeepDiscipline, ReconcileKeepsDiscipline DEF Requests
  <2> QED BY <2>1, <2>2 DEF IInv
<1>2. ASSUME NEW t \in Threads, HandlerStep(t)
      PROVE  IInv'
  <2>1. pc[t] # "idle"
    BY <1>2 DEF HandlerStep, DecisionSteps, ExecutionSteps, OtherSteps,
         DecideRecover, DecideLifecycle, DecideEnsure, DecidePut, DecideCheck,
         DecideWrite, DecideSet, DecideDrop, ApproveEnqueue, ExecuteQueue,
         ExecuteClaim, ExecuteMatch, ExecuteLifecycle, ProcessGet,
         ProcessLifecycle, ProcessRemove, ProcessState, ProcessExecuting,
         StartPut, StartRead, StartCheck, StartMark, RunExecutor, CoderExits,
         FinishPut, FinishLifecycle, RegisterGet, DelegatePut, ReconcilePut,
         DisposeApply, DisposePut, DatabaseError, DatabaseSteps
  <2>2. req[t].action \in Actions
    BY <2>1 DEF IInv, ClaimDiscipline, HandlerLocals, LocalsFit
  <2>3. TypeOK'
    BY <1>2, <2>2, ThreadStepTypes
  <2>4. CASE DecisionSteps(t)
    BY <2>3, <2>4, QuietStepsKeepDiscipline, RowWritesKeepDiscipline
       DEF DecisionSteps, IInv
  <2>5. CASE ExecutionSteps(t)
    BY <2>3, <2>5, QuietStepsKeepDiscipline, RowWritesKeepDiscipline,
       ClaimKeepsDiscipline, StartMarkKeepsDiscipline,
       RunExecutorKeepsDiscipline, FinishPutKeepsDiscipline
       DEF ExecutionSteps, IInv
  <2>6. CASE OtherSteps(t)
    BY <2>3, <2>6, QuietStepsKeepDiscipline, RowWritesKeepDiscipline,
       ReconcilePutKeepsDiscipline, DisposeApplyKeepsDiscipline
       DEF OtherSteps, IInv
  <2> QED BY <1>2, <2>4, <2>5, <2>6 DEF HandlerStep
<1>3. ASSUME UNCHANGED vars PROVE IInv'
  <2>1. TypeOK'
    BY <1>3 DEF vars, IInv, TypeOK
  <2>2. HandlerLocals' /\ RowShape'
    BY <1>3 DEF vars, IInv, ClaimDiscipline, HandlerLocals, LocalsFit, RowShape
  <2>3. OwnerHoldsRow' /\ ReleaseFindsNoOwner'
    BY <1>3 DEF vars, IInv, ClaimDiscipline, OwnerHoldsRow,
                ReleaseFindsNoOwner, Owns, Serves
  <2>4. SideEffects'
    BY <1>3 DEF vars, IInv, ClaimDiscipline, SideEffects, Owns, Serves
  <2> QED BY <2>1, <2>2, <2>3, <2>4 DEF IInv, ClaimDiscipline
<1> QED
  BY <1>1, <1>2, <1>3, CrashKeepsDiscipline, OrphanExitsKeepsDiscipline
     DEF Next, Running

(* Types and the claim discipline hold in every reachable state, whatever  *)
(* requests overlap, as long as a release does not overlap the request     *)
(* whose claim it takes away.                                              *)
THEOREM DisciplineHolds ==
  "release" \notin Overlapping => (Spec => [](TypeOK /\ ClaimDiscipline))
<1> SUFFICES ASSUME "release" \notin Overlapping
             PROVE  Spec => [](TypeOK /\ ClaimDiscipline)
  OBVIOUS
<1>1. Init => IInv
  BY InitEstablishes
<1>2. IInv /\ [Next]_vars => IInv'
  BY NextPreserves
<1>3. IInv => TypeOK /\ ClaimDiscipline
  BY DEF IInv
<1> QED BY <1>1, <1>2, <1>3, PTL DEF Spec

(* No coding process without an operator's approval.                       *)
THEOREM ApprovalFirst ==
  "release" \notin Overlapping => (Spec => []NoRunWithoutApproval)
<1>1. ASSUME TypeOK, ClaimDiscipline PROVE NoRunWithoutApproval
  <2>1. ASSUME NEW a \in Actions, coded[a] > 0 PROVE a \in granted
    <3>1. coded[a] # 0
      BY <1>1, <2>1 DEF TypeOK
    <3>2. runs[a].started
      BY <1>1, <3>1 DEF ClaimDiscipline, SideEffects
    <3>3. runs[a].claim
      BY <1>1, <3>2 DEF ClaimDiscipline, RowShape
    <3> QED BY <1>1, <3>3 DEF ClaimDiscipline, RowShape
  <2> QED BY <2>1 DEF NoRunWithoutApproval
<1> QED BY <1>1, DisciplineHolds, PTL

(* One action launches at most one coding process.                         *)
THEOREM OneCodingRun ==
  "release" \notin Overlapping => (Spec => []AtMostOneCodingRun)
<1>1. TypeOK /\ ClaimDiscipline => AtMostOneCodingRun
  BY DEF ClaimDiscipline, SideEffects, AtMostOneCodingRun
<1> QED BY <1>1, DisciplineHolds, PTL

(* A live coding process works under a started claim without a result and  *)
(* on a worktree that nobody removed.                                      *)
THEOREM CoderIsProtected ==
  "release" \notin Overlapping => (Spec => []CodingHoldsClaim)
<1>1. ASSUME TypeOK, ClaimDiscipline PROVE CodingHoldsClaim
  <2>1. ASSUME NEW a \in Actions, a \in orphans
        PROVE  /\ runs[a].claim /\ runs[a].started /\ runs[a].execution = "none"
               /\ worktree[a] = "present"
    BY <1>1, <2>1 DEF ClaimDiscipline, SideEffects, RowShape
  <2>2. ASSUME NEW a \in Actions, NEW t \in Threads, pc[t] = "coding", Serves(t, a)
        PROVE  /\ runs[a].claim /\ runs[a].started /\ runs[a].execution = "none"
               /\ worktree[a] = "present"
    BY <1>1, <2>2 DEF ClaimDiscipline, SideEffects, OwnerHoldsRow, Owns, AfterStart
  <2> QED BY <2>1, <2>2 DEF CodingHoldsClaim, CoderAlive
<1> QED BY <1>1, DisciplineHolds, PTL

(* Worktrees and launches are marked in the row before they happen.        *)
THEOREM EffectsAreMarked ==
  "release" \notin Overlapping => (Spec => []SideEffectsAreMarked)
<1>1. TypeOK /\ ClaimDiscipline => SideEffectsAreMarked
  BY DEF ClaimDiscipline, SideEffects, TypeOK, SideEffectsAreMarked
<1> QED BY <1>1, DisciplineHolds, PTL

(* The status endpoint's retriable flag agrees with claim_approved.        *)
THEOREM RetriableMeansClaimable ==
  "release" \notin Overlapping => (Spec => []RetriableIsHonest)
<1>1. ASSUME TypeOK, ClaimDiscipline PROVE RetriableIsHonest
  <2>1. ASSUME NEW a \in Actions PROVE retriable(runs[a]) <=> can_claim(runs[a])
    BY <1>1 DEF ClaimDiscipline, RowShape, retriable, can_claim
  <2> QED BY <2>1 DEF RetriableIsHonest
<1> QED BY <1>1, DisciplineHolds, PTL
===========================================================================
