------------------------- MODULE SESequentialProofs -------------------------
(***************************************************************************)
(* What holds when clients wait for an answer before they send the next    *)
(* request on an Action, as the task client and the acceptance runner do,  *)
(* and the database answers: memory and row agree between requests, the    *)
(* objective is scrubbed, and what status offers is what the handlers do.  *)
(* The server may still crash at any step.                                 *)
(***************************************************************************)
EXTENDS SEControlPlaneProofs

Sequential == Overlapping = {} /\ DatabaseFails = FALSE

-----------------------------------------------------------------------------
(* A row keeps the order claim after approval, and loses its objective     *)
(* when it is decided against, given up or done.                           *)
SettledRow(a) ==
  LET row == runs[a]
  IN /\ row.claim => row.approval = "approved"
     /\ row.approval = "awaiting" => row.exists /\ row.objective
     /\ \/ row.approval = "rejected" \/ row.resolution = "abandoned"
        \/ row.execution # "none"
        => ~row.objective

(* Memory tells nothing about the Action that the row contradicts.         *)
Agree(a) ==
  LET row == runs[a]
  IN /\ a \in registry => row.approval = "awaiting"
     /\ queue[a] # <<>> => row.approval = "approved"
     /\ \/ lifecycle[a] \in {"none", "queued"}
        \/ lifecycle[a] = "approved" /\ row.approval = "approved"
        \/ lifecycle[a] = "rejected" /\ row.approval \in {"rejected", "none"}
        \/ lifecycle[a] = "completed" /\ row.execution = "succeeded"
        \/ lifecycle[a] = "failed" /\ row.execution = "failed"

(* An id nobody delegated has left no trace.                               *)
Untouched(a) ==
  runs[a] = NoRow /\ a \notin registry /\ lifecycle[a] = "none" /\ queue[a] = <<>>

(* What a handler may rely on at each step because it is alone.            *)
Deciding == {"dec_life", "dec_ensure", "dec_get", "dec_put", "dec_check", "dec_write"}
Decided == {"dec_set", "dec_drop"}
Processing == {"pr_get", "pr_life", "pr_remove", "pr_state", "pr_exec"}
Observed == {"st_get", "st_put", "st_read", "st_check", "st_mark", "run", "launch",
             "coding", "fin_put", "fin_life"}

HandlerAgrees(t, a) ==
  LET row == runs[a]
  IN /\ pc[t] \notin {"dlg_get", "dlg_put"} \cup Decided \cup Observed => Agree(a)
     /\ pc[t] \in {"dlg_get", "dlg_put"} =>
          /\ row = NoRow /\ queue[a] = <<>>
          /\ req[t].want = "awaiting" => lifecycle[a] = "queued"
          /\ req[t].want = "none" => a \notin registry
                                     /\ lifecycle[a] \in {"none", "rejected"}
     /\ pc[t] \in {"dlg_put", "dec_put", "st_put"} => req[t].cur = row
     /\ pc[t] \in Deciding => row.exists /\ row.approval = "awaiting"
     /\ pc[t] \in {"dec_get", "dec_put"} => req[t].want = "none"
     /\ pc[t] \in Decided =>
          /\ row.approval = (IF req[t].kind = "approve" THEN "approved" ELSE "rejected")
          /\ queue[a] = <<>>
     /\ pc[t] = "dec_drop" =>
          lifecycle[a] = (IF req[t].kind = "approve" THEN "approved" ELSE "rejected")
     /\ pc[t] = "dec_enqueue" => row.approval = "approved"
     /\ pc[t] \in {"ex_queue", "ex_claim", "ex_match", "ex_life"} =>
          lifecycle[a] = req[t].seen /\ req[t].seen \in {"none", "queued", "approved"}
     /\ pc[t] \in {"ex_claim", "ex_match"} => req[t].text = "none" \/ queue[a] # <<>>
     /\ pc[t] \in {"ex_life", "pr_get", "pr_life", "pr_remove"} => queue[a] # <<>>
     /\ pc[t] \in Processing => lifecycle[a] = "approved"
     /\ pc[t] \in Observed => row.approval = "approved" /\ a \notin registry
     /\ pc[t] = "fin_life" => row.execution = req[t].out

(* A busy thread serves an issued Action, alone.                           *)
Alone ==
  \A t \in Threads :
    /\ pc[t] = "idle" => req[t] = NoRequest
    /\ pc[t] # "idle" => req[t].action \in issued
    /\ \A u \in Threads : pc[t] # "idle" /\ req[u].action = req[t].action => u = t

SequentialDiscipline ==
  /\ Alone
  /\ \A a \in Actions : /\ SettledRow(a)
                        /\ a \notin issued => Untouched(a)
                        /\ Quiet(a) => Agree(a)
                        /\ \A t \in Threads : Serves(t, a) => HandlerAgrees(t, a)

SInv == IInv /\ SequentialDiscipline

-----------------------------------------------------------------------------
(* A step works on one Action: whoever moves, the others and their Actions *)
(* are left alone, so only this Action has to be looked at.                *)
LEMMA OneActionMoves ==
  ASSUME SInv, NEW t \in Threads, NEW a \in Actions,
         a \in issued', issued \subseteq issued', issued' \subseteq issued \cup {a},
         pc[t] # "idle" => req[t].action = a,
         pc[t] = "idle" => \A u \in Threads : req[u].action # a,
         \A u \in Threads \ {t} : pc'[u] = pc[u] /\ req'[u] = req[u],
         \A b \in Actions \ {a} :
           /\ runs'[b] = runs[b] /\ lifecycle'[b] = lifecycle[b]
           /\ queue'[b] = queue[b] /\ (b \in registry' <=> b \in registry),
         SettledRow(a)',
         \/ pc'[t] = "idle" /\ req'[t] = NoRequest /\ Agree(a)'
         \/ pc'[t] # "idle" /\ req'[t].action = a /\ HandlerAgrees(t, a)'
  PROVE  SequentialDiscipline'
<1>1. "none" \notin Actions /\ NoRequest.action = "none" /\ issued \subseteq Actions
  BY ControlPlaneAssumption DEF NoRequest, SInv, IInv, TypeOK
<1>2. \A u \in Threads : /\ pc[u] = "idle" => req[u] = NoRequest
                         /\ pc[u] # "idle" => req[u].action \in issued
  BY DEF SInv, SequentialDiscipline, Alone
<1>3. \A u \in Threads \ {t} : req[u].action # a
  BY DEF SInv, SequentialDiscipline, Alone
<1>4. req'[t].action \in {a, "none"}
  BY <1>1
<1>5. Alone'
  <2>1. ASSUME NEW u \in Threads
        PROVE  /\ pc'[u] = "idle" => req'[u] = NoRequest
               /\ pc'[u] # "idle" => req'[u].action \in issued'
    BY <1>2
  <2>2. ASSUME NEW u \in Threads, NEW v \in Threads, pc'[u] # "idle",
               req'[v].action = req'[u].action
        PROVE  v = u
    <3>1. CASE u = t
      BY <1>1, <1>3, <2>2, <3>1
    <3>2. CASE u # t /\ v = t
      <4>1. req'[u].action \in issued /\ req'[u].action # a
        BY <1>2, <1>3, <2>2, <3>2
      <4> QED BY <1>1, <1>4, <2>2, <3>2, <4>1
    <3>3. CASE u # t /\ v # t
      BY <2>2, <3>3 DEF SInv, SequentialDiscipline, Alone
    <3> QED BY <3>1, <3>2, <3>3
  <2> QED BY <2>1, <2>2 DEF Alone
<1>6. ASSUME NEW b \in Actions, b # a
      PROVE  /\ SettledRow(b)' /\ (b \notin issued' => Untouched(b)')
             /\ Quiet(b)' => Agree(b)'
             /\ \A u \in Threads : Serves(u, b)' => HandlerAgrees(u, b)'
  <2>1. /\ SettledRow(b) /\ (b \notin issued => Untouched(b))
        /\ Quiet(b) => Agree(b)
        /\ \A u \in Threads : Serves(u, b) => HandlerAgrees(u, b)
    BY DEF SInv, SequentialDiscipline
  <2>2. SettledRow(b)' /\ (b \notin issued' => Untouched(b)')
    BY <1>6, <2>1 DEF SettledRow, Untouched
  <2>3. Agree(b) => Agree(b)'
    BY <1>6 DEF Agree
  <2>4. ~Serves(t, b) /\ ~Serves(t, b)'
    BY <1>1, <1>2, <1>4, <1>6 DEF Serves
  <2>5. \A u \in Threads \ {t} : Serves(u, b)' <=> Serves(u, b)
    BY DEF Serves
  <2>6. ASSUME NEW u \in Threads, u # t, HandlerAgrees(u, b) PROVE HandlerAgrees(u, b)'
    BY <1>6, <2>3, <2>6 DEF HandlerAgrees
  <2> QED BY <2>1, <2>2, <2>3, <2>4, <2>5, <2>6 DEF Quiet
<1>7. /\ Quiet(a)' => Agree(a)'
      /\ \A u \in Threads : Serves(u, a)' => HandlerAgrees(u, a)'
  BY <1>1, <1>3 DEF Quiet, Serves
<1> QED BY <1>5, <1>6, <1>7 DEF SequentialDiscipline

(* What a busy handler finds.                                              *)
LEMMA BusyHandler ==
  ASSUME SInv, NEW t \in Threads, pc[t] # "idle"
  PROVE  \E a \in Actions :
           /\ a = req[t].action /\ a \in issued
           /\ runs[a] \in Row /\ req[t] \in Request
           /\ lifecycle[a] \in Statuses /\ queue[a] \in Seq(Texts)
           /\ SettledRow(a) /\ HandlerAgrees(t, a) /\ LocalsFit(t)
<1>1. PICK a \in Actions : a = req[t].action
  BY DEF SInv, IInv, ClaimDiscipline, HandlerLocals, LocalsFit
<1>2. a \in issued /\ SettledRow(a) /\ HandlerAgrees(t, a)
  BY <1>1 DEF SInv, SequentialDiscipline, Alone, Serves
<1>3. /\ runs[a] \in Row /\ req[t] \in Request
      /\ lifecycle[a] \in Statuses /\ queue[a] \in Seq(Texts)
  BY DEF SInv, IInv, TypeOK
<1>4. LocalsFit(t)
  BY DEF SInv, IInv, ClaimDiscipline, HandlerLocals
<1> QED BY <1>1, <1>2, <1>3, <1>4

(* A handler's step on the Action it serves.                               *)
LEMMA HandlerMoves ==
  ASSUME SInv, NEW t \in Threads, NEW a \in Actions, a = req[t].action,
         pc[t] # "idle", UNCHANGED issued,
         \A u \in Threads \ {t} : pc'[u] = pc[u] /\ req'[u] = req[u],
         \A b \in Actions \ {a} :
           /\ runs'[b] = runs[b] /\ lifecycle'[b] = lifecycle[b]
           /\ queue'[b] = queue[b] /\ (b \in registry' <=> b \in registry),
         SettledRow(a)',
         \/ pc'[t] = "idle" /\ req'[t] = NoRequest /\ Agree(a)'
         \/ pc'[t] # "idle" /\ req'[t].action = a /\ HandlerAgrees(t, a)'
  PROVE  SequentialDiscipline'
<1>1. a \in issued
  BY BusyHandler
<1> QED BY <1>1, OneActionMoves

(* The same for a step that writes neither row nor memory.                 *)
LEMMA HandlerLooks ==
  ASSUME SInv, NEW t \in Threads, pc[t] # "idle",
         UNCHANGED <<runs, issued, registry, lifecycle, queue>>,
         \A u \in Threads \ {t} : pc'[u] = pc[u] /\ req'[u] = req[u],
         \/ pc'[t] = "idle" /\ req'[t] = NoRequest /\ Agree(req[t].action)
         \/ /\ pc'[t] # "idle" /\ req'[t].action = req[t].action
            /\ \A a \in Actions : a = req[t].action => HandlerAgrees(t, a)'
  PROVE  SequentialDiscipline'
<1>1. PICK a \in Actions : a = req[t].action
  BY BusyHandler
<1>2. SettledRow(a)'
  BY <1>1, BusyHandler DEF SettledRow
<1>3. Agree(a) => Agree(a)'
  BY DEF Agree
<1> QED BY <1>1, <1>2, <1>3, HandlerMoves

(* How a step moves its thread.                                            *)
LEMMA Moves ==
  ASSUME SInv, NEW t \in Threads
  PROVE  /\ Finish(t) =>
              /\ pc'[t] = "idle" /\ req'[t] = NoRequest
              /\ \A u \in Threads \ {t} : pc'[u] = pc[u] /\ req'[u] = req[u]
         /\ \A step : Go(t, step) =>
              pc'[t] = step /\ \A u \in Threads \ {t} : pc'[u] = pc[u]
BY DEF SInv, IInv, TypeOK, Finish, Go

-----------------------------------------------------------------------------
(* The handlers' steps that only look, or only touch their locals.         *)
LEMMA LooksKeepDiscipline ==
  ASSUME Sequential, SInv, NEW t \in Threads,
         \/ DecideRecover(t) \/ DecideLifecycle(t) \/ DecideEnsure(t) \/ DecideCheck(t)
         \/ ExecuteQueue(t) \/ ProcessGet(t) \/ ProcessLifecycle(t)
         \/ StartRead(t) \/ StartCheck(t) \/ CoderExits(t)
  PROVE  SequentialDiscipline'
<1> USE DEF Deciding, Decided, Processing, Observed
<1>1. pc[t] # "idle" /\ UNCHANGED <<runs, issued, registry, lifecycle, queue>>
  BY DEF DecideRecover, DecideLifecycle, DecideEnsure, DecideCheck, ExecuteQueue,
         ProcessGet, ProcessLifecycle, StartRead, StartCheck, CoderExits, memory
<1>2. PICK a \in Actions :
        /\ a = req[t].action /\ a \in issued
        /\ runs[a] \in Row /\ req[t] \in Request
        /\ lifecycle[a] \in Statuses /\ queue[a] \in Seq(Texts)
        /\ SettledRow(a) /\ HandlerAgrees(t, a) /\ LocalsFit(t)
  BY <1>1, BusyHandler
<1>3. CASE DecideRecover(t)
  <2>1. pc[t] = "dec_recover" /\ Agree(a)
    BY <1>2, <1>3 DEF DecideRecover, HandlerAgrees
  <2>2. CASE recoverable(runs[a])
    <3>1. Go(t, "dec_life") /\ req' = req
      BY <1>2, <1>3, <2>2 DEF DecideRecover
    <3>2. HandlerAgrees(t, a)'
      BY <1>1, <2>1, <2>2, <3>1, Moves DEF HandlerAgrees, Agree, recoverable
    <3> QED BY <1>1, <1>2, <3>1, <3>2, Moves, HandlerLooks
  <2>3. CASE ~recoverable(runs[a])
    <3>1. Finish(t)
      BY <1>2, <1>3, <2>3 DEF DecideRecover
    <3> QED BY <1>1, <1>2, <2>1, <3>1, Moves, HandlerLooks
  <2> QED BY <2>2, <2>3
<1>4. CASE DecideLifecycle(t)
  <2>1. pc[t] = "dec_life" /\ Agree(a)
    BY <1>2, <1>4 DEF DecideLifecycle, HandlerAgrees
  <2>2. CASE Finish(t)
    BY <1>1, <1>2, <2>1, <2>2, Moves, HandlerLooks
  <2>3. CASE Go(t, "dec_ensure") /\ req' = req
    <3>1. HandlerAgrees(t, a)'
      BY <1>1, <1>2, <2>1, <2>3, Moves DEF HandlerAgrees, Agree
    <3> QED BY <1>1, <1>2, <2>3, <3>1, Moves, HandlerLooks
  <2> QED BY <1>4, <2>2, <2>3 DEF DecideLifecycle
<1>5. CASE DecideEnsure(t)
  <2>1. pc[t] = "dec_ensure" /\ Agree(a) /\ runs[a].exists /\ runs[a].approval = "awaiting"
    BY <1>2, <1>5 DEF DecideEnsure, HandlerAgrees
  <2>2. Go(t, "dec_get") /\ req' = [req EXCEPT ![t].want = "none"]
    BY <1>2, <1>5, <2>1 DEF DecideEnsure
  <2>3. /\ req'[t].want = "none" /\ req'[t].action = a
        /\ \A u \in Threads \ {t} : req'[u] = req[u]
    BY <1>2, <2>2 DEF SInv, IInv, TypeOK, Request
  <2>4. HandlerAgrees(t, a)'
    BY <1>1, <2>1, <2>2, <2>3, Moves DEF HandlerAgrees, Agree
  <2> QED BY <1>1, <1>2, <2>2, <2>3, <2>4, Moves, HandlerLooks
<1>6. CASE DecideCheck(t)
  <2>1. pc[t] = "dec_check" /\ Agree(a)
    BY <1>2, <1>6 DEF DecideCheck, HandlerAgrees
  <2>2. CASE Finish(t)
    BY <1>1, <1>2, <2>1, <2>2, Moves, HandlerLooks
  <2>3. CASE Go(t, "dec_write") /\ req' = req
    <3>1. HandlerAgrees(t, a)'
      BY <1>1, <1>2, <2>1, <2>3, Moves DEF HandlerAgrees, Agree
    <3> QED BY <1>1, <1>2, <2>3, <3>1, Moves, HandlerLooks
  <2>4. Finish(t) \/ (Go(t, "dec_write") /\ req' = req)
    BY <1>6 DEF DecideCheck
  <2> QED BY <2>2, <2>3, <2>4
<1>7. CASE ExecuteQueue(t)
  <2>1. /\ pc[t] = "ex_queue" /\ Agree(a) /\ lifecycle[a] = req[t].seen
        /\ req[t].seen \in {"none", "queued", "approved"}
    BY <1>2, <1>7 DEF ExecuteQueue, HandlerAgrees
  <2>2. PICK x : /\ x = IF queue[a] = <<>> THEN "none" ELSE Head(queue[a])
                 /\ req' = [req EXCEPT ![t].text = x]
    BY <1>2, <1>7 DEF ExecuteQueue
  <2>3. Go(t, "ex_claim")
    BY <1>7 DEF ExecuteQueue
  <2>4. /\ req'[t].text = x /\ req'[t].action = a /\ req'[t].seen = req[t].seen
        /\ \A u \in Threads \ {t} : req'[u] = req[u]
    BY <1>2, <2>2 DEF SInv, IInv, TypeOK, Request
  <2>5. HandlerAgrees(t, a)'
    BY <1>1, <2>1, <2>2, <2>3, <2>4, Moves DEF HandlerAgrees, Agree
  <2> QED BY <1>1, <1>2, <2>3, <2>4, <2>5, Moves, HandlerLooks
<1>8. CASE ProcessGet(t)
  <2>1. pc[t] = "pr_get" /\ Agree(a) /\ queue[a] # <<>> /\ lifecycle[a] = "approved"
    BY <1>2, <1>8 DEF ProcessGet, HandlerAgrees
  <2>2. Go(t, "pr_life") /\ req' = req
    BY <1>2, <1>8, <2>1 DEF ProcessGet
  <2>3. HandlerAgrees(t, a)'
    BY <1>1, <2>1, <2>2, Moves DEF HandlerAgrees, Agree
  <2> QED BY <1>1, <1>2, <2>2, <2>3, Moves, HandlerLooks
<1>9. CASE ProcessLifecycle(t)
  <2>1. pc[t] = "pr_life" /\ Agree(a) /\ queue[a] # <<>> /\ lifecycle[a] = "approved"
    BY <1>2, <1>9 DEF ProcessLifecycle, HandlerAgrees
  <2>2. Go(t, "pr_remove") /\ req' = req
    BY <1>2, <1>9, <2>1 DEF ProcessLifecycle
  <2>3. HandlerAgrees(t, a)'
    BY <1>1, <2>1, <2>2, Moves DEF HandlerAgrees, Agree
  <2> QED BY <1>1, <1>2, <2>2, <2>3, Moves, HandlerLooks
<1>10. CASE StartRead(t)
  <2>1. pc[t] = "st_read" /\ runs[a].approval = "approved" /\ a \notin registry
    BY <1>2, <1>10 DEF StartRead, HandlerAgrees
  <2>2. PICK step \in {"st_check", "run"} : Go(t, step) /\ req' = req
    BY <1>10 DEF StartRead
  <2>3. HandlerAgrees(t, a)'
    BY <1>1, <2>1, <2>2, Moves DEF HandlerAgrees
  <2> QED BY <1>1, <1>2, <2>2, <2>3, Moves, HandlerLooks
<1>11. CASE StartCheck(t)
  <2>1. pc[t] = "st_check" /\ runs[a].approval = "approved" /\ a \notin registry
    BY <1>2, <1>11 DEF StartCheck, HandlerAgrees
  <2>2. can_record_execution_started(runs[a])
    BY <1>2, <2>1 DEF SInv, IInv, ClaimDiscipline, OwnerHoldsRow, Owns, Serves,
         BeforeStart, can_record_execution_started
  <2>3. Go(t, "st_mark") /\ req' = req
    BY <1>2, <1>11, <2>2 DEF StartCheck
  <2>4. HandlerAgrees(t, a)'
    BY <1>1, <2>1, <2>3, Moves DEF HandlerAgrees
  <2> QED BY <1>1, <1>2, <2>3, <2>4, Moves, HandlerLooks
<1>12. CASE CoderExits(t)
  <2>1. pc[t] = "coding" /\ runs[a].approval = "approved" /\ a \notin registry
    BY <1>2, <1>12 DEF CoderExits, HandlerAgrees
  <2>2. PICK out \in Results : req' = [req EXCEPT ![t].out = out]
    BY <1>12 DEF CoderExits
  <2>3. Go(t, "fin_put")
    BY <1>12 DEF CoderExits
  <2>4. req'[t].action = a /\ \A u \in Threads \ {t} : req'[u] = req[u]
    BY <1>2, <2>2 DEF SInv, IInv, TypeOK, Request
  <2>5. HandlerAgrees(t, a)'
    BY <1>1, <2>1, <2>3, <2>4, Moves DEF HandlerAgrees
  <2> QED BY <1>1, <1>2, <2>3, <2>4, <2>5, Moves, HandlerLooks
<1> QED
  BY <1>3, <1>4, <1>5, <1>6, <1>7, <1>8, <1>9, <1>10, <1>11, <1>12

(* register_action's SELECT gives the handler the row as it is.            *)
LEMMA RegisterGetKeepsDiscipline ==
  ASSUME SInv, NEW t \in Threads,
         \/ RegisterGet(t, "dlg_get", "dlg_put")
         \/ RegisterGet(t, "dec_get", "dec_put")
         \/ RegisterGet(t, "st_get", "st_put")
  PROVE  SequentialDiscipline'
<1> USE DEF Deciding, Decided, Processing, Observed
<1>1. pc[t] # "idle" /\ UNCHANGED <<runs, issued, registry, lifecycle, queue>>
  BY DEF RegisterGet, memory
<1>2. PICK a \in Actions :
        /\ a = req[t].action /\ a \in issued
        /\ runs[a] \in Row /\ req[t] \in Request
        /\ lifecycle[a] \in Statuses /\ queue[a] \in Seq(Texts)
        /\ SettledRow(a) /\ HandlerAgrees(t, a) /\ LocalsFit(t)
  BY <1>1, BusyHandler
<1>3. req' = [req EXCEPT ![t].cur = runs[a]]
  BY <1>2 DEF RegisterGet
<1>4. /\ req'[t].cur = runs[a] /\ req'[t].action = a
      /\ req'[t].want = req[t].want /\ req'[t].kind = req[t].kind
      /\ \A u \in Threads \ {t} : req'[u] = req[u]
  BY <1>2, <1>3 DEF SInv, IInv, TypeOK, Request
<1>5. CASE pc[t] = "dlg_get" /\ Go(t, "dlg_put")
  <2>1. HandlerAgrees(t, a)'
    BY <1>1, <1>2, <1>4, <1>5, Moves DEF HandlerAgrees
  <2> QED BY <1>1, <1>2, <1>4, <1>5, <2>1, Moves, HandlerLooks
<1>6. CASE pc[t] = "dec_get" /\ Go(t, "dec_put")
  <2>1. HandlerAgrees(t, a)'
    BY <1>1, <1>2, <1>4, <1>6, Moves DEF HandlerAgrees, Agree
  <2> QED BY <1>1, <1>2, <1>4, <1>6, <2>1, Moves, HandlerLooks
<1>7. CASE pc[t] = "st_get" /\ Go(t, "st_put")
  <2>1. HandlerAgrees(t, a)'
    BY <1>1, <1>2, <1>4, <1>7, Moves DEF HandlerAgrees
  <2> QED BY <1>1, <1>2, <1>4, <1>7, <2>1, Moves, HandlerLooks
<1> QED BY <1>5, <1>6, <1>7 DEF RegisterGet

(* Git and the coding process leave row and memory alone.                  *)
LEMMA SideEffectsKeepDiscipline ==
  ASSUME SInv, NEW t \in Threads, RunExecutor(t) \/ DisposeApply(t)
  PROVE  SequentialDiscipline'
<1> USE DEF Deciding, Decided, Processing, Observed
<1>1. pc[t] # "idle" /\ UNCHANGED <<runs, issued, registry, lifecycle, queue>>
  BY DEF RunExecutor, DisposeApply, memory
<1>2. PICK a \in Actions :
        /\ a = req[t].action /\ a \in issued
        /\ runs[a] \in Row /\ req[t] \in Request
        /\ lifecycle[a] \in Statuses /\ queue[a] \in Seq(Texts)
        /\ SettledRow(a) /\ HandlerAgrees(t, a) /\ LocalsFit(t)
  BY <1>1, BusyHandler
<1>3. CASE RunExecutor(t)
  <2>1. pc[t] \in Observed /\ runs[a].approval = "approved" /\ a \notin registry
    BY <1>2, <1>3 DEF RunExecutor, HandlerAgrees
  <2>2. PICK step \in {"launch", "coding", "fin_put"} :
          Go(t, step) /\ (req' = req \/ req' = [req EXCEPT ![t].out = "failed"])
    BY <1>3 DEF RunExecutor, CreateWorktree, Launch, FailToLaunch
  <2>3. req'[t].action = a /\ \A u \in Threads \ {t} : req'[u] = req[u]
    BY <1>2, <2>2 DEF SInv, IInv, TypeOK, Request
  <2>4. HandlerAgrees(t, a)'
    BY <1>1, <2>1, <2>2, <2>3, Moves DEF HandlerAgrees
  <2> QED BY <1>1, <1>2, <2>2, <2>3, <2>4, Moves, HandlerLooks
<1>4. CASE DisposeApply(t)
  <2>1. pc[t] = "dp_apply" /\ Agree(a)
    BY <1>2, <1>4 DEF DisposeApply, HandlerAgrees
  <2>2. Finish(t) \/ (Go(t, "dp_put") /\ req' = req)
    BY <1>4 DEF DisposeApply
  <2>3. CASE Finish(t)
    BY <1>1, <1>2, <2>1, <2>3, Moves, HandlerLooks
  <2>4. CASE Go(t, "dp_put") /\ req' = req
    <3>1. HandlerAgrees(t, a)'
      BY <1>1, <2>1, <2>4, Moves DEF HandlerAgrees, Agree
    <3> QED BY <1>1, <1>2, <2>4, <3>1, Moves, HandlerLooks
  <2> QED BY <2>2, <2>3, <2>4
<1> QED BY <1>3, <1>4

-----------------------------------------------------------------------------
(* The steps that write process memory.                                    *)
LEMMA MemoryWritesKeepDiscipline ==
  ASSUME SInv, NEW t \in Threads,
         \/ DecideSet(t) \/ DecideDrop(t) \/ ApproveEnqueue(t) \/ ExecuteMatch(t)
         \/ ExecuteLifecycle(t) \/ ProcessRemove(t) \/ ProcessState(t)
         \/ ProcessExecuting(t) \/ FinishLifecycle(t)
  PROVE  SequentialDiscipline'
<1> USE DEF Deciding, Decided, Processing, Observed
<1>1. pc[t] # "idle" /\ UNCHANGED <<runs, issued>>
  BY DEF DecideSet, DecideDrop, ApproveEnqueue, ExecuteMatch, ExecuteLifecycle,
         ProcessRemove, ProcessState, ProcessExecuting, FinishLifecycle
<1>2. PICK a \in Actions :
        /\ a = req[t].action /\ a \in issued
        /\ runs[a] \in Row /\ req[t] \in Request
        /\ lifecycle[a] \in Statuses /\ queue[a] \in Seq(Texts)
        /\ SettledRow(a) /\ HandlerAgrees(t, a) /\ LocalsFit(t)
  BY <1>1, BusyHandler
<1>3. SettledRow(a)'
  BY <1>1, <1>2 DEF SettledRow
<1>4. /\ lifecycle \in [Actions -> Statuses] /\ queue \in [Actions -> Seq(Texts)]
  BY DEF SInv, IInv, TypeOK
<1>5. CASE DecideSet(t)
  <2>1. /\ pc[t] = "dec_set" /\ queue[a] = <<>>
        /\ runs[a].approval = (IF req[t].kind = "approve" THEN "approved" ELSE "rejected")
    BY <1>2, <1>5 DEF DecideSet, HandlerAgrees
  <2>2. /\ Go(t, "dec_drop") /\ req' = req /\ UNCHANGED <<registry, queue>>
        /\ lifecycle' = [lifecycle EXCEPT ![a] =
                           IF req[t].kind = "approve" THEN "approved" ELSE "rejected"]
    BY <1>2, <1>5 DEF DecideSet
  <2>3. HandlerAgrees(t, a)'
    BY <1>1, <1>4, <2>1, <2>2, Moves DEF HandlerAgrees
  <2> QED BY <1>1, <1>2, <1>3, <1>4, <2>2, <2>3, Moves, HandlerMoves
<1>6. CASE DecideDrop(t)
  <2>1. /\ pc[t] = "dec_drop" /\ queue[a] = <<>>
        /\ runs[a].approval = (IF req[t].kind = "approve" THEN "approved" ELSE "rejected")
        /\ lifecycle[a] = (IF req[t].kind = "approve" THEN "approved" ELSE "rejected")
    BY <1>2, <1>6 DEF DecideDrop, HandlerAgrees
  <2>2. registry' = registry \ {a} /\ UNCHANGED <<lifecycle, queue>>
    BY <1>2, <1>6 DEF DecideDrop
  <2>3. Agree(a)'
    BY <1>1, <2>1, <2>2 DEF Agree
  <2>4. CASE req[t].kind = "approve"
    <3>1. Go(t, "dec_enqueue") /\ req' = req
      BY <1>6, <2>4 DEF DecideDrop
    <3>2. HandlerAgrees(t, a)'
      BY <1>1, <2>1, <2>3, <2>4, <3>1, Moves DEF HandlerAgrees
    <3> QED BY <1>1, <1>2, <1>3, <2>2, <3>1, <3>2, Moves, HandlerMoves
  <2>5. CASE req[t].kind # "approve"
    <3>1. Finish(t)
      BY <1>6, <2>5 DEF DecideDrop
    <3> QED BY <1>1, <1>2, <1>3, <2>2, <2>3, <3>1, Moves, HandlerMoves
  <2> QED BY <2>4, <2>5
<1>7. CASE ApproveEnqueue(t)
  <2>1. pc[t] = "dec_enqueue" /\ runs[a].approval = "approved" /\ Agree(a)
    BY <1>2, <1>7 DEF ApproveEnqueue, HandlerAgrees
  <2>2. /\ queue' = [queue EXCEPT ![a] = Append(@, req[t].text)]
        /\ Finish(t) /\ UNCHANGED <<registry, lifecycle>>
    BY <1>2, <1>7 DEF ApproveEnqueue
  <2>3. Agree(a)'
    BY <1>1, <2>1, <2>2 DEF Agree
  <2> QED BY <1>1, <1>2, <1>3, <1>4, <2>2, <2>3, Moves, HandlerMoves
<1>8. CASE ExecuteMatch(t)
  <2>1. /\ pc[t] = "ex_match" /\ Agree(a) /\ lifecycle[a] = req[t].seen
        /\ req[t].seen \in {"none", "queued", "approved"}
        /\ req[t].text = "none" \/ queue[a] # <<>>
    BY <1>2, <1>8 DEF ExecuteMatch, HandlerAgrees
  <2>2. runs[a].approval = "approved"
    BY <1>2, <2>1 DEF SInv, IInv, ClaimDiscipline, OwnerHoldsRow, Owns, Serves,
         BeforeStart, SettledRow
  <2>3. UNCHANGED <<registry, lifecycle>>
    BY <1>8 DEF ExecuteMatch
  <2>4. CASE /\ queue' = [queue EXCEPT ![a] = Append(@, "clean")]
             /\ Go(t, "ex_life") /\ req' = req
    <3>1. queue'[a] # <<>>
      <4>1. "clean" \in Texts
        BY DEF Texts
      <4>2. Append(queue[a], "clean") # <<>>
        BY ONLY <1>2, <4>1
      <4> QED BY <1>4, <2>4, <4>2
    <3>2. HandlerAgrees(t, a)'
      BY <1>1, <2>1, <2>2, <2>3, <2>4, <3>1, Moves DEF HandlerAgrees, Agree
    <3> QED BY <1>1, <1>2, <1>3, <1>4, <2>3, <2>4, <3>2, Moves, HandlerMoves
  <2>5. CASE req[t].text = "clean" /\ Go(t, "ex_life") /\ queue' = queue /\ req' = req
    <3>1. HandlerAgrees(t, a)'
      BY <1>1, <2>1, <2>2, <2>3, <2>5, Moves DEF HandlerAgrees, Agree
    <3> QED BY <1>1, <1>2, <1>3, <2>3, <2>5, <3>1, Moves, HandlerMoves
  <2>6. CASE Finish(t) /\ queue' = queue
    <3>1. Agree(a)'
      BY <1>1, <2>1, <2>3, <2>6 DEF Agree
    <3> QED BY <1>1, <1>2, <1>3, <2>3, <2>6, <3>1, Moves, HandlerMoves
  <2> QED BY <1>2, <1>8, <2>4, <2>5, <2>6 DEF ExecuteMatch
<1>9. CASE ExecuteLifecycle(t)
  <2>1. /\ pc[t] = "ex_life" /\ Agree(a) /\ lifecycle[a] = req[t].seen
        /\ req[t].seen \in {"none", "queued", "approved"} /\ queue[a] # <<>>
    BY <1>2, <1>9 DEF ExecuteLifecycle, HandlerAgrees
  <2>2. /\ Go(t, "pr_get") /\ req' = req /\ UNCHANGED <<registry, queue>>
        /\ lifecycle' = IF req[t].seen \in {"none", "queued"}
                        THEN [lifecycle EXCEPT ![a] = "approved"] ELSE lifecycle
    BY <1>2, <1>9 DEF ExecuteLifecycle
  <2>3. /\ lifecycle'[a] = "approved"
        /\ \A b \in Actions \ {a} : lifecycle'[b] = lifecycle[b]
    BY <1>4, <2>1, <2>2
  <2>4. HandlerAgrees(t, a)'
    BY <1>1, <2>1, <2>2, <2>3, Moves DEF HandlerAgrees, Agree
  <2> QED BY <1>1, <1>2, <1>3, <2>2, <2>3, <2>4, Moves, HandlerMoves
<1>10. CASE ProcessRemove(t)
  <2>1. pc[t] = "pr_remove" /\ Agree(a) /\ queue[a] # <<>> /\ lifecycle[a] = "approved"
    BY <1>2, <1>10 DEF ProcessRemove, HandlerAgrees
  <2>2. /\ Go(t, "pr_state") /\ UNCHANGED <<registry, lifecycle>>
        /\ queue' = [queue EXCEPT ![a] = Tail(@)]
        /\ req' = [req EXCEPT ![t].text = Head(queue[a])]
    BY <1>2, <1>10, <2>1 DEF ProcessRemove
  <2>3. req'[t].action = a /\ \A u \in Threads \ {t} : req'[u] = req[u]
    BY <1>2, <2>2 DEF SInv, IInv, TypeOK, Request
  <2>4. HandlerAgrees(t, a)'
    BY <1>1, <2>1, <2>2, <2>3, Moves DEF HandlerAgrees, Agree
  <2> QED BY <1>1, <1>2, <1>3, <1>4, <2>2, <2>3, <2>4, Moves, HandlerMoves
<1>11. CASE ProcessState(t)
  <2>1. pc[t] = "pr_state" /\ Agree(a) /\ lifecycle[a] = "approved"
    BY <1>2, <1>11 DEF ProcessState, HandlerAgrees
  <2>2. Go(t, "pr_exec") /\ req' = req /\ UNCHANGED <<registry, lifecycle, queue>>
    BY <1>2, <1>11, <2>1 DEF ProcessState
  <2>3. HandlerAgrees(t, a)'
    BY <1>1, <2>1, <2>2, Moves DEF HandlerAgrees, Agree
  <2> QED BY <1>1, <1>2, <1>3, <2>2, <2>3, Moves, HandlerMoves
<1>12. CASE ProcessExecuting(t)
  <2>1. pc[t] = "pr_exec" /\ Agree(a) /\ lifecycle[a] = "approved"
    BY <1>2, <1>12 DEF ProcessExecuting, HandlerAgrees
  <2>2. /\ Go(t, "st_get") /\ req' = req /\ UNCHANGED <<registry, queue>>
        /\ lifecycle' = [lifecycle EXCEPT ![a] = "executing"]
    BY <1>2, <1>12 DEF ProcessExecuting
  <2>3. HandlerAgrees(t, a)'
    BY <1>1, <2>1, <2>2, Moves DEF HandlerAgrees, Agree
  <2> QED BY <1>1, <1>2, <1>3, <1>4, <2>2, <2>3, Moves, HandlerMoves
<1>13. CASE FinishLifecycle(t)
  <2>1. /\ pc[t] = "fin_life" /\ runs[a].approval = "approved" /\ a \notin registry
        /\ runs[a].execution = req[t].out /\ req[t].out \in Results
    BY <1>2, <1>13 DEF FinishLifecycle, HandlerAgrees, LocalsFit
  <2>2. /\ Finish(t) /\ UNCHANGED <<registry, queue>>
        /\ lifecycle' = [lifecycle EXCEPT ![a] =
                           IF req[t].out = "succeeded" THEN "completed" ELSE "failed"]
    BY <1>2, <1>13 DEF FinishLifecycle
  <2>3. Agree(a)'
    BY <1>1, <1>4, <2>1, <2>2 DEF Agree, Results
  <2> QED BY <1>1, <1>2, <1>3, <1>4, <2>2, <2>3, Moves, HandlerMoves
<1> QED
  BY <1>5, <1>6, <1>7, <1>8, <1>9, <1>10, <1>11, <1>12, <1>13

-----------------------------------------------------------------------------
(* The steps that write the row.  Each names the row it leaves behind.     *)
LEMMA RowMoves ==
  ASSUME SInv, NEW t \in Threads, NEW a \in Actions, a = req[t].action,
         pc[t] # "idle", UNCHANGED <<issued, registry, lifecycle, queue>>,
         \A u \in Threads \ {t} : pc'[u] = pc[u] /\ req'[u] = req[u],
         NEW row, runs' = [runs EXCEPT ![a] = row],
         SettledRow(a)',
         \/ pc'[t] = "idle" /\ req'[t] = NoRequest /\ Agree(a)'
         \/ pc'[t] # "idle" /\ req'[t].action = a /\ HandlerAgrees(t, a)'
  PROVE  SequentialDiscipline'
<1>1. runs \in [Actions -> Row]
  BY DEF SInv, IInv, TypeOK
<1> QED BY <1>1, HandlerMoves

(* register_action's write: the row delegation was asked to insert, or the *)
(* row as it was, because its objective is there already.                  *)
LEMMA RegisterPutsKeepDiscipline ==
  ASSUME SInv, NEW t \in Threads, DelegatePut(t) \/ DecidePut(t) \/ StartPut(t)
  PROVE  SequentialDiscipline'
<1> USE DEF Deciding, Decided, Processing, Observed
<1>1. pc[t] # "idle" /\ UNCHANGED <<issued, registry, lifecycle, queue>>
  BY DEF DelegatePut, DecidePut, StartPut, memory
<1>2. PICK a \in Actions :
        /\ a = req[t].action /\ a \in issued
        /\ runs[a] \in Row /\ req[t] \in Request
        /\ lifecycle[a] \in Statuses /\ queue[a] \in Seq(Texts)
        /\ SettledRow(a) /\ HandlerAgrees(t, a) /\ LocalsFit(t)
  BY <1>1, BusyHandler
<1>3. CASE DelegatePut(t)
  <2>1. /\ pc[t] = "dlg_put" /\ runs[a] = NoRow /\ req[t].cur = NoRow
        /\ queue[a] = <<>>
        /\ req[t].want = "awaiting" => lifecycle[a] = "queued"
        /\ req[t].want = "none" => a \notin registry /\ lifecycle[a] \in {"none", "rejected"}
    BY <1>2, <1>3 DEF DelegatePut, HandlerAgrees
  <2>2. req[t].want \in {"none", "awaiting"}
    BY <1>2 DEF Request
  <2>3. PICK row : row = [NoRow EXCEPT !.exists = TRUE, !.objective = (req[t].want = "awaiting"),
                                       !.approval = req[t].want]
    OBVIOUS
  <2>4. runs' = [runs EXCEPT ![a] = row] /\ Finish(t)
    BY <1>2, <1>3, <2>1, <2>3 DEF DelegatePut, RegisterPut, register_action, Write, NoRow
  <2>5. /\ row.exists /\ row.objective = (req[t].want = "awaiting") /\ row.approval = req[t].want
        /\ ~row.claim /\ row.resolution = "none" /\ row.execution = "none"
    BY <2>2, <2>3 DEF NoRow
  <2>6. runs'[a] = row
    BY <2>4 DEF SInv, IInv, TypeOK
  <2>7. SettledRow(a)'
    BY <2>2, <2>5, <2>6 DEF SettledRow
  <2>8. Agree(a)'
    BY <1>1, <2>1, <2>2, <2>5, <2>6 DEF Agree
  <2> QED BY <1>1, <1>2, <2>4, <2>7, <2>8, Moves, RowMoves
<1>4. ASSUME NEW objective \in BOOLEAN, req[t].cur = runs[a], runs[a].exists,
             objective => runs[a].objective, RegisterPut(t, objective, "none")
      PROVE  runs' = runs
  <2>1. register_action(runs[a], runs[a], objective, "none") = runs[a]
    BY <1>2, <1>4 DEF register_action, Row
  <2>2. runs' = [runs EXCEPT ![a] = runs[a]]
    BY <1>2, <1>4, <2>1 DEF RegisterPut, Write
  <2> QED BY <2>2 DEF SInv, IInv, TypeOK
<1>5. CASE DecidePut(t)
  <2>1. /\ pc[t] = "dec_put" /\ req[t].cur = runs[a] /\ req[t].want = "none" /\ Agree(a)
        /\ runs[a].exists /\ runs[a].approval = "awaiting" /\ runs[a].objective
    BY <1>2, <1>5 DEF DecidePut, HandlerAgrees, SettledRow
  <2>2. runs' = runs
    BY <1>4, <1>5, <2>1 DEF DecidePut
  <2>3. Go(t, "dec_check") /\ req' = req
    BY <1>5 DEF DecidePut
  <2>4. HandlerAgrees(t, a)'
    BY <1>1, <2>1, <2>2, <2>3, Moves DEF HandlerAgrees, Agree
  <2> QED BY <1>1, <1>2, <2>2, <2>3, <2>4, Moves, HandlerLooks
<1>6. CASE StartPut(t)
  <2>1. /\ pc[t] = "st_put" /\ req[t].cur = runs[a]
        /\ runs[a].approval = "approved" /\ a \notin registry
    BY <1>2, <1>6 DEF StartPut, HandlerAgrees
  <2>2. runs[a].exists
    BY <2>1 DEF SInv, IInv, ClaimDiscipline, RowShape
  <2>3. runs' = runs
    BY <1>4, <1>6, <2>1, <2>2 DEF StartPut
  <2>4. Go(t, "st_read") /\ req' = req
    BY <1>6 DEF StartPut
  <2>5. HandlerAgrees(t, a)'
    BY <1>1, <2>1, <2>3, <2>4, Moves DEF HandlerAgrees
  <2> QED BY <1>1, <1>2, <2>3, <2>4, <2>5, Moves, HandlerLooks
<1> QED BY <1>3, <1>5, <1>6

(* Decision, claim, start and result: the owner's progress, in the row.    *)
LEMMA ProgressKeepsDiscipline ==
  ASSUME Sequential, SInv, NEW t \in Threads,
         DecideWrite(t) \/ ExecuteClaim(t) \/ StartMark(t) \/ FinishPut(t)
  PROVE  SequentialDiscipline'
<1> USE DEF Deciding, Decided, Processing, Observed
<1>1. pc[t] # "idle" /\ UNCHANGED <<issued, registry, lifecycle, queue>>
  BY DEF DecideWrite, ExecuteClaim, StartMark, FinishPut, memory
<1>2. PICK a \in Actions :
        /\ a = req[t].action /\ a \in issued
        /\ runs[a] \in Row /\ req[t] \in Request
        /\ lifecycle[a] \in Statuses /\ queue[a] \in Seq(Texts)
        /\ SettledRow(a) /\ HandlerAgrees(t, a) /\ LocalsFit(t)
  BY <1>1, BusyHandler
<1>3. runs \in [Actions -> Row] /\ RowShape /\ OwnerHoldsRow
  BY DEF SInv, IInv, TypeOK, ClaimDiscipline
<1>4. CASE DecideWrite(t)
  <2>1. /\ pc[t] = "dec_write" /\ Agree(a) /\ runs[a].approval = "awaiting"
        /\ req[t].kind \in {"approve", "reject"}
    BY <1>2, <1>4 DEF DecideWrite, HandlerAgrees, LocalsFit, DecidePcs
  <2>2. /\ ~runs[a].claim /\ runs[a].execution = "none"
        /\ runs[a].resolution # "abandoned" /\ queue[a] = <<>>
    BY <1>2, <1>3, <2>1 DEF SettledRow, RowShape, Agree
  <2>3. PICK row : row = IF req[t].kind = "approve" THEN record_approval(runs[a])
                                                    ELSE record_rejection(runs[a])
    OBVIOUS
  <2>4. /\ ~row.claim /\ row.execution = "none" /\ row.resolution # "abandoned"
        /\ row.objective = (req[t].kind = "approve")
        /\ row.approval = (IF req[t].kind = "approve" THEN "approved" ELSE "rejected")
    BY <1>2, <2>2, <2>3 DEF record_approval, record_rejection, Row
  <2>5. runs' = [runs EXCEPT ![a] = row] /\ Go(t, "dec_set") /\ req' = req
    BY <1>2, <1>4, <2>3 DEF DecideWrite, Write, GoOrRaise, Sequential
  <2>6. runs'[a] = row
    BY <1>3, <2>5
  <2>7. SettledRow(a)'
    BY <2>1, <2>4, <2>6 DEF SettledRow
  <2>8. HandlerAgrees(t, a)'
    BY <1>1, <2>2, <2>4, <2>5, <2>6, Moves DEF HandlerAgrees
  <2> QED BY <1>1, <1>2, <2>5, <2>7, <2>8, Moves, RowMoves
<1>5. CASE ExecuteClaim(t)
  <2>1. /\ pc[t] = "ex_claim" /\ Agree(a) /\ lifecycle[a] = req[t].seen
        /\ req[t].seen \in {"none", "queued", "approved"}
        /\ req[t].text = "none" \/ queue[a] # <<>>
    BY <1>2, <1>5 DEF ExecuteClaim, HandlerAgrees
  <2>2. CASE can_claim(runs[a])
    <3>1. PICK row : row = claim_approved(runs[a])
      OBVIOUS
    <3>2. /\ row.approval = "approved" /\ row.execution = "none"
          /\ row.resolution = "none" /\ runs[a].approval = "approved"
          /\ runs[a].execution = "none"
      BY <1>2, <2>2, <3>1 DEF claim_approved, can_claim, Row
    <3>3. runs' = [runs EXCEPT ![a] = row] /\ Go(t, "ex_match") /\ req' = req
      BY <1>2, <1>5, <2>2, <3>1 DEF ExecuteClaim, Write
    <3>4. runs'[a] = row
      BY <1>3, <3>3
    <3>5. SettledRow(a)'
      BY <3>2, <3>4 DEF SettledRow
    <3>6. HandlerAgrees(t, a)'
      BY <1>1, <2>1, <3>2, <3>3, <3>4, Moves DEF HandlerAgrees, Agree
    <3> QED BY <1>1, <1>2, <3>3, <3>5, <3>6, Moves, RowMoves
  <2>3. CASE ~can_claim(runs[a])
    <3>1. Finish(t) /\ runs' = runs
      BY <1>2, <1>5, <2>3 DEF ExecuteClaim
    <3> QED BY <1>1, <1>2, <2>1, <3>1, Moves, HandlerLooks
  <2> QED BY <2>2, <2>3
<1>6. CASE StartMark(t)
  <2>1. pc[t] = "st_mark" /\ runs[a].approval = "approved" /\ a \notin registry
    BY <1>2, <1>6 DEF StartMark, HandlerAgrees
  <2>2. PICK row : row = record_execution_started(runs[a])
    OBVIOUS
  <2>3. /\ row.approval = runs[a].approval /\ row.execution = runs[a].execution
        /\ row.resolution = runs[a].resolution /\ row.objective = runs[a].objective
    BY <1>2, <2>2 DEF record_execution_started, Row
  <2>4. runs' = [runs EXCEPT ![a] = row] /\ Go(t, "run") /\ req' = req
    BY <1>2, <1>6, <2>2 DEF StartMark, Write, GoOrRaise, Sequential
  <2>5. runs'[a] = row
    BY <1>3, <2>4
  <2>6. SettledRow(a)'
    BY <1>2, <2>1, <2>3, <2>5 DEF SettledRow
  <2>7. HandlerAgrees(t, a)'
    BY <1>1, <2>1, <2>3, <2>4, <2>5, Moves DEF HandlerAgrees
  <2> QED BY <1>1, <1>2, <2>4, <2>6, <2>7, Moves, RowMoves
<1>7. CASE FinishPut(t)
  <2>1. pc[t] = "fin_put" /\ runs[a].approval = "approved" /\ a \notin registry
    BY <1>2, <1>7 DEF FinishPut, HandlerAgrees
  <2>2. PICK row : row = record_execution(runs[a], req[t].out)
    OBVIOUS
  <2>3. /\ row.approval = "approved" /\ row.execution = req[t].out /\ ~row.objective
    BY <1>2, <2>1, <2>2 DEF record_execution, Row
  <2>4. runs' = [runs EXCEPT ![a] = row] /\ Go(t, "fin_life") /\ req' = req
    BY <1>2, <1>7, <2>2 DEF FinishPut, Write, GoOrRaise, Sequential
  <2>5. runs'[a] = row
    BY <1>3, <2>4
  <2>6. SettledRow(a)'
    BY <2>3, <2>5 DEF SettledRow
  <2>7. HandlerAgrees(t, a)'
    BY <1>1, <2>1, <2>3, <2>4, <2>5, Moves DEF HandlerAgrees
  <2> QED BY <1>1, <1>2, <2>4, <2>6, <2>7, Moves, RowMoves
<1> QED BY <1>4, <1>5, <1>6, <1>7

(* Operators resolve claims and dispose of work products.                  *)
LEMMA ResolutionsKeepDiscipline ==
  ASSUME SInv, NEW t \in Threads, ReconcilePut(t) \/ DisposePut(t)
  PROVE  SequentialDiscipline'
<1> USE DEF Deciding, Decided, Processing, Observed
<1>1. pc[t] # "idle" /\ UNCHANGED <<issued, registry, lifecycle, queue>> /\ Finish(t)
  BY DEF ReconcilePut, DisposePut, memory
<1>2. PICK a \in Actions :
        /\ a = req[t].action /\ a \in issued
        /\ runs[a] \in Row /\ req[t] \in Request
        /\ lifecycle[a] \in Statuses /\ queue[a] \in Seq(Texts)
        /\ SettledRow(a) /\ HandlerAgrees(t, a) /\ LocalsFit(t)
  BY <1>1, BusyHandler
<1>3. runs \in [Actions -> Row] /\ RowShape /\ Agree(a)
  BY <1>2 DEF SInv, IInv, TypeOK, ClaimDiscipline, HandlerAgrees, ReconcilePut, DisposePut
<1>4. ASSUME NEW row, runs' = [runs EXCEPT ![a] = row], row.exists = runs[a].exists,
             row.approval = runs[a].approval, row.execution = runs[a].execution,
             \/ /\ row.claim = runs[a].claim /\ row.resolution = runs[a].resolution
                /\ row.objective = runs[a].objective
             \/ ~row.claim /\ row.resolution = "released" /\ row.objective = runs[a].objective
             \/ runs[a].claim /\ ~row.objective /\ row.claim = runs[a].claim
      PROVE  SequentialDiscipline'
  <2>1. runs'[a] = row
    BY <1>3, <1>4
  <2>2. Agree(a)'
    BY <1>1, <1>3, <1>4, <2>1 DEF Agree
  <2>3. SettledRow(a)'
    BY <1>2, <1>4, <2>1 DEF SettledRow
  <2> QED BY <1>1, <1>2, <1>4, <2>2, <2>3, Moves, RowMoves
<1>5. CASE DisposePut(t)
  <2>1. PICK row : row = record_disposition(runs[a], req[t].kind)
    OBVIOUS
  <2>2. /\ row.exists = runs[a].exists
        /\ row.approval = runs[a].approval /\ row.execution = runs[a].execution
        /\ row.claim = runs[a].claim /\ row.resolution = runs[a].resolution
        /\ row.objective = runs[a].objective
    BY <1>2, <2>1 DEF record_disposition, Row
  <2>3. runs' = [runs EXCEPT ![a] = row]
    BY <1>2, <1>5, <2>1 DEF DisposePut, Write
  <2> QED BY <1>4, <2>2, <2>3
<1>6. CASE ReconcilePut(t)
  <2>1. CASE runs' = runs
    BY <1>1, <1>2, <1>3, <2>1, Moves, HandlerLooks
  <2>2. CASE runs' = [runs EXCEPT ![a] = release_unstarted_claim(runs[a])]
    <3>1. PICK row : row = release_unstarted_claim(runs[a])
      OBVIOUS
    <3>2. /\ row.exists = runs[a].exists
          /\ row.approval = runs[a].approval /\ row.execution = runs[a].execution
          /\ ~row.claim /\ row.resolution = "released" /\ row.objective = runs[a].objective
      BY <1>2, <3>1 DEF release_unstarted_claim, Row
    <3> QED BY <1>4, <2>2, <3>1, <3>2
  <2>3. CASE can_abandon(runs[a]) /\ runs' = [runs EXCEPT ![a] = abandon_started_claim(runs[a])]
    <3>1. PICK row : row = abandon_started_claim(runs[a])
      OBVIOUS
    <3>2. /\ row.exists = runs[a].exists
          /\ row.approval = runs[a].approval /\ row.execution = runs[a].execution
          /\ row.claim = runs[a].claim /\ ~row.objective /\ runs[a].claim
      BY <1>2, <2>3, <3>1 DEF abandon_started_claim, can_abandon, Row
    <3> QED BY <1>4, <2>3, <3>1, <3>2
  <2> QED BY <1>2, <1>6, <2>1, <2>2, <2>3 DEF ReconcilePut, Write
<1> QED BY <1>5, <1>6

-----------------------------------------------------------------------------
(* A request finds its Action alone.                                       *)
LEMMA RequestsKeepAgreement ==
  ASSUME Sequential, SInv, NEW t \in Threads, NEW a \in Actions, Requests(t, a)
  PROVE  SequentialDiscipline'
<1> USE DEF Deciding, Decided, Processing, Observed
<1>1. /\ runs \in [Actions -> Row] /\ lifecycle \in [Actions -> Statuses]
      /\ pc \in [Threads -> Steps] /\ req \in [Threads -> Request]
  BY DEF SInv, IInv, TypeOK
<1>2. /\ pc[t] = "idle" /\ UNCHANGED <<runs, queue>>
      /\ \A u \in Threads : req[u].action # a
  <2>1. \A u \in Threads : req[u].action \in issued \cup {"none"}
    BY DEF SInv, SequentialDiscipline, Alone, NoRequest
  <2> QED
    BY <2>1, ControlPlaneAssumption
       DEF Requests, Delegate, Decide, Execute, Reconcile, Dispose, MayStart,
           Sequential, memory
<1>3. SettledRow(a) /\ Agree(a) /\ (a \notin issued => Untouched(a))
  BY <1>2 DEF SInv, SequentialDiscipline, Quiet, Serves
<1>4. SettledRow(a)'
  BY <1>2, <1>3 DEF SettledRow
<1>5. CASE UNCHANGED <<registry, lifecycle, issued>> /\ a \in issued
  <2>1. Agree(a)'
    BY <1>2, <1>3, <1>5 DEF Agree
  <2>2. ASSUME NEW step, Go(t, step), step # "idle",
               NEW r, req' = [req EXCEPT ![t] = r], r.action = a, HandlerAgrees(t, a)'
        PROVE  SequentialDiscipline'
    <3>1. pc'[t] = step /\ req'[t] = r
      BY <1>1, <2>2 DEF Go
    <3>2. \A u \in Threads \ {t} : pc'[u] = pc[u] /\ req'[u] = req[u]
      BY <1>1, <2>2 DEF Go
    <3> QED BY <1>2, <1>4, <1>5, <2>2, <3>1, <3>2, OneActionMoves
  <2>3. ASSUME NEW kind \in {"approve", "reject"}, Decide(t, kind, a)
        PROVE  SequentialDiscipline'
    <3>1. CASE a \in registry
      <4>1. PICK r : r = [Start(t, kind, a) EXCEPT !.text = PayloadText(a)]
        OBVIOUS
      <4>2. Go(t, "dec_life") /\ req' = [req EXCEPT ![t] = r]
        BY <2>3, <3>1, <4>1 DEF Decide
      <4>3. runs[a].approval = "awaiting" /\ runs[a].exists
        BY <1>3, <3>1 DEF Agree, SettledRow
      <4>4. HandlerAgrees(t, a)'
        BY <1>2, <2>1, <4>2, <4>3, Moves DEF HandlerAgrees
      <4>5. r.action = a
        BY <4>1 DEF Start, NoRequest
      <4> QED BY <2>2, <4>2, <4>4, <4>5
    <3>2. CASE a \notin registry
      <4>1. PICK r : r = [Start(t, kind, a) EXCEPT !.text = "clean"]
        OBVIOUS
      <4>2. Go(t, "dec_recover") /\ req' = [req EXCEPT ![t] = r]
        BY <2>3, <3>2, <4>1 DEF Decide
      <4>3. HandlerAgrees(t, a)'
        BY <2>1, <4>2, Moves DEF HandlerAgrees
      <4>4. r.action = a
        BY <4>1 DEF Start, NoRequest
      <4> QED BY <2>2, <4>2, <4>3, <4>4
    <3> QED BY <3>1, <3>2
  <2>4. CASE Execute(t, a)
    <3>1. PICK r : r = [Start(t, "execute", a) EXCEPT !.seen = lifecycle[a]]
      OBVIOUS
    <3>2. /\ Go(t, "ex_queue") /\ req' = [req EXCEPT ![t] = r]
          /\ lifecycle[a] \in {"none", "queued", "approved"}
      BY <2>4, <3>1 DEF Execute
    <3>3. r.action = a /\ r.seen = lifecycle[a] /\ req'[t] = r
      BY <1>1, <3>1, <3>2 DEF Start, NoRequest
    <3>4. HandlerAgrees(t, a)'
      BY <1>5, <2>1, <3>2, <3>3, Moves DEF HandlerAgrees
    <3> QED BY <2>2, <3>2, <3>3, <3>4
  <2>5. ASSUME NEW kind, NEW step \in {"rc_put", "dp_apply"}, Go(t, step),
               req' = [req EXCEPT ![t] = Start(t, kind, a)]
        PROVE  SequentialDiscipline'
    <3>1. HandlerAgrees(t, a)'
      BY <2>1, <2>5, Moves DEF HandlerAgrees
    <3>2. Start(t, kind, a).action = a
      BY DEF Start, NoRequest
    <3> QED BY <2>2, <2>5, <3>1, <3>2
  <2>6. ASSUME NEW kind \in {"release", "abandon"}, Reconcile(t, kind, a)
        PROVE  SequentialDiscipline'
    BY <2>5, <2>6 DEF Reconcile
  <2>7. ASSUME NEW kind \in Dispositions, Dispose(t, kind, a)
        PROVE  SequentialDiscipline'
    BY <2>5, <2>7 DEF Dispose
  <2> QED BY <1>5, <2>3, <2>4, <2>6, <2>7 DEF Requests, Delegate
<1>6. CASE Delegate(t, a)
  <2>1. /\ Go(t, "dlg_get") /\ issued' = issued \cup {a}
        /\ runs[a] = NoRow /\ a \notin registry /\ lifecycle[a] = "none" /\ queue[a] = <<>>
    BY <1>3, <1>6 DEF Delegate, Untouched
  <2>2. PICK r : req' = [req EXCEPT ![t] = r] /\ r.action = a /\
               \/ /\ r.want = "awaiting" /\ registry' = registry \cup {a}
                  /\ lifecycle' = [lifecycle EXCEPT ![a] = "queued"]
               \/ /\ r.want = "none" /\ registry' = registry
                  /\ \/ lifecycle' = [lifecycle EXCEPT ![a] = "rejected"]
                     \/ lifecycle' = lifecycle
    <3>1. CASE req' = [req EXCEPT ![t] = [Start(t, "delegate", a) EXCEPT !.want = "awaiting"]]
               /\ registry' = registry \cup {a}
               /\ lifecycle' = [lifecycle EXCEPT ![a] = "queued"]
      <4>1. PICK x : x = [Start(t, "delegate", a) EXCEPT !.want = "awaiting"]
        OBVIOUS
      <4>2. x.action = a /\ x.want = "awaiting"
        BY <4>1 DEF Start, NoRequest
      <4> QED BY <3>1, <4>1, <4>2
    <3>2. CASE /\ req' = [req EXCEPT ![t] = Start(t, "delegate", a)] /\ registry' = registry
               /\ \/ lifecycle' = [lifecycle EXCEPT ![a] = "rejected"]
                  \/ lifecycle' = lifecycle
      <4>1. PICK x : x = Start(t, "delegate", a)
        OBVIOUS
      <4>2. x.action = a /\ x.want = "none"
        BY <4>1 DEF Start, NoRequest
      <4> QED BY <3>2, <4>1, <4>2
    <3> QED BY <1>6, <3>1, <3>2 DEF Delegate
  <2>3. /\ req'[t] = r /\ pc'[t] = "dlg_get"
        /\ \A u \in Threads \ {t} : pc'[u] = pc[u] /\ req'[u] = req[u]
    BY <1>1, <2>1, <2>2 DEF Go
  <2>4. \A b \in Actions \ {a} : lifecycle'[b] = lifecycle[b] /\ (b \in registry' <=> b \in registry)
    BY <1>1, <2>2
  <2>5. HandlerAgrees(t, a)'
    <3>1. CASE r.want = "awaiting" /\ lifecycle' = [lifecycle EXCEPT ![a] = "queued"]
      BY <1>1, <1>2, <2>1, <2>3, <3>1 DEF HandlerAgrees
    <3>2. CASE r.want = "none" /\ lifecycle'[a] \in {"none", "rejected"} /\ registry' = registry
      BY <1>1, <1>2, <2>1, <2>3, <3>2 DEF HandlerAgrees
    <3> QED BY <1>1, <2>1, <2>2, <3>1, <3>2
  <2> QED BY <1>2, <1>4, <2>1, <2>2, <2>3, <2>4, <2>5, OneActionMoves
<1>7. Delegate(t, a) \/ (UNCHANGED <<registry, lifecycle, issued>> /\ a \in issued)
  BY DEF Requests, Decide, Execute, Reconcile, Dispose, MayStart, memory
<1> QED BY <1>5, <1>6, <1>7

(* A crash empties memory and leaves no handler behind.                    *)
LEMMA CrashKeepsAgreement ==
  ASSUME SInv, Crash
  PROVE  SequentialDiscipline'
<1>1. /\ UNCHANGED <<runs, issued>> /\ registry' = {}
      /\ \A a \in Actions : lifecycle'[a] = "none" /\ queue'[a] = <<>>
      /\ \A t \in Threads : pc'[t] = "idle" /\ req'[t] = NoRequest
  BY DEF Crash
<1>2. \A t \in Threads, a \in Actions : ~Serves(t, a)'
  BY <1>1, ControlPlaneAssumption DEF Serves, NoRequest
<1>3. Alone'
  BY <1>1 DEF Alone
<1>4. ASSUME NEW a \in Actions
      PROVE  SettledRow(a)' /\ (a \notin issued' => Untouched(a)') /\ Agree(a)'
  BY <1>1 DEF SInv, SequentialDiscipline, SettledRow, Untouched, Agree
<1> QED BY <1>2, <1>3, <1>4 DEF SequentialDiscipline

(* Nothing of it looks at the coders left over from a dead process.        *)
LEMMA SequentialStutter ==
  ASSUME SInv, UNCHANGED <<runs, issued, registry, lifecycle, queue, pc, req>>
  PROVE  SequentialDiscipline'
<1>1. Alone'
  BY DEF SInv, SequentialDiscipline, Alone
<1>2. ASSUME NEW a \in Actions
      PROVE  /\ SettledRow(a)' /\ (a \notin issued' => Untouched(a)')
             /\ Quiet(a)' => Agree(a)'
    BY DEF SInv, SequentialDiscipline, SettledRow, Untouched, Agree, Quiet, Serves
<1>3. ASSUME NEW a \in Actions, NEW t \in Threads, Serves(t, a)'
      PROVE  HandlerAgrees(t, a)'
  <2>1. HandlerAgrees(t, a)
    BY <1>3 DEF SInv, SequentialDiscipline, Serves
  <2> QED BY <2>1 DEF HandlerAgrees, Agree
<1> QED BY <1>1, <1>2, <1>3 DEF SequentialDiscipline

(* The empty system is in agreement.                                       *)
LEMMA InitAgrees == Init => SInv
<1> SUFFICES ASSUME Init PROVE SInv
  OBVIOUS
<1>1. \A t \in Threads : pc[t] = "idle" /\ req[t] = NoRequest
  BY DEF Init
<1>2. \A t \in Threads, a \in Actions : ~Serves(t, a)
  BY <1>1, ControlPlaneAssumption DEF Serves, NoRequest
<1>3. \A a \in Actions : SettledRow(a) /\ Untouched(a) /\ Agree(a)
  BY DEF Init, SettledRow, Untouched, Agree, NoRow
<1> QED BY <1>1, <1>2, <1>3, InitEstablishes DEF SInv, SequentialDiscipline, Alone

(* Every step keeps the agreement.                                         *)
LEMMA NextKeepsAgreement ==
  ASSUME Sequential, SInv, [Next]_vars
  PROVE  SInv'
<1>1. IInv'
  BY NextPreserves DEF Sequential, SInv
<1>2. ASSUME NEW t \in Threads, HandlerStep(t) PROVE SequentialDiscipline'
  <2>1. CASE DecisionSteps(t)
    BY <2>1, LooksKeepDiscipline, RegisterGetKeepsDiscipline, RegisterPutsKeepDiscipline,
       ProgressKeepsDiscipline, MemoryWritesKeepDiscipline DEF DecisionSteps
  <2>2. CASE ExecutionSteps(t)
    BY <2>2, LooksKeepDiscipline, RegisterGetKeepsDiscipline, RegisterPutsKeepDiscipline,
       ProgressKeepsDiscipline, MemoryWritesKeepDiscipline, SideEffectsKeepDiscipline
       DEF ExecutionSteps
  <2>3. CASE OtherSteps(t)
    BY <2>3, RegisterGetKeepsDiscipline, RegisterPutsKeepDiscipline,
       ResolutionsKeepDiscipline, SideEffectsKeepDiscipline
       DEF OtherSteps, DatabaseError, Sequential
  <2> QED BY <1>2, <2>1, <2>2, <2>3 DEF HandlerStep
<1>3. ASSUME NEW a \in Actions, OrphanExits(a) PROVE SequentialDiscipline'
  BY <1>3, SequentialStutter DEF OrphanExits, memory
<1>4. ASSUME UNCHANGED vars PROVE SequentialDiscipline'
  BY <1>4, SequentialStutter DEF vars
<1>5. SequentialDiscipline'
  BY <1>2, <1>3, <1>4, RequestsKeepAgreement, CrashKeepsAgreement DEF Next, Running
<1> QED BY <1>1, <1>5 DEF SInv

-----------------------------------------------------------------------------
(* With one request at a time per Action, memory and row agree whenever no *)
(* handler is at work, and every handler finds what its earlier steps saw. *)
THEOREM SequentialAgreement == Sequential => (Spec => []SInv)
<1> SUFFICES ASSUME Sequential PROVE Spec => []SInv
  OBVIOUS
<1>1. Init => SInv
  BY InitAgrees
<1>2. SInv /\ [Next]_vars => SInv'
  BY NextKeepsAgreement
<1> QED BY <1>1, <1>2, PTL DEF Spec

(* Rejected, abandoned and executed rows hold no objective text.           *)
THEOREM ObjectivesAreScrubbed == Sequential => (Spec => []ObjectiveScrubbed)
<1>1. SInv => ObjectiveScrubbed
  BY DEF SInv, SequentialDiscipline, SettledRow, ObjectiveScrubbed
<1> QED BY <1>1, SequentialAgreement, PTL

(* The reconciliation that status offers is one that reconcile accepts.    *)
THEOREM OfferedIsAccepted == Sequential => (Spec => []ClaimIsReconcilable)
<1>1. ASSUME SInv PROVE ClaimIsReconcilable
  <2>1. ASSUME NEW a \in Actions, "release" \in reconciliation_options(runs[a])
        PROVE  require_releasable(runs[a]) /\ can_release(runs[a])
    <3>1. runs[a].claim /\ ~runs[a].started /\ runs[a].execution = "none"
      BY <2>1 DEF reconciliation_options
    <3>2. runs[a].approval = "approved"
      BY <1>1, <3>1 DEF SInv, SequentialDiscipline, SettledRow
    <3> QED BY <3>1, <3>2 DEF require_releasable, can_release
  <2>2. ASSUME NEW a \in Actions, "abandon" \in reconciliation_options(runs[a])
        PROVE  require_abandonable(runs[a]) /\ can_abandon(runs[a])
    BY <2>2 DEF reconciliation_options, require_abandonable, can_abandon
  <2> QED BY <2>1, <2>2 DEF ClaimIsReconcilable
<1> QED BY <1>1, SequentialAgreement, PTL

(* Between requests, memory and row tell the same story.                   *)
THEOREM MemoryAndRowAgree == Sequential => (Spec => []MemoryAgreesWithRow)
<1>1. ASSUME SInv, NEW a \in Actions, Quiet(a)
      PROVE  /\ runs[a].approval = "rejected" =>
                  lifecycle[a] \in {"none", "queued", "rejected"} /\ queue[a] = <<>>
             /\ lifecycle[a] = "approved" => runs[a].approval = "approved"
             /\ lifecycle[a] = "completed" => runs[a].execution = "succeeded"
             /\ lifecycle[a] # "executing"
  <2>1. Agree(a) /\ SettledRow(a)
    BY <1>1 DEF SInv, SequentialDiscipline
  <2>2. runs[a].approval = "rejected" => runs[a].execution = "none"
    BY <1>1, <2>1 DEF SettledRow, SInv, IInv, ClaimDiscipline, RowShape
  <2> QED BY <2>1, <2>2 DEF Agree
<1>2. SInv => MemoryAgreesWithRow
  BY <1>1 DEF MemoryAgreesWithRow
<1> QED BY <1>2, SequentialAgreement, PTL

(* What status calls retriable, /execute takes on.                         *)
THEOREM RetriableIsTaken == Sequential => (Spec => []RetriableIsExecutable)
<1>1. ASSUME SInv, NEW a \in Actions, Quiet(a), retriable(runs[a])
      PROVE  lifecycle[a] \in {"none", "queued", "approved"}
  <2>1. Agree(a)
    BY <1>1 DEF SInv, SequentialDiscipline
  <2> QED BY <1>1, <2>1 DEF Agree, retriable
<1>2. SInv => RetriableIsExecutable
  BY <1>1 DEF RetriableIsExecutable
<1> QED BY <1>2, SequentialAgreement, PTL
=============================================================================
