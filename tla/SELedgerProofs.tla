--------------------------- MODULE SELedgerProofs ---------------------------
(***************************************************************************)
(* The control plane implements the execution ledger, and a recorded       *)
(* result is never replaced: both follow step by step from the claim       *)
(* discipline.                                                             *)
(***************************************************************************)
EXTENDS SEControlPlaneProofs

(* The phase of a run, read from its row.                                  *)
PhaseOf(row) ==
  IF row.execution # "none" THEN "finished"
  ELSE IF row.resolution = "abandoned" THEN "abandoned"
  ELSE IF row.claim /\ row.started THEN "started"
  ELSE IF row.claim THEN "claimed"
  ELSE "open"

(* What is shown of every step.                                            *)
ResultsKept ==
  \A a \in Actions : runs[a].execution # "none" =>
    runs'[a].execution = runs[a].execution

LedgerStep == [Ledger!Next]_(Ledger!ledger) /\ ResultsKept

(* The refinement mapping looks at rows only.                              *)
LEMMA PhaseIsPhaseOf ==
  /\ phase = [a \in Actions |-> PhaseOf(runs[a])]
  /\ phase' = [a \in Actions |-> PhaseOf(runs'[a])]
BY DEF phase, PhaseOf

(* A step that leaves claims, starts, resolutions and results alone, and   *)
(* neither grants nor launches, is invisible in the ledger.                *)
LEMMA InvisibleStep ==
  ASSUME \A a \in Actions : /\ runs'[a].execution = runs[a].execution
                            /\ runs'[a].resolution = runs[a].resolution
                            /\ runs'[a].claim = runs[a].claim
                            /\ runs'[a].started = runs[a].started,
         UNCHANGED <<granted, coded>>
  PROVE  LedgerStep
<1>1. \A a \in Actions : PhaseOf(runs'[a]) = PhaseOf(runs[a])
  BY DEF PhaseOf
<1>2. phase' = phase
  BY <1>1, PhaseIsPhaseOf
<1> QED BY <1>2 DEF LedgerStep, ResultsKept, Ledger!ledger

(* Writing a row moves its Action to the row's phase.                      *)
LEMMA WriteMovesPhase ==
  ASSUME TypeOK, NEW b \in Actions, NEW row, Write(b, row),
         runs[b].execution # "none" => row.execution = runs[b].execution
  PROVE  phase' = [phase EXCEPT ![b] = PhaseOf(row)] /\ ResultsKept
<1>1. \A a \in Actions : runs'[a] = IF a = b THEN row ELSE runs[a]
  BY DEF TypeOK, Write
<1>2. phase' = [phase EXCEPT ![b] = PhaseOf(row)]
  BY <1>1, PhaseIsPhaseOf
<1> QED BY <1>1, <1>2 DEF ResultsKept

-----------------------------------------------------------------------------
(* The claim takes an open, approved run.                                  *)
LEMMA ClaimIsClaim ==
  ASSUME IInv, NEW t \in Threads, ExecuteClaim(t)
  PROVE  LedgerStep
<1>1. PICK b \in Actions : b = req[t].action
  BY DEF ExecuteClaim, IInv, ClaimDiscipline, HandlerLocals, LocalsFit
<1>2. UNCHANGED <<granted, coded>>
  BY DEF ExecuteClaim, external
<1>3. CASE can_claim(runs[b])
  <2>1. Write(b, claim_approved(runs[b]))
    BY <1>1, <1>3 DEF ExecuteClaim
  <2>2. /\ runs[b] \in Row /\ runs[b].execution = "none" /\ ~runs[b].claim
        /\ ~runs[b].started /\ runs[b].resolution # "abandoned" /\ b \in granted
    BY <1>3 DEF can_claim, IInv, TypeOK, ClaimDiscipline, RowShape
  <2>3. /\ claim_approved(runs[b]).execution = "none"
        /\ claim_approved(runs[b]).resolution = "none"
        /\ claim_approved(runs[b]).claim /\ ~claim_approved(runs[b]).started
    BY <2>2 DEF claim_approved, Row
  <2>4. PhaseOf(runs[b]) = "open" /\ PhaseOf(claim_approved(runs[b])) = "claimed"
    BY <2>2, <2>3 DEF PhaseOf
  <2>5. phase' = [phase EXCEPT ![b] = "claimed"] /\ ResultsKept
    BY <2>1, <2>2, <2>4, WriteMovesPhase DEF IInv
  <2>6. Ledger!Claim(b)
    BY <1>2, <2>2, <2>4, <2>5, PhaseIsPhaseOf DEF Ledger!Claim, Ledger!Move
  <2> QED BY <2>5, <2>6 DEF LedgerStep, Ledger!Next
<1>4. CASE ~can_claim(runs[b])
  BY <1>1, <1>2, <1>4, InvisibleStep DEF ExecuteClaim
<1> QED BY <1>3, <1>4

(* The start mark is set on a claimed run, by its owner.                   *)
LEMMA MarkIsStart ==
  ASSUME IInv, NEW t \in Threads, StartMark(t)
  PROVE  LedgerStep
<1>1. PICK b \in Actions : b = req[t].action
  BY DEF StartMark, IInv, ClaimDiscipline, HandlerLocals, LocalsFit
<1>2. UNCHANGED <<granted, coded>>
  BY DEF StartMark, external
<1>3. Owns(t, b) /\ pc[t] \notin AfterStart
  BY <1>1 DEF StartMark, Owns, Serves, BeforeStart, AfterStart
<1>4. /\ runs[b] \in Row /\ runs[b].execution = "none" /\ runs[b].claim
      /\ ~runs[b].started /\ runs[b].resolution # "abandoned"
  BY <1>3 DEF IInv, TypeOK, ClaimDiscipline, OwnerHoldsRow, RowShape
<1>5. PICK row : row = record_execution_started(runs[b])
  OBVIOUS
<1>6. Write(b, row)
  BY <1>1, <1>5 DEF StartMark
<1>7. /\ row.execution = "none" /\ row.resolution # "abandoned"
      /\ row.claim /\ row.started
  BY <1>4, <1>5 DEF record_execution_started, Row
<1>8. PhaseOf(runs[b]) = "claimed" /\ PhaseOf(row) = "started"
  BY <1>4, <1>7 DEF PhaseOf
<1>9. phase' = [phase EXCEPT ![b] = "started"] /\ ResultsKept
  BY <1>4, <1>6, <1>8, WriteMovesPhase DEF IInv
<1>10. Ledger!Start(b)
  BY <1>2, <1>8, <1>9, PhaseIsPhaseOf DEF Ledger!Start, Ledger!Move
<1> QED BY <1>9, <1>10 DEF LedgerStep, Ledger!Next

(* A result concludes a started or abandoned run that has none.            *)
LEMMA ResultIsConclusion ==
  ASSUME IInv, NEW t \in Threads, FinishPut(t)
  PROVE  LedgerStep
<1>1. PICK b \in Actions : b = req[t].action
  BY DEF FinishPut, IInv, ClaimDiscipline, HandlerLocals, LocalsFit
<1>2. UNCHANGED <<granted, coded>> /\ pc[t] = "fin_put"
  BY DEF FinishPut, external
<1>3. Owns(t, b) /\ pc[t] \in AfterStart /\ req[t].out \in Results
  BY <1>1, <1>2 DEF Owns, Serves, AfterStart, IInv, ClaimDiscipline, HandlerLocals,
                    LocalsFit
<1>4. runs[b] \in Row /\ runs[b].execution = "none" /\ runs[b].claim /\ runs[b].started
  BY <1>3 DEF IInv, TypeOK, ClaimDiscipline, OwnerHoldsRow
<1>5. PICK row : row = record_execution(runs[b], req[t].out)
  OBVIOUS
<1>6. Write(b, row)
  BY <1>1, <1>5 DEF FinishPut
<1>7. row.execution # "none"
  BY <1>3, <1>4, <1>5 DEF record_execution, Row, Results
<1>8. PhaseOf(runs[b]) \in {"started", "abandoned"} /\ PhaseOf(row) = "finished"
  BY <1>4, <1>7 DEF PhaseOf
<1>9. phase' = [phase EXCEPT ![b] = "finished"] /\ ResultsKept
  BY <1>4, <1>6, <1>8, WriteMovesPhase DEF IInv
<1>10. Ledger!Conclude(b)
  BY <1>2, <1>8, <1>9, PhaseIsPhaseOf DEF Ledger!Conclude, Ledger!Move
<1> QED BY <1>9, <1>10 DEF LedgerStep, Ledger!Next

(* A reconciliation that passes its compare-and-set releases a claimed run *)
(* or abandons a started one; abandoning twice changes nothing.            *)
LEMMA ReconcileIsReleaseOrAbandon ==
  ASSUME IInv, NEW t \in Threads, ReconcilePut(t)
  PROVE  LedgerStep
<1>1. PICK b \in Actions : b = req[t].action
  BY DEF ReconcilePut, IInv, ClaimDiscipline, HandlerLocals, LocalsFit
<1>2. UNCHANGED <<granted, coded>>
  BY DEF ReconcilePut, external
<1>3. runs[b] \in Row
  BY DEF IInv, TypeOK
<1>4. CASE UNCHANGED runs
  BY <1>2, <1>4, InvisibleStep
<1>5. ASSUME can_release(runs[b]), NEW row, row = release_unstarted_claim(runs[b]),
             Write(b, row)
      PROVE  LedgerStep
  <2>1. /\ runs[b].execution = "none" /\ runs[b].claim /\ ~runs[b].started
        /\ runs[b].resolution # "abandoned"
    BY <1>5 DEF can_release, IInv, ClaimDiscipline, RowShape
  <2>2. row.execution = "none" /\ row.resolution = "released" /\ ~row.claim
    BY <1>3, <1>5, <2>1 DEF release_unstarted_claim, Row
  <2>3. PhaseOf(runs[b]) = "claimed" /\ PhaseOf(row) = "open"
    BY <2>1, <2>2 DEF PhaseOf
  <2>4. phase' = [phase EXCEPT ![b] = "open"] /\ ResultsKept
    BY <1>5, <2>1, <2>3, WriteMovesPhase DEF IInv
  <2>5. Ledger!Release(b)
    BY <1>2, <2>3, <2>4, PhaseIsPhaseOf DEF Ledger!Release, Ledger!Move
  <2> QED BY <2>4, <2>5 DEF LedgerStep, Ledger!Next
<1>6. ASSUME can_abandon(runs[b]), NEW row, row = abandon_started_claim(runs[b]),
             Write(b, row)
      PROVE  LedgerStep
  <2>1. runs[b].execution = "none" /\ runs[b].claim /\ runs[b].started
    BY <1>6 DEF can_abandon
  <2>2. row.execution = "none" /\ row.resolution = "abandoned"
    BY <1>3, <1>6, <2>1 DEF abandon_started_claim, Row
  <2>3. PhaseOf(runs[b]) \in {"started", "abandoned"} /\ PhaseOf(row) = "abandoned"
    BY <2>1, <2>2 DEF PhaseOf
  <2>4. phase' = [phase EXCEPT ![b] = "abandoned"] /\ ResultsKept
    BY <1>6, <2>1, <2>3, WriteMovesPhase DEF IInv
  <2>5. phase[b] = PhaseOf(runs[b]) /\ phase = [a \in Actions |-> phase[a]]
    BY PhaseIsPhaseOf
  <2>6. CASE phase[b] = "started"
    <3>1. Ledger!Abandon(b)
      BY <1>2, <2>4, <2>6 DEF Ledger!Abandon, Ledger!Move
    <3> QED BY <2>4, <3>1 DEF LedgerStep, Ledger!Next
  <2>7. CASE phase[b] = "abandoned"
    <3>1. phase' = phase
      BY <2>4, <2>5, <2>7
    <3> QED BY <1>2, <2>4, <3>1 DEF LedgerStep, Ledger!ledger
  <2> QED BY <2>3, <2>5, <2>6, <2>7
<1> QED BY <1>1, <1>4, <1>5, <1>6 DEF ReconcilePut

(* The one launch of a run follows its start.                              *)
LEMMA ExecutorLaunches ==
  ASSUME IInv, NEW t \in Threads, RunExecutor(t)
  PROVE  LedgerStep
<1>1. PICK b \in Actions : b = req[t].action
  BY DEF RunExecutor, IInv, ClaimDiscipline, HandlerLocals, LocalsFit
<1>2. UNCHANGED <<runs, granted>>
  BY DEF RunExecutor
<1>3. CASE UNCHANGED coded
  BY <1>2, <1>3, InvisibleStep
<1>4. CASE Launch(t)
  <2>1. pc[t] = "launch" /\ coded' = [coded EXCEPT ![b] = coded[b] + 1]
    BY <1>1, <1>4 DEF Launch
  <2>2. Owns(t, b) /\ Serves(t, b) /\ pc[t] \in AfterStart
    BY <1>1, <2>1 DEF Owns, Serves, AfterStart
  <2>3. coded[b] = 0
    BY <2>1, <2>2 DEF IInv, ClaimDiscipline, SideEffects
  <2>4. runs[b].execution = "none" /\ runs[b].claim /\ runs[b].started
    BY <2>2 DEF IInv, ClaimDiscipline, OwnerHoldsRow
  <2>5. phase[b] \in {"started", "abandoned"} /\ phase' = phase
    BY <1>2, <2>4, PhaseIsPhaseOf DEF PhaseOf
  <2>6. Ledger!Launch(b)
    BY <1>2, <2>1, <2>3, <2>5 DEF Ledger!Launch
  <2> QED BY <1>2, <2>6 DEF LedgerStep, Ledger!Next, ResultsKept
<1> QED BY <1>3, <1>4 DEF RunExecutor, CreateWorktree, FailToLaunch

(* Asking for an approval grants it in the ledger.                         *)
LEMMA DecideGrants ==
  ASSUME NEW t \in Threads, NEW kind, NEW a \in Actions, Decide(t, kind, a)
  PROVE  LedgerStep
<1>1. UNCHANGED <<runs, coded>> /\ (granted' = granted \/ granted' = granted \cup {a})
  BY DEF Decide, external
<1>2. CASE granted' = granted
  BY <1>1, <1>2, InvisibleStep
<1>3. CASE granted' = granted \cup {a}
  <2>1. phase' = phase
    BY <1>1, PhaseIsPhaseOf
  <2>2. Ledger!Approve(a)
    BY <1>1, <1>3, <2>1 DEF Ledger!Approve
  <2> QED BY <1>1, <2>2 DEF LedgerStep, Ledger!Next, ResultsKept
<1> QED BY <1>1, <1>2, <1>3

-----------------------------------------------------------------------------
(* Registering a row says nothing about its run.                           *)
LEMMA RegisterIsInvisible ==
  ASSUME IInv, NEW t \in Threads, pc[t] # "idle", NEW o, NEW p,
         RegisterPut(t, o, p), UNCHANGED <<granted, coded>>
  PROVE  LedgerStep
<1>1. PICK b \in Actions : b = req[t].action
  BY DEF IInv, ClaimDiscipline, HandlerLocals, LocalsFit
<1>2. PICK row : row = register_action(runs[b], req[t].cur, o, p)
  OBVIOUS
<1>3. runs[b] \in Row
  BY DEF IInv, TypeOK
<1>4. CASE UNCHANGED runs
  BY <1>4, InvisibleStep
<1>5. CASE Write(b, row) /\ (req[t].cur.exists \/ ~runs[b].exists)
  <2>1. ~runs[b].exists => /\ runs[b].execution = "none" /\ ~runs[b].claim
                           /\ ~runs[b].started /\ runs[b].resolution # "abandoned"
    BY DEF IInv, ClaimDiscipline, RowShape
  <2>2. CASE req[t].cur.exists
    <3>1. /\ row.execution = runs[b].execution /\ row.resolution = runs[b].resolution
          /\ row.claim = runs[b].claim /\ row.started = runs[b].started
      BY <1>2, <1>3, <2>2 DEF register_action, Row
    <3>2. \A a \in Actions : runs'[a] = IF a = b THEN row ELSE runs[a]
      BY <1>5 DEF Write, IInv, TypeOK
    <3> QED BY <3>1, <3>2, InvisibleStep
  <2>3. CASE ~req[t].cur.exists /\ ~runs[b].exists
    <3>1. row.execution = "none" /\ row.resolution = "none" /\ ~row.claim
      BY <1>2, <2>3 DEF register_action, NoRow
    <3>2. PhaseOf(row) = PhaseOf(runs[b])
      BY <2>1, <2>3, <3>1 DEF PhaseOf
    <3>3. phase' = [phase EXCEPT ![b] = phase[b]] /\ ResultsKept
      BY <1>5, <2>1, <2>3, <3>2, WriteMovesPhase, PhaseIsPhaseOf DEF IInv
    <3>4. phase' = phase
      BY <3>3, PhaseIsPhaseOf
    <3> QED BY <3>3, <3>4 DEF LedgerStep, Ledger!ledger
  <2> QED BY <1>5, <2>2, <2>3
<1> QED BY <1>1, <1>2, <1>4, <1>5 DEF RegisterPut

(* Neither do decisions and dispositions.                                  *)
LEMMA OtherWritesAreInvisible ==
  ASSUME IInv, NEW t \in Threads, DecideWrite(t) \/ DisposePut(t)
  PROVE  LedgerStep
<1>1. PICK b \in Actions : b = req[t].action
  BY DEF DecideWrite, DisposePut, IInv, ClaimDiscipline, HandlerLocals, LocalsFit
<1>2. UNCHANGED <<granted, coded>>
  BY DEF DecideWrite, DisposePut, external
<1>3. runs[b] \in Row
  BY DEF IInv, TypeOK
<1>4. PICK row : /\ Write(b, row)
                 /\ \/ row = record_approval(runs[b]) \/ row = record_rejection(runs[b])
                    \/ row = record_disposition(runs[b], req[t].kind)
  BY <1>1 DEF DecideWrite, DisposePut
<1>5. /\ row.execution = runs[b].execution /\ row.resolution = runs[b].resolution
      /\ row.claim = runs[b].claim /\ row.started = runs[b].started
  BY <1>3, <1>4 DEF record_approval, record_rejection, record_disposition, Row
<1>6. \A a \in Actions : runs'[a] = IF a = b THEN row ELSE runs[a]
  BY <1>4 DEF Write, IInv, TypeOK
<1> QED BY <1>2, <1>5, <1>6, InvisibleStep

(* Every step of the control plane is a step of the ledger or none.        *)
LEMMA EveryStepIsLedgerStep ==
  ASSUME IInv, [Next]_vars
  PROVE  LedgerStep
<1>1. ASSUME NEW t \in Threads, NEW a \in Actions, Requests(t, a)
      PROVE  LedgerStep
  <2>1. CASE \E kind \in {"approve", "reject"} : Decide(t, kind, a)
    BY <2>1, DecideGrants
  <2>2. CASE ~ \E kind \in {"approve", "reject"} : Decide(t, kind, a)
    <3>1. UNCHANGED <<runs, granted, coded>>
      BY <1>1, <2>2 DEF Requests, Delegate, Execute, Reconcile, Dispose, external
    <3> QED BY <3>1, InvisibleStep
  <2> QED BY <2>1, <2>2
<1>2. ASSUME NEW t \in Threads, DecisionSteps(t)
      PROVE  LedgerStep
  <2>1. CASE DecidePut(t)
    BY <2>1, RegisterIsInvisible DEF DecidePut, external
  <2>2. CASE ~DecidePut(t) /\ ~DecideWrite(t)
    <3>1. UNCHANGED <<runs, granted, coded>>
      BY <1>2, <2>2 DEF DecisionSteps, DecideRecover, DecideLifecycle, DecideEnsure,
           RegisterGet, DecideCheck, DecideSet, DecideDrop, ApproveEnqueue, external
    <3> QED BY <3>1, InvisibleStep
  <2> QED BY <2>1, <2>2, OtherWritesAreInvisible
<1>3. ASSUME NEW t \in Threads, ExecutionSteps(t)
      PROVE  LedgerStep
  <2>1. CASE StartPut(t)
    BY <2>1, RegisterIsInvisible DEF StartPut, external
  <2>2. CASE ExecuteClaim(t) \/ StartMark(t) \/ RunExecutor(t) \/ FinishPut(t)
    BY <2>2, ClaimIsClaim, MarkIsStart, ExecutorLaunches, ResultIsConclusion
  <2>3. CASE ~StartPut(t) /\ ~ExecuteClaim(t) /\ ~StartMark(t) /\ ~RunExecutor(t)
             /\ ~FinishPut(t)
    <3>1. UNCHANGED <<runs, granted, coded>>
      BY <1>3, <2>3 DEF ExecutionSteps, ExecuteQueue, ExecuteMatch, ExecuteLifecycle,
           ProcessGet, ProcessLifecycle, ProcessRemove, ProcessState,
           ProcessExecuting, RegisterGet, StartRead, StartCheck, CoderExits,
           FinishLifecycle, external
    <3> QED BY <3>1, InvisibleStep
  <2> QED BY <2>1, <2>2, <2>3
<1>4. ASSUME NEW t \in Threads, OtherSteps(t)
      PROVE  LedgerStep
  <2>1. CASE DelegatePut(t)
    BY <2>1, RegisterIsInvisible DEF DelegatePut, external
  <2>2. CASE RegisterGet(t, "dlg_get", "dlg_put") \/ DisposeApply(t) \/ DatabaseError(t)
    <3>1. UNCHANGED <<runs, granted, coded>>
      BY <2>2 DEF RegisterGet, DisposeApply, DatabaseError, external
    <3> QED BY <3>1, InvisibleStep
  <2> QED BY <1>4, <2>1, <2>2, OtherWritesAreInvisible, ReconcileIsReleaseOrAbandon
          DEF OtherSteps
<1>5. CASE Crash \/ (\E a \in Actions : OrphanExits(a)) \/ UNCHANGED vars
  <2>1. UNCHANGED <<runs, granted, coded>>
    BY <1>5 DEF Crash, OrphanExits, vars
  <2> QED BY <2>1, InvisibleStep
<1> QED BY <1>1, <1>2, <1>3, <1>4, <1>5 DEF Next, Running, HandlerStep

(* Initially every run is open.                                            *)
LEMMA InitIsOpen == Init => Ledger!Init
<1> SUFFICES ASSUME Init PROVE Ledger!Init
  OBVIOUS
<1>1. \A a \in Actions : PhaseOf(runs[a]) = "open"
  BY DEF Init, NoRow, PhaseOf
<1>2. phase = [a \in Actions |-> "open"]
  BY <1>1, PhaseIsPhaseOf
<1> QED BY <1>2 DEF Init, Ledger!Init

-----------------------------------------------------------------------------
(* The handlers, the repository, crashes and failing database calls        *)
(* together implement the ledger of one coding run per Action: claim after *)
(* approval, release before the start only, one launch after the start, a  *)
(* final result.                                                           *)
THEOREM LedgerIsImplemented ==
  "release" \notin Overlapping => (Spec => ImplementsLedger)
<1> SUFFICES ASSUME "release" \notin Overlapping PROVE Spec => ImplementsLedger
  OBVIOUS
<1>1. Init => IInv /\ Ledger!Init
  BY InitEstablishes, InitIsOpen
<1>2. IInv /\ [Next]_vars => IInv'
  BY NextPreserves
<1>3. IInv /\ [Next]_vars => [Ledger!Next]_(Ledger!ledger)
  BY EveryStepIsLedgerStep DEF LedgerStep
<1> QED BY <1>1, <1>2, <1>3, PTL DEF Spec, ImplementsLedger, Ledger!Spec

(* A recorded execution result is never replaced (record_execution and the *)
(* other UPDATEs of the repository).                                       *)
THEOREM ResultsAreFinal ==
  "release" \notin Overlapping => (Spec => ResultWrittenOnce)
<1> SUFFICES ASSUME "release" \notin Overlapping PROVE Spec => ResultWrittenOnce
  OBVIOUS
<1>1. Init => IInv
  BY InitEstablishes
<1>2. IInv /\ [Next]_vars => IInv'
  BY NextPreserves
<1>3. IInv /\ [Next]_vars =>
        [\A a \in Actions : runs[a].execution # "none" =>
           runs'[a].execution = runs[a].execution]_runs
  BY EveryStepIsLedgerStep DEF LedgerStep, ResultsKept
<1> QED BY <1>1, <1>2, <1>3, PTL DEF Spec, ResultWrittenOnce
=============================================================================
