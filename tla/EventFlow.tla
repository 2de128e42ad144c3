---------------------------- MODULE EventFlow ----------------------------
(***************************************************************************)
(* From an accepted event to an executed Action: EventWorkflowService      *)
(* (accept, process), the planner and the permission runtime, the approval *)
(* endpoints for Actions that are not software-engineering work, the FIFO  *)
(* ActionQueue and WorkerRuntime.process_next with its transient retries.  *)
(*                                                                         *)
(* All of it lives in the memory of one process and is changed without a   *)
(* lock by the request threads: every list or dict operation is one step.  *)
(* Operations that commute with everything another thread can do are       *)
(* merged into the step before them.                                       *)
(***************************************************************************)
EXTENDS Naturals, Sequences, FiniteSets

CONSTANTS
  Events,               \* event ids clients may post
  Threads,              \* request threads of the server's pool
  Workers,              \* callers of WorkerRuntimeInvocationService.invoke
  MaxActions,           \* bound: Actions planned in one behaviour
  Batch,                \* max_actions of an invocation
  MaxTransientRetries   \* max_transient_retries of the worker runtime

ASSUME EventFlowConstants ==
  /\ MaxActions \in Nat /\ Batch \in Nat \ {0} /\ MaxTransientRetries \in Nat
  /\ Threads \cap Workers = {} /\ IsFiniteSet(Threads)
  /\ Events \cap (0..MaxActions) = {}   \* an id is an event's or an Action's

(* RuleBasedEventClassifier: a category by the source the event names.     *)
Categories == {"calendar", "gmail", "github", "unknown"}
ActionIds == 1..MaxActions
All == Threads \cup Workers

VARIABLES
  category,   \* what the classifier finds in each event; never changes
  stored,     \* entries of each event id in the EventStore
  inbox,      \* entries of each event id in the EventInbox
  status,     \* event_lifecycle_states, "none" when the id has no entry
  life,       \* ActionLifecycleRepository: status and transient_retry_count
  registry,   \* PendingApprovalRegistry
  queue,      \* ActionQueue
  pc, local,  \* program counter and locals of every thread
  origin,     \* observation: the event each Action was planned from
  attempts,   \* observation: executions of each Action
  decided,    \* observation: verdict and operator decisions on each Action
  raced       \* observation: ids that two requests worked on at once

workflow == <<category, stored, inbox, status>>
governed == <<life, registry, queue>>
observed == <<origin, attempts, decided>>
vars == <<workflow, governed, pc, local, observed, raced>>

NoOne == 0
Resting == [obj |-> NoOne, ingest |-> FALSE, left |-> 0, retries |-> 0]
Unplanned == [status |-> "unplanned", retries |-> 0]
LifeStatus == {"unplanned", "queued", "approved", "executing", "completed",
               "skipped", "failed", "rejected"}
RequestPCs == {"append", "inbox", "pending", "lookup", "mark", "pipeline",
               "settle", "approve_set", "approve_queue", "reject_set"}

Init ==
  /\ category \in [Events -> Categories]
  /\ stored = [e \in Events |-> 0]
  /\ inbox = [e \in Events |-> 0]
  /\ status = [e \in Events |-> "none"]
  /\ life = [a \in ActionIds |-> Unplanned]
  /\ registry = {}
  /\ queue = <<>>
  /\ pc = [t \in All |-> "idle"]
  /\ local = [t \in All |-> Resting]
  /\ origin = [a \in ActionIds |-> NoOne]
  /\ attempts = [a \in ActionIds |-> 0]
  /\ decided = [a \in ActionIds |-> {}]
  /\ raced = {}

-----------------------------------------------------------------------------
(* A request thread leaves the pool for id x; overlapping requests on one  *)
(* id are remembered.                                                      *)
Begin(t, start, x, ingest) ==
  /\ pc[t] = "idle"
  /\ pc' = [pc EXCEPT ![t] = start]
  /\ local' = [local EXCEPT ![t] = [Resting EXCEPT !.obj = x, !.ingest = ingest]]
  /\ raced' = IF \E u \in Threads : pc[u] \in RequestPCs /\ local[u].obj = x
              THEN raced \cup {x} ELSE raced

Goto(t, next) == pc' = [pc EXCEPT ![t] = next] /\ UNCHANGED <<local, raced>>

Finish(t) ==
  /\ pc' = [pc EXCEPT ![t] = "idle"]
  /\ local' = [local EXCEPT ![t] = Resting]
  /\ UNCHANGED raced

Planned == {a \in ActionIds : life[a].status # "unplanned"}
Processing == {t \in Threads : local[t].ingest
                                 \/ pc[t] \in {"mark", "pipeline", "settle"}}

(* MaxActions bounds the processing calls of a behaviour.                  *)
RoomToPlan == Cardinality(Planned) + Cardinality(Processing) < MaxActions

(* EventWorkflowService.accept: a stored id is refused with 409; the       *)
(* others are appended, enqueued in the inbox and set to pending.  The     *)
(* calendar ingress continues with process in the same call.               *)
AcceptCheck(t, e, ingest) ==
  /\ stored[e] = 0
  /\ ingest => category[e] = "calendar" /\ RoomToPlan
  /\ Begin(t, "append", e, ingest)
  /\ UNCHANGED <<workflow, governed, observed>>

AcceptAppend(t) ==
  /\ pc[t] = "append"
  /\ stored' = [stored EXCEPT ![local[t].obj] = @ + 1]
  /\ Goto(t, "inbox")
  /\ UNCHANGED <<category, inbox, status, governed, observed>>

AcceptEnqueue(t) ==
  /\ pc[t] = "inbox"
  /\ inbox' = [inbox EXCEPT ![local[t].obj] = @ + 1]
  /\ Goto(t, "pending")
  /\ UNCHANGED <<category, stored, status, governed, observed>>

AcceptPending(t) ==
  /\ pc[t] = "pending"
  /\ status' = [status EXCEPT ![local[t].obj] = "pending"]
  /\ IF local[t].ingest THEN Goto(t, "lookup") ELSE Finish(t)
  /\ UNCHANGED <<category, stored, inbox, governed, observed>>

(* EventLifecycleManager: an event without a lifecycle state is taken for  *)
(* pending, and a failed one may be replayed.                              *)
Processable_Processed(e) == status[e] # "processing"
Processable(e) == status[e] \in {"none", "pending", "failed"}

ProcessRequest(t, e) ==
  /\ stored[e] > 0 /\ Processable(e)
  /\ RoomToPlan
  /\ Begin(t, "mark", e, FALSE)
  /\ UNCHANGED <<workflow, governed, observed>>

(* process after accept of one ingest call: the same lookup, which ends    *)
(* the call with a conflict when another request took the event.           *)
IngestLookup(t) ==
  /\ pc[t] = "lookup"
  /\ IF Processable(local[t].obj) THEN Goto(t, "mark") ELSE Finish(t)
  /\ UNCHANGED <<workflow, governed, observed>>

MarkProcessing(t) ==
  /\ pc[t] = "mark"
  /\ status' = [status EXCEPT ![local[t].obj] = "processing"]
  /\ Goto(t, "pipeline")
  /\ UNCHANGED <<category, stored, inbox, governed, observed>>

(* The pipeline classifies and resolves context, or raises: the event is   *)
(* then failed, stays in the inbox and may be processed again.             *)
PipelineFails_LeavesInbox(t) ==
  /\ pc[t] = "pipeline"
  /\ status' = [status EXCEPT ![local[t].obj] = "failed"]
  /\ inbox' = [inbox EXCEPT ![local[t].obj] = IF @ > 0 THEN @ - 1 ELSE 0]
  /\ Finish(t)
  /\ UNCHANGED <<category, stored, governed, observed>>

PipelineFails(t) ==
  /\ pc[t] = "pipeline"
  /\ status' = [status EXCEPT ![local[t].obj] = "failed"]
  /\ Finish(t)
  /\ UNCHANGED <<category, stored, inbox, governed, observed>>

PipelineSucceeds(t) ==
  /\ pc[t] = "pipeline"
  /\ status' = [status EXCEPT ![local[t].obj] = "processed"]
  /\ Goto(t, "settle")
  /\ UNCHANGED <<category, stored, inbox, governed, observed>>

(* BasePlanner: one Action for an event of a known category, none for the  *)
(* others.                                                                 *)
Plans(e) == category[e] # "unknown"

(* What a PermissionEngine may say.  BasePermissionEngine allows the three *)
(* types the planner makes and holds every other one; the runtime takes    *)
(* any engine, and one that raises or returns no decision denies.          *)
Verdicts == {"allowed", "requires_approval", "denied"}

FirstState_NotQueued(verdict) ==
  IF verdict = "allowed" THEN "approved"
  ELSE IF verdict = "denied" THEN "rejected" ELSE "planned"

FirstState(verdict) ==
  CASE verdict = "allowed" -> "approved"
    [] verdict = "requires_approval" -> "queued"
    [] verdict = "denied" -> "rejected"

queueable(verdict) == verdict = "allowed"

(* PermissionEngineRuntime gives the Action its first lifecycle state,     *)
(* registers it when it needs approval, and process queues it when it is   *)
(* allowed.  Nobody knows the Action's id before the last of these writes. *)
PlanAndPermit_QueuesHeld(e, verdict) ==
  LET a == Cardinality(Planned) + 1
  IN IF ~Plans(e)
     THEN UNCHANGED <<governed, observed>>
     ELSE /\ life' = [life EXCEPT ![a].status = FirstState(verdict)]
          /\ registry' = IF verdict = "requires_approval"
                         THEN registry \cup {a} ELSE registry
          /\ queue' = IF verdict # "denied" THEN Append(queue, a) ELSE queue
          /\ origin' = [origin EXCEPT ![a] = e]
          /\ decided' = [decided EXCEPT ![a] = {verdict}]
          /\ UNCHANGED attempts

PlanAndPermit(e, verdict) ==
  LET a == Cardinality(Planned) + 1
  IN IF ~Plans(e)
     THEN UNCHANGED <<governed, observed>>
     ELSE /\ life' = [life EXCEPT ![a].status = FirstState(verdict)]
          /\ registry' = IF verdict = "requires_approval"
                         THEN registry \cup {a} ELSE registry
          /\ queue' = IF queueable(verdict) THEN Append(queue, a) ELSE queue
          /\ origin' = [origin EXCEPT ![a] = e]
          /\ decided' = [decided EXCEPT ![a] = {verdict}]
          /\ UNCHANGED attempts

(* The rest of process: EventInbox.mark_processed removes one entry, then  *)
(* planning, permission and queueing.                                      *)
Settle(t) ==
  /\ pc[t] = "settle"
  /\ inbox' = [inbox EXCEPT ![local[t].obj] = IF @ > 0 THEN @ - 1 ELSE 0]
  /\ \E verdict \in Verdicts : PlanAndPermit(local[t].obj, verdict)
  /\ Finish(t)
  /\ UNCHANGED <<category, stored, status>>

-----------------------------------------------------------------------------
(* The approval endpoints look the Action up in the registry and check its *)
(* lifecycle; a decision under way may no longer be wanted when written.   *)
Decide(t, a, decision) ==
  /\ a \in registry /\ life[a].status = "queued"
  /\ Begin(t, decision, a, FALSE)
  /\ UNCHANGED <<workflow, governed, observed>>

ApproveSet(t) ==
  /\ pc[t] = "approve_set"
  /\ life' = [life EXCEPT ![local[t].obj] = [status |-> "approved", retries |-> 0]]
  /\ decided' = [decided EXCEPT ![local[t].obj] = @ \cup {"approved"}]
  /\ Goto(t, "approve_queue")
  /\ UNCHANGED <<workflow, registry, queue, origin, attempts>>

ApproveQueue(t) ==
  /\ pc[t] = "approve_queue"
  /\ registry' = registry \ {local[t].obj}
  /\ queue' = Append(queue, local[t].obj)
  /\ Finish(t)
  /\ UNCHANGED <<workflow, life, observed>>

RejectSet(t) ==
  /\ pc[t] = "reject_set"
  /\ life' = [life EXCEPT ![local[t].obj] = [status |-> "rejected", retries |-> 0]]
  /\ decided' = [decided EXCEPT ![local[t].obj] = @ \cup {"rejected"}]
  /\ registry' = registry \ {local[t].obj}
  /\ Finish(t)
  /\ UNCHANGED <<workflow, queue, origin, attempts>>

-----------------------------------------------------------------------------
(* WorkerRuntimeInvocationService.invoke(max_actions).                     *)
Invoke_FullBatch(w) ==
  /\ pc[w] = "idle"
  /\ Len(queue) >= Batch
  /\ pc' = [pc EXCEPT ![w] = "dequeue"]
  /\ local' = [local EXCEPT ![w].left = Batch]
  /\ UNCHANGED <<workflow, governed, observed, raced>>

Invoke(w) ==
  /\ pc[w] = "idle"
  /\ queue # <<>>
  /\ pc' = [pc EXCEPT ![w] = "dequeue"]
  /\ local' = [local EXCEPT ![w].left = Batch]
  /\ UNCHANGED <<workflow, governed, observed, raced>>

(* The batch is used up after its last processed Action; an unprocessed    *)
(* result ends it at once.                                                 *)
NextOfBatch(w) ==
  IF local[w].left = 1
  THEN Finish(w)
  ELSE /\ pc' = [pc EXCEPT ![w] = "dequeue"]
       /\ local' = [local EXCEPT ![w] = [Resting EXCEPT !.left = local[w].left - 1]]
       /\ UNCHANGED raced

DequeueAction(w) ==
  /\ pc[w] = "dequeue"
  /\ IF queue = <<>>
     THEN Finish(w) /\ UNCHANGED queue
     ELSE /\ queue' = Tail(queue)
          /\ pc' = [pc EXCEPT ![w] = "check"]
          /\ local' = [local EXCEPT ![w].obj = Head(queue)]
          /\ UNCHANGED raced
  /\ UNCHANGED <<workflow, life, registry, observed>>

(* _process_dequeued_action: an Action that awaits approval goes back to   *)
(* the queue, one that is neither queued nor approved is dropped.          *)
CheckApproved(w) ==
  LET a == local[w].obj
  IN /\ pc[w] = "check"
     /\ IF life[a].status = "approved"
        THEN /\ pc' = [pc EXCEPT ![w] = "execute_set"]
             /\ local' = [local EXCEPT ![w].retries = life[a].retries]
             /\ UNCHANGED <<queue, raced>>
        ELSE /\ Finish(w)
             /\ queue' = IF life[a].status = "queued" THEN Append(queue, a) ELSE queue
     /\ UNCHANGED <<workflow, life, registry, observed>>

ExecuteSet(w) ==
  /\ pc[w] = "execute_set"
  /\ life' = [life EXCEPT ![local[w].obj] =
                [status |-> "executing", retries |-> local[w].retries]]
  /\ Goto(w, "execute")
  /\ UNCHANGED <<workflow, registry, queue, observed>>

(* External: what the executor found for the Action reports.  Only the     *)
(* calendar Action has an executor, and only when its payload names that   *)
(* executor's route and account; the others reach the no-op fallback.      *)
Outcomes(kind) ==
  {"skipped"} \cup
  (IF kind = "calendar" THEN {"completed", "transient", "failed"} ELSE {})

(* The result is written over the state the worker read before.            *)
Execute(w) ==
  /\ pc[w] = "execute"
  /\ \E outcome \in Outcomes(category[origin[local[w].obj]]) :
       LET final == IF outcome = "transient" THEN "failed" ELSE outcome
       IN /\ life' = [life EXCEPT ![local[w].obj] =
                        [status |-> final, retries |-> local[w].retries]]
          /\ IF outcome = "transient" /\ local[w].retries < MaxTransientRetries
             THEN Goto(w, "retry") ELSE NextOfBatch(w)
  /\ attempts' = [attempts EXCEPT ![local[w].obj] = @ + 1]
  /\ UNCHANGED <<workflow, registry, queue, origin, decided>>

(* A transient failure with retries left: approved again, count raised and *)
(* back to the queue.                                                      *)
Retry_Forgotten(w) ==
  /\ pc[w] = "retry"
  /\ life' = [life EXCEPT ![local[w].obj] = [status |-> "approved",
                                            retries |-> local[w].retries + 1]]
  /\ NextOfBatch(w)
  /\ UNCHANGED <<workflow, registry, queue, observed>>

Retry_NotCounted(w) ==
  /\ pc[w] = "retry"
  /\ life' = [life EXCEPT ![local[w].obj].status = "approved"]
  /\ queue' = Append(queue, local[w].obj)
  /\ NextOfBatch(w)
  /\ UNCHANGED <<workflow, registry, observed>>

Retry(w) ==
  LET a == local[w].obj
  IN /\ pc[w] = "retry"
     /\ life' = [life EXCEPT ![a] = [status |-> "approved",
                                    retries |-> local[w].retries + 1]]
     /\ queue' = Append(queue, a)
     /\ NextOfBatch(w)
     /\ UNCHANGED <<workflow, registry, observed>>

-----------------------------------------------------------------------------
ThreadStep(t) ==
  \/ AcceptAppend(t) \/ AcceptEnqueue(t) \/ AcceptPending(t)
  \/ IngestLookup(t) \/ MarkProcessing(t) \/ PipelineFails(t)
  \/ PipelineSucceeds(t) \/ Settle(t)
  \/ ApproveSet(t) \/ ApproveQueue(t) \/ RejectSet(t)

WorkerStep(w) ==
  DequeueAction(w) \/ CheckApproved(w) \/ ExecuteSet(w) \/ Execute(w) \/ Retry(w)

Request(t) ==
  \/ \E e \in Events, ingest \in BOOLEAN : AcceptCheck(t, e, ingest)
  \/ \E e \in Events : ProcessRequest(t, e)
  \/ \E a \in ActionIds, decision \in {"approve_set", "reject_set"} :
       Decide(t, a, decision)

Next ==
  \/ \E t \in Threads : Request(t) \/ ThreadStep(t)
  \/ \E w \in Workers : WorkerStep(w) \/ Invoke(w)

Spec == Init /\ [][Next]_vars

(* The server schedules its threads, and somebody keeps invoking the       *)
(* worker runtime; no client has to send anything.                         *)
FairSpec ==
  /\ Spec
  /\ \A t \in Threads : WF_vars(ThreadStep(t))
  /\ \A w \in Workers : WF_vars(WorkerStep(w))
  /\ WF_vars(\E w \in Workers : Invoke(w))

-----------------------------------------------------------------------------
Locals == [obj : Events \cup ActionIds \cup {NoOne}, ingest : BOOLEAN,
           left : 0..Batch, retries : 0..MaxTransientRetries]

TypeOK ==
  /\ category \in [Events -> Categories]
  /\ stored \in [Events -> Nat] /\ inbox \in [Events -> Nat]
  /\ status \in [Events -> {"none", "pending", "processing", "processed", "failed"}]
  /\ life \in [ActionIds -> [status : LifeStatus, retries : 0..MaxTransientRetries]]
  /\ registry \subseteq ActionIds /\ queue \in Seq(ActionIds)
  /\ pc \in [All -> RequestPCs \cup {"idle", "dequeue", "check", "execute_set",
                                     "execute", "retry"}]
  /\ local \in [All -> Locals]
  /\ origin \in [ActionIds -> Events \cup {NoOne}]
  /\ attempts \in [ActionIds -> Nat]
  /\ decided \in [ActionIds -> SUBSET (Verdicts \cup {"approved", "rejected"})]
  /\ raced \subseteq Events \cup ActionIds

InQueue(a) == \E i \in 1..Len(queue) : queue[i] = a
Holds(t, a, pcs) == pc[t] \in pcs /\ local[t].obj = a

(* No Action is silently lost, whatever overlaps: an approved Action is in *)
(* the queue or in the hands of the thread that will queue or check it, an *)
(* executing one has a worker that will write its result, and an Action    *)
(* that awaits approval can still be decided.                              *)
NoActionLost ==
  \A a \in ActionIds :
    /\ life[a].status = "approved" =>
         InQueue(a) \/ \E t \in All : Holds(t, a, {"approve_queue", "check", "execute_set"})
    /\ life[a].status = "executing" => \E w \in Workers : Holds(w, a, {"execute"})
    /\ life[a].status = "queued" => a \in registry

(* Nothing runs that the permission engine did not allow or the operator   *)
(* approve, and a rejected Action runs only if an approval overlapped the  *)
(* rejection.  The worker's requeueing of an Action that awaits approval   *)
(* is never needed: such an Action is not in the queue.                    *)
PermissionFirst ==
  \A a \in ActionIds :
    /\ attempts[a] > 0 => decided[a] \cap {"allowed", "approved"} # {}
    /\ attempts[a] > 0 /\ "rejected" \in decided[a] => a \in raced
    /\ InQueue(a) => life[a].status \notin {"queued", "unplanned"}

(* transient_retry_count bounds the executions of an Action whose decision *)
(* requests did not overlap, across every requeue and dropped copy.        *)
RetriesBounded ==
  \A a \in ActionIds \ raced : attempts[a] <= MaxTransientRetries + 1

(* An event whose requests did not overlap is planned at most once, failed *)
(* and replayed processing included.                                       *)
PlannedOnce ==
  \A e \in Events \ raced : Cardinality({a \in ActionIds : origin[a] = e}) <= 1

(* Between requests the inbox lists exactly the events still to process.   *)
InboxAgrees ==
  \A e \in Events \ raced :
    (\A t \in Threads : local[t].obj # e) =>
      inbox[e] = IF status[e] \in {"pending", "failed"} THEN 1 ELSE 0

Settled(a) ==
  /\ life[a].status \in {"completed", "skipped", "failed", "rejected"}
  /\ ~ \E w \in Workers : Holds(w, a, {"retry"})

(* Every approved Action comes to rest in a final state, late decisions    *)
(* included: the batch that stops at an unprocessed Action and the         *)
(* requeued retries starve nobody.                                         *)
ApprovedActionSettles ==
  \A a \in ActionIds : life[a].status = "approved" ~> []Settled(a)
=============================================================================
