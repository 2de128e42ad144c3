--------------------------- MODULE EventFlowProofs ---------------------------
(***************************************************************************)
(* From an accepted event to an executed Action: nothing is lost, nothing  *)
(* runs unpermitted, retries are bounded and an event is planned once, for *)
(* any number of events, threads, workers and Actions.  What holds of an   *)
(* id only while its requests do not overlap is said of the ids outside    *)
(* raced.                                                                  *)
(***************************************************************************)
EXTENDS EventFlow, FiniteSetTheorems, SequenceTheorems, TLAPS

EventPCs == {"append", "inbox", "pending", "lookup", "mark", "pipeline", "settle"}
DecisionPCs == {"approve_set", "approve_queue", "reject_set"}
HoldingPCs == {"check", "execute_set", "execute", "retry"}
WorkerPCs == HoldingPCs \cup {"dequeue"}

PCs == RequestPCs \cup {"idle", "dequeue", "check", "execute_set", "execute", "retry"}

(* Which locals go with which program counter.                             *)
ThreadLocals(p, l) ==
  /\ p \in RequestPCs \cup {"idle"}
  /\ p \in EventPCs => l.obj \in Events
  /\ p \in DecisionPCs => l.obj \in ActionIds
  /\ p = "idle" => l.obj = NoOne /\ ~l.ingest
  /\ p = "lookup" => l.ingest

WorkerLocals(p, l) ==
  /\ p \in WorkerPCs \cup {"idle"}
  /\ p \in WorkerPCs => l.left > 0
  /\ p \in HoldingPCs => l.obj \in ActionIds
  /\ p = "retry" => l.retries < MaxTransientRetries

(* Actions are numbered as they are planned, and every processing call has *)
(* a number left.                                                          *)
NumbersFit ==
  /\ Planned = 1..Cardinality(Planned)
  /\ Cardinality(Planned) + Cardinality(Processing) <= MaxActions

Exclusive ==
  \A t, u \in Threads : t # u /\ pc[t] \in RequestPCs /\ pc[u] \in RequestPCs
    /\ local[t].obj = local[u].obj => local[t].obj \in raced

(* An event whose requests do not overlap: where it is, stage by stage.    *)
EventFits(e) ==
  /\ \A t \in Threads :
       /\ Holds(t, e, {"append"}) => stored[e] = 0
       /\ Holds(t, e, EventPCs \ {"append"}) => stored[e] > 0
       /\ Holds(t, e, {"append", "inbox"}) => inbox[e] = 0
       /\ Holds(t, e, EventPCs \ {"append", "inbox"}) => inbox[e] = 1
       /\ Holds(t, e, {"append", "inbox", "pending"}) => status[e] = "none"
       /\ Holds(t, e, {"lookup", "mark"}) => status[e] \in {"pending", "failed"}
       /\ Holds(t, e, {"pipeline"}) => status[e] = "processing"
       /\ Holds(t, e, {"settle"}) => status[e] = "processed"
  /\ (\A t \in Threads : ~Holds(t, e, EventPCs)) =>
       /\ inbox[e] = IF status[e] \in {"pending", "failed"} THEN 1 ELSE 0
       /\ status[e] # "processing"
       /\ stored[e] = 0 <=> status[e] = "none"
  /\ \A a \in ActionIds : origin[a] = e =>
       /\ status[e] = "processed"
       /\ \A t \in Threads : ~Holds(t, e, EventPCs)
       /\ \A b \in ActionIds : origin[b] = e => a = b

Permitted(a) == decided[a] \cap {"allowed", "approved"} # {}

(* Any Action: it is planned and permitted before anybody handles it.      *)
ActionFits(a) ==
  /\ life[a].status = "unplanned" =>
       /\ attempts[a] = 0 /\ life[a].retries = 0 /\ origin[a] = NoOne /\ decided[a] = {}
       /\ a \notin registry
       /\ \A t \in Threads : ~Holds(t, a, DecisionPCs)
  /\ life[a].status \in {"unplanned", "queued"} =>
       /\ ~InQueue(a)
       /\ \A t \in Threads : ~Holds(t, a, {"approve_queue"})
       /\ \A w \in Workers : ~Holds(w, a, HoldingPCs)
  /\ life[a].status \in {"approved", "executing", "completed", "skipped", "failed"} => Permitted(a)
  /\ \A w \in Workers : Holds(w, a, HoldingPCs \ {"check"}) => Permitted(a)
  /\ attempts[a] > 0 => Permitted(a)

In(q, a) == \E i \in 1..Len(q) : q[i] = a
Once(q, a) == \A i, j \in 1..Len(q) : q[i] = a /\ q[j] = a => i = j

(* Where an Action is.                                                     *)
Located(a) ==
  /\ life[a].status = "approved" =>
       InQueue(a) \/ \E t \in All : Holds(t, a, {"approve_queue", "check", "execute_set"})
  /\ life[a].status = "executing" => \E w \in Workers : Holds(w, a, {"execute"})
  /\ life[a].status = "queued" => a \in registry

(* An Action whose decisions do not overlap: there is one copy of it, and  *)
(* its count of retries is right.                                          *)
OneCopy(a) ==
  /\ Once(queue, a)
  /\ \A w \in Workers : Holds(w, a, HoldingPCs) =>
       /\ ~InQueue(a)
       /\ \A v \in Workers : Holds(v, a, HoldingPCs) => v = w
  /\ \A t \in Threads : Holds(t, a, {"approve_queue"}) =>
       /\ ~InQueue(a)
       /\ \A w \in Workers : ~Holds(w, a, HoldingPCs)

CountFits(a) ==
  /\ InQueue(a) => life[a].status = "approved" /\ attempts[a] = life[a].retries
  /\ \A w \in Workers :
       /\ Holds(w, a, {"check", "execute_set"}) =>
            life[a].status = "approved" /\ attempts[a] = life[a].retries
       /\ Holds(w, a, {"execute"}) =>
            life[a].status = "executing" /\ attempts[a] = life[a].retries
       /\ Holds(w, a, {"retry"}) =>
            life[a].status = "failed" /\ attempts[a] = life[a].retries + 1
       /\ Holds(w, a, {"execute_set", "execute", "retry"}) =>
            local[w].retries = life[a].retries
  /\ \A t \in Threads :
       /\ Holds(t, a, {"approve_queue"}) => life[a].status = "approved"
       /\ Holds(t, a, {"approve_queue"}) => attempts[a] = life[a].retries
       /\ Holds(t, a, {"approve_set", "reject_set"}) => life[a].status = "queued"
  /\ life[a].status \in {"queued", "rejected"} => attempts[a] = 0
  /\ attempts[a] <= life[a].retries + 1
  /\ "rejected" \in decided[a] => life[a].status = "rejected"

LocalsInv ==
  /\ \A t \in Threads : ThreadLocals(pc[t], local[t])
  /\ \A w \in Workers : WorkerLocals(pc[w], local[w])

EventsInv == \A e \in Events \ raced : EventFits(e)

ActionsInv ==
  /\ \A a \in ActionIds : ActionFits(a) /\ Located(a)
  /\ \A a \in ActionIds \ raced : OneCopy(a) /\ CountFits(a)

FlowInv ==
  /\ TypeOK /\ LocalsInv /\ NumbersFit /\ Exclusive
  /\ EventsInv /\ ActionsInv

-----------------------------------------------------------------------------
(* The queue as a set of Actions, each perhaps more than once.             *)
LEMMA AppendedIn ==
  ASSUME NEW S, NEW q \in Seq(S), NEW b \in S, NEW new, new = Append(q, b)
  PROVE  /\ new \in Seq(S)
         /\ \A a : In(new, a) <=> In(q, a) \/ a = b
         /\ \A a : Once(q, a) /\ (a = b => ~In(q, a)) => Once(new, a)
<1>1. PICK n \in Nat : n = Len(q)
  BY LenProperties
<1>2. /\ new \in Seq(S) /\ Len(new) = n + 1 /\ new[n + 1] = b
      /\ \A i \in 1..n : new[i] = q[i]
  BY <1>1, AppendProperties
<1>3. ASSUME NEW a PROVE In(new, a) <=> In(q, a) \/ a = b
  <2>1. ASSUME In(new, a) PROVE In(q, a) \/ a = b
    <3>1. PICK i \in 1..n + 1 : new[i] = a
      BY <1>2, <2>1 DEF In
    <3>2. CASE i = n + 1
      BY <1>2, <3>1, <3>2
    <3>3. CASE i # n + 1
      <4>1. i \in 1..n
        BY <1>1, <3>3
      <4> QED BY <1>1, <1>2, <3>1, <4>1 DEF In
    <3> QED BY <3>2, <3>3
  <2>2. ASSUME In(q, a) PROVE In(new, a)
    <3>1. PICK i \in 1..n : q[i] = a
      BY <1>1, <2>2 DEF In
    <3>2. i \in 1..n + 1 /\ new[i] = a
      BY <1>1, <1>2, <3>1
    <3> QED BY <1>2, <3>2 DEF In
  <2>3. ASSUME a = b PROVE In(new, a)
    <3>1. n + 1 \in 1..n + 1
      BY <1>1
    <3> QED BY <1>2, <2>3, <3>1 DEF In
  <2> QED BY <2>1, <2>2, <2>3
<1>4. ASSUME NEW a, Once(q, a), a = b => ~In(q, a) PROVE Once(new, a)
  <2>1. SUFFICES ASSUME NEW i \in 1..n + 1, NEW j \in 1..n + 1, new[i] = a, new[j] = a
                 PROVE  i = j
    BY <1>2 DEF Once
  <2>2. i \in 1..n \/ i = n + 1
    BY <1>1
  <2>3. j \in 1..n \/ j = n + 1
    BY <1>1
  <2>4. i \in 1..n /\ j \in 1..n => i = j
    BY <1>1, <1>2, <1>4, <2>1 DEF Once
  <2>5. i \in 1..n => q[i] = a
    BY <1>2, <2>1
  <2>6. j \in 1..n => q[j] = a
    BY <1>2, <2>1
  <2>7. i = n + 1 \/ j = n + 1 => a = b
    BY <1>2, <2>1
  <2>8. i = n + 1 \/ j = n + 1 => ~(i \in 1..n) /\ ~(j \in 1..n)
    BY <1>1, <1>4, <2>5, <2>6, <2>7 DEF In
  <2> QED BY <2>2, <2>3, <2>4, <2>8
<1> QED BY <1>2, <1>3, <1>4

(* Its first element is taken.                                             *)
LEMMA DequeuedIn ==
  ASSUME NEW S, NEW q \in Seq(S), q # <<>>, NEW new, new = Tail(q)
  PROVE  /\ new \in Seq(S) /\ Head(q) \in S
         /\ \A a : In(q, a) <=> In(new, a) \/ a = Head(q)
         /\ \A a : Once(q, a) => Once(new, a) /\ (a = Head(q) => ~In(new, a))
<1>1. PICK n \in Nat : n = Len(new)
  BY HeadTailProperties, LenProperties
<1>2. /\ new \in Seq(S) /\ Head(q) \in S /\ Len(q) = n + 1
      /\ \A i \in 1..n : new[i] = q[i + 1]
  <2>1. Len(q) \in Nat
    BY LenProperties
  <2> QED BY <1>1, <2>1, HeadTailProperties
<1>3. q[1] = Head(q)
  OBVIOUS
<1>4. ASSUME NEW a PROVE In(q, a) <=> In(new, a) \/ a = Head(q)
  <2>1. ASSUME In(q, a) PROVE In(new, a) \/ a = Head(q)
    <3>1. PICK i \in 1..n + 1 : q[i] = a
      BY <1>2, <2>1 DEF In
    <3>2. CASE i = 1
      BY <1>3, <3>1, <3>2
    <3>3. CASE i # 1
      <4>1. PICK k \in 1..n : i = k + 1
        <5>1. i - 1 \in 1..n /\ i = (i - 1) + 1
          BY <1>1, <3>3
        <5> QED BY <5>1
      <4>2. new[k] = a
        BY <1>2, <3>1, <4>1
      <4> QED BY <1>1, <4>2 DEF In
    <3> QED BY <3>2, <3>3
  <2>2. ASSUME In(new, a) PROVE In(q, a)
    <3>1. PICK i \in 1..n : new[i] = a
      BY <1>1, <2>2 DEF In
    <3>2. i + 1 \in 1..n + 1 /\ q[i + 1] = a
      BY <1>1, <1>2, <3>1
    <3> QED BY <1>2, <3>2 DEF In
  <2>3. ASSUME a = Head(q) PROVE In(q, a)
    <3>1. 1 \in 1..n + 1
      BY <1>1
    <3> QED BY <1>2, <1>3, <2>3, <3>1 DEF In
  <2> QED BY <2>1, <2>2, <2>3
<1>5. ASSUME NEW a, Once(q, a) PROVE Once(new, a) /\ (a = Head(q) => ~In(new, a))
  <2>1. \A i, j \in 1..n + 1 : q[i] = a /\ q[j] = a => i = j
    BY <1>2, <1>5 DEF Once
  <2>2. ASSUME NEW i \in 1..n, NEW j \in 1..n, new[i] = a, new[j] = a PROVE i = j
    <3>1. i + 1 \in 1..n + 1 /\ j + 1 \in 1..n + 1 /\ q[i + 1] = a /\ q[j + 1] = a
      BY <1>1, <1>2, <2>2
    <3>2. i + 1 = j + 1
      BY <2>1, <3>1
    <3> QED BY <3>2
  <2>3. Once(new, a)
    BY <1>1, <2>2 DEF Once
  <2>4. ASSUME NEW i \in 1..n, new[i] = a, a = Head(q) PROVE FALSE
    <3>1. i + 1 \in 1..n + 1 /\ 1 \in 1..n + 1 /\ q[i + 1] = a /\ q[1] = a
      BY <1>1, <1>2, <1>3, <2>4
    <3>2. i + 1 = 1
      BY <2>1, <3>1
    <3> QED BY <3>2
  <2>5. a = Head(q) => ~In(new, a)
    BY <1>1, <2>4 DEF In
  <2> QED BY <2>3, <2>5
<1> QED BY <1>2, <1>4, <1>5

(* The queue of the model.                                                 *)
LEMMA QueueGrows ==
  ASSUME NEW a \in ActionIds, queue \in Seq(ActionIds), queue' = Append(queue, a)
  PROVE  /\ queue' \in Seq(ActionIds)
         /\ \A b : In(queue', b) <=> In(queue, b) \/ b = a
         /\ \A b : Once(queue, b) /\ (b = a => ~In(queue, b)) => Once(queue', b)
<1>1. PICK q \in Seq(ActionIds) : q = queue
  OBVIOUS
<1>2. PICK new : new = queue' /\ new = Append(q, a)
  BY <1>1
<1>3. /\ new \in Seq(ActionIds)
      /\ \A b : In(new, b) <=> In(q, b) \/ b = a
      /\ \A b : Once(q, b) /\ (b = a => ~In(q, b)) => Once(new, b)
  BY <1>2, AppendedIn
<1> QED BY <1>1, <1>2, <1>3

(* It loses its first element.                                             *)
LEMMA QueueShrinks ==
  ASSUME queue \in Seq(ActionIds), queue # <<>>, queue' = Tail(queue)
  PROVE  /\ queue' \in Seq(ActionIds) /\ Head(queue) \in ActionIds
         /\ \A b : In(queue, b) <=> In(queue', b) \/ b = Head(queue)
         /\ \A b : Once(queue, b) => Once(queue', b) /\ (b = Head(queue) => ~In(queue', b))
<1>1. PICK q \in Seq(ActionIds) : q = queue
  OBVIOUS
<1>2. PICK new : new = queue' /\ new = Tail(q) /\ q # <<>>
  BY <1>1
<1>3. /\ new \in Seq(ActionIds) /\ Head(q) \in ActionIds
      /\ \A b : In(q, b) <=> In(new, b) \/ b = Head(q)
      /\ \A b : Once(q, b) => Once(new, b) /\ (b = Head(q) => ~In(new, b))
  BY <1>2, DequeuedIn
<1> QED BY <1>1, <1>2, <1>3

-----------------------------------------------------------------------------
(* Thread t goes to p with locals l, nobody else moves.                    *)
Moves(t, p, l) ==
  /\ pc' = [pc EXCEPT ![t] = p]
  /\ local' = [local EXCEPT ![t] = l]

(* Nobody else's program counter or locals are disturbed by a move.        *)
LEMMA MovesApart ==
  ASSUME TypeOK, NEW t \in All, NEW p \in PCs, NEW l \in Locals, Moves(t, p, l)
  PROVE  /\ pc' \in [All -> PCs] /\ local' \in [All -> Locals]
         /\ pc'[t] = p /\ local'[t] = l
         /\ \A u \in All : u # t => pc'[u] = pc[u] /\ local'[u] = local[u]
BY DEF TypeOK, Moves, PCs

(* The locals of a thread that rests are in order.                         *)
LEMMA RestingFits ==
  /\ Resting \in Locals /\ ThreadLocals("idle", Resting) /\ WorkerLocals("idle", Resting)
  /\ Resting.obj = NoOne
<1>1. Resting \in Locals
  <2>1. 0 \in 0..Batch /\ 0 \in 0..MaxTransientRetries
    BY EventFlowConstants
  <2>2. PICK no \in BOOLEAN : no = FALSE
    OBVIOUS
  <2>3. Resting = [obj |-> NoOne, ingest |-> no, left |-> 0, retries |-> 0]
    BY <2>2 DEF Resting
  <2> QED BY <2>1, <2>3 DEF Locals
<1>2. ThreadLocals("idle", Resting)
  BY DEF ThreadLocals, Resting, EventPCs, DecisionPCs
<1>3. WorkerLocals("idle", Resting)
  BY DEF WorkerLocals, WorkerPCs, HoldingPCs
<1> QED BY <1>1, <1>2, <1>3 DEF Resting

(* The shapes a step of a thread takes.                                    *)
LEMMA ShapesOfMoves ==
  ASSUME TypeOK, NEW t \in All
  PROVE  /\ \A p : Goto(t, p) => Moves(t, p, local[t]) /\ raced' = raced
         /\ Finish(t) => Moves(t, "idle", Resting) /\ raced' = raced
<1>1. local = [local EXCEPT ![t] = local[t]]
  BY DEF TypeOK
<1>2. ASSUME NEW p, Goto(t, p) PROVE Moves(t, p, local[t]) /\ raced' = raced
  <2>1. local' = local
    BY <1>2 DEF Goto
  <2> QED BY <1>1, <1>2, <2>1 DEF Goto, Moves
<1> QED BY <1>2 DEF Finish, Moves

(* The program counters and locals fit after a step that fits itself.      *)
LEMMA ThreadKeepsLocals ==
  ASSUME TypeOK, LocalsInv, NEW t \in Threads, NEW p \in PCs, NEW l \in Locals,
         Moves(t, p, l), ThreadLocals(p, l)
  PROVE  LocalsInv'
<1>1. t \in All /\ t \notin Workers
  BY EventFlowConstants DEF All
<1>2. /\ pc'[t] = p /\ local'[t] = l
      /\ \A u \in All : u # t => pc'[u] = pc[u] /\ local'[u] = local[u]
  BY <1>1, MovesApart
<1>3. ASSUME NEW u \in Threads PROVE ThreadLocals(pc'[u], local'[u])
  BY <1>2 DEF LocalsInv, All
<1>4. ASSUME NEW w \in Workers PROVE WorkerLocals(pc'[w], local'[w])
  BY <1>1, <1>2 DEF LocalsInv, All
<1> QED BY <1>3, <1>4 DEF LocalsInv, ThreadLocals, WorkerLocals

(* Likewise for a worker.                                                  *)
LEMMA WorkerKeepsLocals ==
  ASSUME TypeOK, LocalsInv, NEW w \in Workers, NEW p \in PCs, NEW l \in Locals,
         Moves(w, p, l), WorkerLocals(p, l)
  PROVE  LocalsInv'
<1>1. w \in All /\ w \notin Threads
  BY EventFlowConstants DEF All
<1>2. /\ pc'[w] = p /\ local'[w] = l
      /\ \A u \in All : u # w => pc'[u] = pc[u] /\ local'[u] = local[u]
  BY <1>1, MovesApart
<1>3. ASSUME NEW u \in Threads PROVE ThreadLocals(pc'[u], local'[u])
  BY <1>1, <1>2 DEF LocalsInv, All
<1>4. ASSUME NEW v \in Workers PROVE WorkerLocals(pc'[v], local'[v])
  BY <1>2 DEF LocalsInv, All
<1> QED BY <1>3, <1>4 DEF LocalsInv, ThreadLocals, WorkerLocals

-----------------------------------------------------------------------------
(* Overlapping requests.                                                   *)
LEMMA StepsKeepExclusive ==
  ASSUME TypeOK, Exclusive, NEW t \in Threads, NEW p \in PCs, NEW l \in Locals,
         Moves(t, p, l), raced' = raced,
         p \in RequestPCs => pc[t] \in RequestPCs /\ l.obj = local[t].obj
  PROVE  Exclusive'
<1>1. /\ pc'[t] = p /\ local'[t] = l
      /\ \A u \in Threads : u # t => pc'[u] = pc[u] /\ local'[u] = local[u]
  BY MovesApart DEF All
<1> QED BY <1>1 DEF Exclusive

(* A worker's step starts no request and changes nobody's.                 *)
LEMMA WorkersKeepExclusive ==
  ASSUME TypeOK, Exclusive, NEW w \in Workers, NEW p \in PCs, NEW l \in Locals,
         Moves(w, p, l), raced' = raced
  PROVE  Exclusive'
<1>1. \A u \in Threads : pc'[u] = pc[u] /\ local'[u] = local[u]
  BY MovesApart, EventFlowConstants DEF All
<1> QED BY <1>1 DEF Exclusive

(* A request that begins while another one works on its id is remembered.  *)
LEMMA BeginShape ==
  ASSUME TypeOK, NEW t \in Threads, NEW start \in RequestPCs,
         NEW x \in Events \cup ActionIds, NEW ingest \in BOOLEAN,
         Begin(t, start, x, ingest)
  PROVE  \E l \in Locals :
           /\ Moves(t, start, l) /\ l.obj = x /\ l.ingest = ingest
           /\ raced \subseteq raced' /\ raced' \subseteq raced \cup {x}
           /\ \A u \in Threads : pc[u] \in RequestPCs /\ local[u].obj = x => x \in raced'
<1>1. PICK l : l = [Resting EXCEPT !.obj = x, !.ingest = ingest]
  OBVIOUS
<1>2. Resting \in Locals
  BY RestingFits
<1>3. l \in Locals /\ l.obj = x /\ l.ingest = ingest
  BY ONLY <1>1, <1>2, x \in Events \cup ActionIds, ingest \in BOOLEAN DEF Locals
<1>4. Moves(t, start, l)
  BY <1>1 DEF Begin, Moves
<1>5. /\ raced \subseteq raced' /\ raced' \subseteq raced \cup {x}
      /\ \A u \in Threads : pc[u] \in RequestPCs /\ local[u].obj = x => x \in raced'
  BY DEF Begin
<1> QED BY <1>3, <1>4, <1>5

(* Once remembered, the overlap excuses the two requests.                  *)
LEMMA BeginKeepsExclusive ==
  ASSUME TypeOK, Exclusive, NEW t \in Threads, NEW p \in RequestPCs, NEW l \in Locals,
         NEW x, Moves(t, p, l), l.obj = x, raced \subseteq raced',
         \A u \in Threads : pc[u] \in RequestPCs /\ local[u].obj = x => x \in raced'
  PROVE  Exclusive'
<1>1. /\ pc'[t] = p /\ local'[t] = l
      /\ \A u \in Threads : u # t => pc'[u] = pc[u] /\ local'[u] = local[u]
  BY MovesApart DEF All, PCs
<1> QED BY <1>1 DEF Exclusive

-----------------------------------------------------------------------------
(* The numbers of Actions: a step that plans nothing, ...                  *)
LEMMA NumbersAreFinite ==
  /\ IsFiniteSet(Planned) /\ IsFiniteSet(Processing)
  /\ Cardinality(Planned) \in Nat /\ Cardinality(Processing) \in Nat
<1>1. IsFiniteSet(ActionIds)
  BY EventFlowConstants, FS_Interval DEF ActionIds
<1>2. Planned \subseteq ActionIds /\ Processing \subseteq Threads
  BY DEF Planned, Processing
<1>3. IsFiniteSet(Planned)
  BY <1>1, <1>2, FS_Subset
<1>4. IsFiniteSet(Processing)
  BY <1>2, EventFlowConstants, FS_Subset
<1> QED BY <1>3, <1>4, FS_CardinalityType

(* ... one that keeps the processing calls, ...                            *)
LEMMA NumbersKept ==
  ASSUME NumbersFit, Planned' = Planned, Processing' \subseteq Processing
  PROVE  NumbersFit'
<1>1. PICK P, Q : P = Processing /\ Q = Processing'
  OBVIOUS
<1>2. IsFiniteSet(P) /\ Cardinality(P) \in Nat
  BY <1>1, NumbersAreFinite
<1>3. IsFiniteSet(Q) /\ Cardinality(Q) <= Cardinality(P) /\ Cardinality(Q) \in Nat
  <2>1. IsFiniteSet(Q) /\ Cardinality(Q) <= Cardinality(P)
    BY <1>1, <1>2, FS_Subset
  <2> QED BY <2>1, FS_CardinalityType
<1>4. Cardinality(Planned) \in Nat /\ Cardinality(Planned) + Cardinality(P) <= MaxActions
      /\ MaxActions \in Nat
  BY <1>1, NumbersAreFinite, EventFlowConstants DEF NumbersFit
<1>5. Cardinality(Planned) + Cardinality(Q) <= MaxActions
  BY <1>2, <1>3, <1>4
<1> QED BY <1>1, <1>5 DEF NumbersFit

(* ... one that begins a processing call there is room for, ...            *)
LEMMA NumbersWithRoom ==
  ASSUME NumbersFit, RoomToPlan, Planned' = Planned, NEW t,
         Processing' \subseteq Processing \cup {t}
  PROVE  NumbersFit'
<1>1. PICK P, Q : P = Processing /\ Q = Processing'
  OBVIOUS
<1>2. IsFiniteSet(P) /\ Cardinality(P) \in Nat
  BY <1>1, NumbersAreFinite
<1>3. PICK R : R = P \cup {t}
  OBVIOUS
<1>4. IsFiniteSet(R) /\ (Cardinality(R) = Cardinality(P) \/ Cardinality(R) = Cardinality(P) + 1)
  BY ONLY <1>2, <1>3, FS_AddElement
<1>5. Cardinality(Q) <= Cardinality(R) /\ IsFiniteSet(Q)
  BY <1>1, <1>3, <1>4, FS_Subset
<1>6. Cardinality(Q) \in Nat
  BY <1>5, FS_CardinalityType
<1>7. Cardinality(Planned) \in Nat /\ Cardinality(Planned) + Cardinality(P) < MaxActions
      /\ MaxActions \in Nat
  BY <1>1, NumbersAreFinite, EventFlowConstants DEF RoomToPlan
<1>8. Cardinality(Planned) + Cardinality(Q) <= MaxActions
  BY <1>2, <1>4, <1>5, <1>6, <1>7
<1> QED BY <1>1, <1>8 DEF NumbersFit

(* ... and one that ends a processing call, perhaps by planning the next   *)
(* Action.                                                                 *)
LEMMA NextNumber ==
  ASSUME NumbersFit, NEW t \in Processing
  PROVE  Cardinality(Planned) + 1 \in ActionIds
         /\ life[Cardinality(Planned) + 1].status = "unplanned"
<1>1. PICK P : P = Processing
  OBVIOUS
<1>2. IsFiniteSet(P) /\ Cardinality(P) \in Nat /\ Cardinality(Planned) \in Nat
  BY <1>1, NumbersAreFinite
<1>3. Cardinality(P) # 0
  BY <1>1, <1>2, FS_EmptySet
<1>4. Cardinality(Planned) + Cardinality(P) <= MaxActions /\ MaxActions \in Nat
  BY <1>1, EventFlowConstants DEF NumbersFit
<1>5. Cardinality(Planned) + 1 \in ActionIds
  BY <1>2, <1>3, <1>4 DEF ActionIds
<1>6. Cardinality(Planned) + 1 \notin Planned
  BY <1>2 DEF NumbersFit
<1> QED BY <1>5, <1>6 DEF Planned

(* The call that plans an Action takes the number it had left.             *)
LEMMA NumbersTaken ==
  ASSUME NumbersFit, NEW t \in Processing, Processing' \subseteq Processing \ {t},
         Planned' = Planned \/ Planned' = Planned \cup {Cardinality(Planned) + 1}
  PROVE  NumbersFit'
<1>1. PICK P, Q, A, B : P = Processing /\ Q = Processing' /\ A = Planned /\ B = Planned'
  OBVIOUS
<1>2. /\ IsFiniteSet(P) /\ Cardinality(P) \in Nat
      /\ IsFiniteSet(A) /\ Cardinality(A) \in Nat
      /\ A = 1..Cardinality(A) /\ Cardinality(A) + Cardinality(P) <= MaxActions
      /\ MaxActions \in Nat
  BY <1>1, NumbersAreFinite, EventFlowConstants DEF NumbersFit
<1>3. PICK R : R = P \ {t}
  OBVIOUS
<1>4. IsFiniteSet(R) /\ Cardinality(R) = Cardinality(P) - 1
  BY ONLY <1>1, <1>2, <1>3, t \in Processing, FS_RemoveElement
<1>5. IsFiniteSet(Q) /\ Cardinality(Q) <= Cardinality(R)
  BY <1>1, <1>3, <1>4, FS_Subset
<1>6. Cardinality(Q) \in Nat /\ Cardinality(R) \in Nat
  BY <1>4, <1>5, FS_CardinalityType
<1>7. CASE B = A
  <2>1. Cardinality(A) + Cardinality(Q) <= MaxActions
    BY <1>2, <1>4, <1>5, <1>6
  <2>2. B = 1..Cardinality(B) /\ Cardinality(B) + Cardinality(Q) <= MaxActions
    BY <1>2, <1>7, <2>1
  <2> QED BY <1>1, <2>2 DEF NumbersFit
<1>8. CASE B = A \cup {Cardinality(A) + 1}
  <2>1. Cardinality(A) + 1 \notin A
    BY <1>2
  <2>2. Cardinality(B) = Cardinality(A) + 1
    BY <1>2, <1>8, <2>1, FS_AddElement
  <2>3. B = 1..Cardinality(A) + 1
    <3>1. \A i : i \in 1..Cardinality(A) + 1 <=> i \in 1..Cardinality(A) \/ i = Cardinality(A) + 1
      BY <1>2
    <3>2. \A i : i \in A <=> i \in 1..Cardinality(A)
      BY <1>2
    <3> QED BY <1>8, <3>1, <3>2
  <2>4. Cardinality(B) + Cardinality(Q) <= MaxActions
    BY <1>2, <1>4, <1>5, <1>6, <2>2
  <2>5. B = 1..Cardinality(B) /\ Cardinality(B) + Cardinality(Q) <= MaxActions
    BY <2>2, <2>3, <2>4
  <2> QED BY <1>1, <2>5 DEF NumbersFit
<1> QED BY <1>1, <1>7, <1>8

-----------------------------------------------------------------------------
(* An event that a step does not touch.                                    *)
LEMMA EventUntouched ==
  ASSUME NEW e \in Events, EventFits(e),
         stored'[e] = stored[e], inbox'[e] = inbox[e], status'[e] = status[e],
         \A a \in ActionIds : origin'[a] = e <=> origin[a] = e,
         \A u \in Threads :
           \/ pc'[u] = pc[u] /\ local'[u].obj = local[u].obj
           \/ /\ ~(pc[u] \in EventPCs /\ local[u].obj = e)
              /\ ~(pc'[u] \in EventPCs /\ local'[u].obj = e)
  PROVE  EventFits(e)'
<1>1. \A u \in Threads :
        \/ pc'[u] = pc[u] /\ local'[u].obj = local[u].obj
        \/ ~Holds(u, e, EventPCs) /\ ~Holds(u, e, EventPCs)'
  BY DEF Holds
<1>2. \A u \in Threads : ~Holds(u, e, EventPCs) <=> ~Holds(u, e, EventPCs)'
  BY <1>1 DEF Holds
<1>3. ASSUME NEW u \in Threads
      PROVE  /\ Holds(u, e, {"append"})' => stored'[e] = 0
             /\ Holds(u, e, EventPCs \ {"append"})' => stored'[e] > 0
             /\ Holds(u, e, {"append", "inbox"})' => inbox'[e] = 0
             /\ Holds(u, e, EventPCs \ {"append", "inbox"})' => inbox'[e] = 1
             /\ Holds(u, e, {"append", "inbox", "pending"})' => status'[e] = "none"
             /\ Holds(u, e, {"lookup", "mark"})' => status'[e] \in {"pending", "failed"}
             /\ Holds(u, e, {"pipeline"})' => status'[e] = "processing"
             /\ Holds(u, e, {"settle"})' => status'[e] = "processed"
  <2>1. CASE pc'[u] = pc[u] /\ local'[u].obj = local[u].obj
    BY <2>1 DEF EventFits, Holds, EventPCs
  <2>2. CASE ~Holds(u, e, EventPCs)'
    BY <2>2 DEF Holds, EventPCs
  <2> QED BY <1>1, <2>1, <2>2
<1>4. (\A u \in Threads : ~Holds(u, e, EventPCs)') =>
        /\ inbox'[e] = IF status'[e] \in {"pending", "failed"} THEN 1 ELSE 0
        /\ status'[e] # "processing"
        /\ stored'[e] = 0 <=> status'[e] = "none"
  BY <1>2 DEF EventFits
<1>5. \A a \in ActionIds : origin'[a] = e =>
        /\ status'[e] = "processed"
        /\ \A u \in Threads : ~Holds(u, e, EventPCs)'
        /\ \A b \in ActionIds : origin'[b] = e => a = b
  BY <1>2 DEF EventFits
<1> QED BY <1>3, <1>4, <1>5 DEF EventFits

(* An Action that a step does not touch.                                   *)
LEMMA ActionUntouched ==
  ASSUME NEW a \in ActionIds, life'[a] = life[a], attempts'[a] = attempts[a],
         decided'[a] = decided[a], origin'[a] = origin[a],
         a \in registry' <=> a \in registry,
         In(queue', a) <=> In(queue, a), Once(queue, a) => Once(queue', a),
         \A u \in All :
           \/ pc'[u] = pc[u] /\ local'[u] = local[u]
           \/ /\ ~(pc[u] \in DecisionPCs \cup HoldingPCs /\ local[u].obj = a)
              /\ ~(pc'[u] \in DecisionPCs \cup HoldingPCs /\ local'[u].obj = a)
  PROVE  /\ ActionFits(a) => ActionFits(a)'
         /\ Located(a) => Located(a)'
         /\ OneCopy(a) => OneCopy(a)'
         /\ CountFits(a) => CountFits(a)'
<1>1. Threads \subseteq All /\ Workers \subseteq All
  BY DEF All
<1>2. InQueue(a)' <=> InQueue(a)
  BY DEF InQueue, In
<1>3. ASSUME NEW u \in All
      PROVE  /\ Holds(u, a, DecisionPCs)' <=> Holds(u, a, DecisionPCs)
             /\ Holds(u, a, HoldingPCs)' <=> Holds(u, a, HoldingPCs)
             /\ Holds(u, a, {"approve_queue"})' <=> Holds(u, a, {"approve_queue"})
             /\ Holds(u, a, {"approve_set", "reject_set"})' <=>
                  Holds(u, a, {"approve_set", "reject_set"})
             /\ Holds(u, a, HoldingPCs \ {"check"})' <=> Holds(u, a, HoldingPCs \ {"check"})
             /\ Holds(u, a, {"approve_queue", "check", "execute_set"})' <=>
                  Holds(u, a, {"approve_queue", "check", "execute_set"})
             /\ Holds(u, a, {"check", "execute_set"})' <=> Holds(u, a, {"check", "execute_set"})
             /\ Holds(u, a, {"execute"})' <=> Holds(u, a, {"execute"})
             /\ Holds(u, a, {"retry"})' <=> Holds(u, a, {"retry"})
             /\ Holds(u, a, {"execute_set", "execute", "retry"})' <=>
                  Holds(u, a, {"execute_set", "execute", "retry"})
             /\ Holds(u, a, {"execute_set", "execute", "retry"}) => local'[u] = local[u]
  <2>1. CASE pc'[u] = pc[u] /\ local'[u] = local[u]
    BY <2>1 DEF Holds
  <2>2. CASE /\ ~(pc[u] \in DecisionPCs \cup HoldingPCs /\ local[u].obj = a)
             /\ ~(pc'[u] \in DecisionPCs \cup HoldingPCs /\ local'[u].obj = a)
    BY <2>2 DEF Holds, DecisionPCs, HoldingPCs
  <2> QED BY <2>1, <2>2
<1>4. Permitted(a)' <=> Permitted(a)
  BY DEF Permitted
<1>5. ASSUME ActionFits(a) PROVE ActionFits(a)'
  BY <1>1, <1>2, <1>3, <1>4, <1>5 DEF ActionFits
<1>6. ASSUME Located(a) PROVE Located(a)'
  BY <1>1, <1>2, <1>3, <1>6 DEF Located
<1>7. ASSUME OneCopy(a) PROVE OneCopy(a)'
  BY <1>1, <1>2, <1>3, <1>7 DEF OneCopy, Once
<1>8. ASSUME CountFits(a) PROVE CountFits(a)'
  BY <1>1, <1>2, <1>3, <1>8 DEF CountFits
<1> QED BY <1>5, <1>6, <1>7, <1>8

-----------------------------------------------------------------------------
(* A step that is not about events, ...                                    *)
LEMMA EventsUntouched ==
  ASSUME FlowInv, NEW t \in All, NEW p \in PCs, NEW l \in Locals, Moves(t, p, l),
         UNCHANGED <<stored, inbox, status, origin>>, raced \subseteq raced',
         t \in Threads => pc[t] \notin EventPCs /\ p \notin EventPCs
  PROVE  EventsInv'
<1>1. TypeOK /\ EventsInv
  BY DEF FlowInv
<1>2. /\ pc'[t] = p /\ local'[t] = l
      /\ \A u \in All : u # t => pc'[u] = pc[u] /\ local'[u] = local[u]
  BY <1>1, MovesApart
<1>3. ASSUME NEW e \in Events \ raced' PROVE EventFits(e)'
  <2>1. EventFits(e)
    BY <1>1 DEF EventsInv
  <2>2. \A u \in Threads :
           \/ pc'[u] = pc[u] /\ local'[u].obj = local[u].obj
           \/ /\ ~(pc[u] \in EventPCs /\ local[u].obj = e)
              /\ ~(pc'[u] \in EventPCs /\ local'[u].obj = e)
    BY <1>2 DEF All
  <2> QED BY <2>1, <2>2, EventUntouched
<1> QED BY <1>3 DEF EventsInv

(* ... and one that is not about Actions.                                  *)
LEMMA ActionsUntouched ==
  ASSUME FlowInv, NEW t \in All, NEW p \in PCs, NEW l \in Locals, Moves(t, p, l),
         UNCHANGED <<life, registry, queue, origin, attempts, decided>>,
         raced \subseteq raced',
         pc[t] \notin DecisionPCs \cup HoldingPCs, p \notin DecisionPCs \cup HoldingPCs
  PROVE  ActionsInv' /\ Planned' = Planned
<1>1. TypeOK /\ ActionsInv
  BY DEF FlowInv
<1>2. /\ pc'[t] = p /\ local'[t] = l
      /\ \A u \in All : u # t => pc'[u] = pc[u] /\ local'[u] = local[u]
  BY <1>1, MovesApart
<1>3. ASSUME NEW a \in ActionIds
      PROVE  /\ ActionFits(a) => ActionFits(a)'
             /\ Located(a) => Located(a)'
             /\ OneCopy(a) => OneCopy(a)'
             /\ CountFits(a) => CountFits(a)'
  <2>1. \A u \in All :
           \/ pc'[u] = pc[u] /\ local'[u] = local[u]
           \/ /\ ~(pc[u] \in DecisionPCs \cup HoldingPCs /\ local[u].obj = a)
              /\ ~(pc'[u] \in DecisionPCs \cup HoldingPCs /\ local'[u].obj = a)
    BY <1>2
  <2> QED BY <2>1, ActionUntouched
<1>4. ActionsInv'
  BY <1>1, <1>3 DEF ActionsInv
<1>5. Planned' = Planned
  BY DEF Planned
<1> QED BY <1>4, <1>5

(* The stage of an event whose requests do not overlap, by the program     *)
(* counter of the request that works on it.                                *)
Stage(p, s, i, st) ==
  /\ p = "append" => s = 0
  /\ p \in EventPCs \ {"append"} => s > 0
  /\ p \in {"append", "inbox"} => i = 0
  /\ p \in EventPCs \ {"append", "inbox"} => i = 1
  /\ p \in {"append", "inbox", "pending"} => st = "none"
  /\ p \in {"lookup", "mark"} => st \in {"pending", "failed"}
  /\ p = "pipeline" => st = "processing"
  /\ p = "settle" => st = "processed"
  /\ p \notin EventPCs =>
       /\ i = IF st \in {"pending", "failed"} THEN 1 ELSE 0
       /\ st # "processing"
       /\ s = 0 <=> st = "none"

StageOf(e, p) == Stage(p, stored[e], inbox[e], status[e])

(* An event with one request at work, or none, is where that one says.     *)
LEMMA EventIsStaged ==
  ASSUME NEW e \in Events, EventFits(e), NEW t \in Threads,
         \A u \in Threads \ {t} : ~(pc[u] \in EventPCs /\ local[u].obj = e),
         pc[t] \in EventPCs => local[t].obj = e
  PROVE  /\ StageOf(e, pc[t])
         /\ pc[t] \in EventPCs \/ status[e] # "processed" =>
              \A a \in ActionIds : origin[a] # e
<1>1. CASE pc[t] \in EventPCs
  <2>1. StageOf(e, pc[t])
    BY <1>1 DEF EventFits, Holds, StageOf, Stage, EventPCs
  <2>2. \A a \in ActionIds : origin[a] # e
    BY <1>1 DEF EventFits, Holds
  <2> QED BY <2>1, <2>2
<1>2. CASE pc[t] \notin EventPCs
  <2>1. \A u \in Threads : ~Holds(u, e, EventPCs)
    BY <1>2 DEF Holds
  <2>2. StageOf(e, pc[t])
    BY <1>2, <2>1 DEF EventFits, StageOf, Stage, EventPCs
  <2>3. status[e] # "processed" => \A a \in ActionIds : origin[a] # e
    BY DEF EventFits
  <2> QED BY <1>2, <2>2, <2>3
<1> QED BY <1>1, <1>2

(* And conversely, after a step.                                           *)
LEMMA StagedEventFits ==
  ASSUME NEW e \in Events, NEW t \in Threads, StageOf(e, pc[t])',
         \A u \in Threads \ {t} : ~(pc'[u] \in EventPCs /\ local'[u].obj = e),
         pc'[t] \in EventPCs => local'[t].obj = e,
         \A a \in ActionIds : origin'[a] = e =>
           /\ status'[e] = "processed" /\ pc'[t] \notin EventPCs
           /\ \A b \in ActionIds : origin'[b] = e => a = b
  PROVE  EventFits(e)'
<1>1. ASSUME NEW u \in Threads
      PROVE  /\ Holds(u, e, {"append"})' => stored'[e] = 0
             /\ Holds(u, e, EventPCs \ {"append"})' => stored'[e] > 0
             /\ Holds(u, e, {"append", "inbox"})' => inbox'[e] = 0
             /\ Holds(u, e, EventPCs \ {"append", "inbox"})' => inbox'[e] = 1
             /\ Holds(u, e, {"append", "inbox", "pending"})' => status'[e] = "none"
             /\ Holds(u, e, {"lookup", "mark"})' => status'[e] \in {"pending", "failed"}
             /\ Holds(u, e, {"pipeline"})' => status'[e] = "processing"
             /\ Holds(u, e, {"settle"})' => status'[e] = "processed"
  <2>1. CASE u = t
    BY <2>1 DEF StageOf, Stage, Holds, EventPCs
  <2>2. CASE u # t
    BY <2>2 DEF Holds, EventPCs
  <2> QED BY <2>1, <2>2
<1>2. (\A u \in Threads : ~Holds(u, e, EventPCs)') => pc'[t] \notin EventPCs
  BY DEF Holds
<1>3. (\A u \in Threads : ~Holds(u, e, EventPCs)') =>
        /\ inbox'[e] = IF status'[e] \in {"pending", "failed"} THEN 1 ELSE 0
        /\ status'[e] # "processing"
        /\ stored'[e] = 0 <=> status'[e] = "none"
  BY <1>2 DEF StageOf, Stage
<1>4. \A a \in ActionIds : origin'[a] = e =>
        /\ status'[e] = "processed"
        /\ \A u \in Threads : ~Holds(u, e, EventPCs)'
        /\ \A b \in ActionIds : origin'[b] = e => a = b
  BY DEF Holds
<1> QED BY <1>1, <1>3, <1>4 DEF EventFits

(* A step of the one request at work on an event x, or the first step of   *)
(* one.                                                                    *)
LEMMA EventStep ==
  ASSUME FlowInv, NEW t \in Threads, NEW p \in PCs, NEW l \in Locals, Moves(t, p, l),
         NEW x \in Events, raced \subseteq raced', UNCHANGED origin,
         \A e \in Events \ {x} : /\ stored'[e] = stored[e] /\ inbox'[e] = inbox[e]
                                 /\ status'[e] = status[e],
         pc[t] \in EventPCs => local[t].obj = x,
         p \in EventPCs => l.obj = x,
         pc[t] \in EventPCs \/
           \A u \in Threads : pc[u] \in RequestPCs /\ local[u].obj = x => x \in raced',
         pc[t] \in EventPCs \/ stored[x] = 0 \/ status[x] # "processed",
         StageOf(x, pc[t]) => Stage(p, stored'[x], inbox'[x], status'[x])
  PROVE  EventsInv'
<1>1. TypeOK /\ EventsInv /\ Exclusive
  BY DEF FlowInv
<1>2. /\ pc'[t] = p /\ local'[t] = l
      /\ \A u \in Threads : u # t => pc'[u] = pc[u] /\ local'[u] = local[u]
  BY <1>1, MovesApart DEF All
<1>3. ASSUME NEW e \in Events \ raced', e # x PROVE EventFits(e)'
  <2>1. EventFits(e)
    BY <1>3, <1>1 DEF EventsInv
  <2>2. \A u \in Threads :
           \/ pc'[u] = pc[u] /\ local'[u].obj = local[u].obj
           \/ /\ ~(pc[u] \in EventPCs /\ local[u].obj = e)
              /\ ~(pc'[u] \in EventPCs /\ local'[u].obj = e)
    BY <1>2, <1>3
  <2> QED BY <1>3, <2>1, <2>2, EventUntouched
<1>4. ASSUME x \notin raced' PROVE EventFits(x)'
  <2>1. EventPCs \subseteq RequestPCs
    BY DEF EventPCs, RequestPCs
  <2>2. \A u \in Threads \ {t} : ~(pc[u] \in EventPCs /\ local[u].obj = x)
    <3>1. CASE pc[t] \in EventPCs
      BY <1>1, <1>4, <2>1, <3>1 DEF Exclusive
    <3>2. CASE pc[t] \notin EventPCs
      BY <1>4, <2>1, <3>2
    <3> QED BY <3>1, <3>2
  <2>3. EventFits(x)
    BY <1>1, <1>4 DEF EventsInv
  <2>4. /\ StageOf(x, pc[t])
        /\ pc[t] \in EventPCs \/ status[x] # "processed" =>
             \A a \in ActionIds : origin[a] # x
    BY <2>2, <2>3, EventIsStaged
  <2>5. pc[t] \in EventPCs \/ status[x] # "processed"
    BY <2>4 DEF StageOf, Stage
  <2>6. \A a \in ActionIds : origin'[a] # x
    BY <2>4, <2>5
  <2>7. StageOf(x, pc[t])'
    BY <1>2, <2>4 DEF StageOf, Stage
  <2>8. \A u \in Threads \ {t} : ~(pc'[u] \in EventPCs /\ local'[u].obj = x)
    BY <1>2, <2>2
  <2>9. pc'[t] \in EventPCs => local'[t].obj = x
    BY <1>2
  <2> QED BY <2>6, <2>7, <2>8, <2>9, StagedEventFits
<1> QED BY <1>3, <1>4 DEF EventsInv

ProcessingPCs == {"mark", "pipeline", "settle"}
EventStatus == {"none", "pending", "processing", "processed", "failed"}

(* All that a step of a request on an event has to show: ...               *)
LEMMA EventWork ==
  ASSUME FlowInv, NEW t \in Threads, NEW p \in EventPCs \cup {"idle"}, NEW l \in Locals,
         Moves(t, p, l), raced' = raced,
         UNCHANGED <<category, life, registry, queue, origin, attempts, decided>>,
         pc[t] \in EventPCs, NEW x \in Events, local[t].obj = x,
         p \in EventPCs => l.obj = x, ThreadLocals(p, l),
         l.ingest \/ p \in ProcessingPCs => local[t].ingest \/ pc[t] \in ProcessingPCs,
         stored' \in [Events -> Nat], inbox' \in [Events -> Nat],
         status' \in [Events -> EventStatus],
         \A e \in Events \ {x} : /\ stored'[e] = stored[e] /\ inbox'[e] = inbox[e]
                                 /\ status'[e] = status[e],
         StageOf(x, pc[t]) => Stage(p, stored'[x], inbox'[x], status'[x])
  PROVE  FlowInv'
<1>1. TypeOK /\ LocalsInv /\ NumbersFit /\ Exclusive
  BY DEF FlowInv
<1>2. /\ p \in PCs /\ EventPCs \subseteq RequestPCs /\ "idle" \notin RequestPCs
      /\ pc[t] \notin DecisionPCs \cup HoldingPCs /\ p \notin DecisionPCs \cup HoldingPCs
  BY DEF PCs, EventPCs, RequestPCs, DecisionPCs, HoldingPCs
<1>3. /\ pc' \in [All -> PCs] /\ local' \in [All -> Locals] /\ pc'[t] = p /\ local'[t] = l
      /\ \A u \in Threads : u # t => pc'[u] = pc[u] /\ local'[u] = local[u]
  <2>1. t \in All /\ Threads \subseteq All
    BY DEF All
  <2> QED BY <1>1, <1>2, <2>1, MovesApart
<1>4. TypeOK'
  BY <1>1, <1>3 DEF TypeOK, PCs, EventStatus
<1>5. LocalsInv'
  BY <1>1, <1>2, ThreadKeepsLocals
<1>6. ActionsInv' /\ Planned' = Planned
  <2>1. t \in All
    BY DEF All
  <2> QED BY <1>2, <2>1, ActionsUntouched
<1>7. NumbersFit'
  <2>1. Processing' \subseteq Processing
    BY <1>3 DEF Processing, ProcessingPCs
  <2> QED BY <1>1, <1>6, <2>1, NumbersKept
<1>8. Exclusive'
  <2>1. p \in RequestPCs => pc[t] \in RequestPCs /\ l.obj = local[t].obj
    BY <1>2
  <2> QED BY <1>1, <1>2, <2>1, StepsKeepExclusive
<1>9. EventsInv'
  BY <1>2, EventStep
<1> QED BY <1>4, <1>5, <1>6, <1>7, <1>8, <1>9 DEF FlowInv

(* ... and the first step of one.                                          *)
LEMMA EventBegins ==
  ASSUME FlowInv, NEW t \in Threads, NEW p \in EventPCs, NEW x \in Events,
         NEW ingest \in BOOLEAN, Begin(t, p, x, ingest),
         UNCHANGED <<workflow, governed, observed>>,
         p # "lookup", ingest \/ p \in ProcessingPCs => RoomToPlan,
         stored[x] = 0 \/ status[x] # "processed",
         StageOf(x, "idle") => StageOf(x, p)
  PROVE  FlowInv'
<1>1. TypeOK /\ LocalsInv /\ NumbersFit /\ Exclusive
  BY DEF FlowInv
<1>2. /\ p \in PCs /\ p \in RequestPCs /\ EventPCs \subseteq RequestPCs
      /\ p \notin DecisionPCs \cup HoldingPCs /\ p # "idle"
  BY DEF PCs, EventPCs, RequestPCs, DecisionPCs, HoldingPCs
<1>3. /\ UNCHANGED <<category, stored, inbox, status>> /\ UNCHANGED <<life, registry, queue>>
      /\ UNCHANGED <<origin, attempts, decided>>
  BY DEF workflow, governed, observed
<1>4. pc[t] = "idle"
  BY DEF Begin
<1>5. PICK l \in Locals :
        /\ Moves(t, p, l) /\ l.obj = x /\ l.ingest = ingest
        /\ raced \subseteq raced' /\ raced' \subseteq raced \cup {x}
        /\ \A u \in Threads : pc[u] \in RequestPCs /\ local[u].obj = x => x \in raced'
  BY <1>1, <1>2, BeginShape
<1>6. /\ pc' \in [All -> PCs] /\ local' \in [All -> Locals] /\ pc'[t] = p /\ local'[t] = l
      /\ \A u \in Threads : u # t => pc'[u] = pc[u] /\ local'[u] = local[u]
  <2>1. t \in All /\ Threads \subseteq All
    BY DEF All
  <2> QED BY <1>1, <1>2, <1>5, <2>1, MovesApart
<1>7. TypeOK'
  BY <1>1, <1>3, <1>5, <1>6 DEF TypeOK, PCs
<1>8. LocalsInv'
  <2>1. ThreadLocals(p, l)
    BY <1>2, <1>5 DEF ThreadLocals, EventPCs, DecisionPCs, RequestPCs
  <2> QED BY <1>1, <1>2, <1>5, <2>1, ThreadKeepsLocals
<1>9. pc[t] \notin DecisionPCs \cup HoldingPCs /\ pc[t] \notin EventPCs
  BY <1>4 DEF DecisionPCs, HoldingPCs, EventPCs
<1>10. ActionsInv' /\ Planned' = Planned
  <2>1. t \in All
    BY DEF All
  <2> QED BY <1>2, <1>3, <1>5, <1>9, <2>1, ActionsUntouched
<1>11. NumbersFit'
  <2>1. CASE ingest \/ p \in ProcessingPCs
    <3>1. Processing' \subseteq Processing \cup {t}
      BY <1>6 DEF Processing
    <3> QED BY <1>1, <1>10, <2>1, <3>1, NumbersWithRoom
  <2>2. CASE ~(ingest \/ p \in ProcessingPCs)
    <3>1. Processing' \subseteq Processing
      BY <1>5, <1>6, <2>2 DEF Processing, ProcessingPCs
    <3> QED BY <1>1, <1>10, <3>1, NumbersKept
  <2> QED BY <2>1, <2>2
<1>12. Exclusive'
  BY <1>1, <1>2, <1>5, BeginKeepsExclusive
<1>13. EventsInv'
  <2>1. StageOf(x, pc[t]) => Stage(p, stored'[x], inbox'[x], status'[x])
    BY <1>3, <1>4 DEF StageOf
  <2> QED BY <1>2, <1>3, <1>5, <1>9, <2>1, EventStep
<1> QED BY <1>7, <1>8, <1>10, <1>11, <1>12, <1>13 DEF FlowInv

-----------------------------------------------------------------------------
(* A thread at work on an event, with what its move needs.                 *)
LEMMA EventWorker ==
  ASSUME FlowInv, NEW t \in Threads, pc[t] \in EventPCs
  PROVE  /\ TypeOK /\ t \in All /\ local[t] \in Locals /\ local[t].obj \in Events
         /\ local[t].ingest \in BOOLEAN
         /\ stored \in [Events -> Nat] /\ inbox \in [Events -> Nat]
         /\ status \in [Events -> EventStatus]
         /\ \A p \in EventPCs : p = "lookup" \/ ThreadLocals(p, local[t])
         /\ \A p : Goto(t, p) => Moves(t, p, local[t]) /\ raced' = raced
         /\ Finish(t) => Moves(t, "idle", Resting) /\ raced' = raced
         /\ Resting \in Locals /\ ThreadLocals("idle", Resting) /\ ~Resting.ingest
<1>1. TypeOK /\ LocalsInv
  BY DEF FlowInv
<1>2. t \in All
  BY DEF All
<1>3. local[t] \in Locals
  BY <1>1, <1>2 DEF TypeOK
<1>4. local[t].ingest \in BOOLEAN
  BY <1>3 DEF Locals
<1>5. local[t].obj \in Events
  BY <1>1 DEF LocalsInv, ThreadLocals
<1>6. \A p \in EventPCs : p = "lookup" \/ ThreadLocals(p, local[t])
  BY <1>5 DEF ThreadLocals, EventPCs, DecisionPCs, RequestPCs
<1>7. stored \in [Events -> Nat] /\ inbox \in [Events -> Nat]
      /\ status \in [Events -> EventStatus]
  BY <1>1 DEF TypeOK, EventStatus
<1>8. /\ \A p : Goto(t, p) => Moves(t, p, local[t]) /\ raced' = raced
      /\ Finish(t) => Moves(t, "idle", Resting) /\ raced' = raced
  BY <1>1, <1>2, ShapesOfMoves
<1>9. ~Resting.ingest
  BY DEF Resting
<1> QED BY <1>1, <1>2, <1>3, <1>4, <1>5, <1>6, <1>7, <1>8, <1>9, RestingFits

(* Accepting an event.                                                     *)
LEMMA AcceptKeepsFlow ==
  ASSUME FlowInv, NEW t \in Threads,
         AcceptAppend(t) \/ AcceptEnqueue(t) \/ AcceptPending(t)
  PROVE  FlowInv'
<1>1. CASE AcceptAppend(t)
  <2>1. pc[t] = "append" /\ pc[t] \in EventPCs /\ "inbox" \in EventPCs
    BY <1>1 DEF AcceptAppend, EventPCs
  <2>2. PICK x \in Events : x = local[t].obj
    BY <2>1, EventWorker
  <2>3. /\ Moves(t, "inbox", local[t]) /\ raced' = raced /\ ThreadLocals("inbox", local[t])
        /\ local[t] \in Locals
    BY <1>1, <2>1, EventWorker DEF AcceptAppend
  <2>4. /\ stored' = [stored EXCEPT ![x] = @ + 1]
        /\ UNCHANGED <<category, life, registry, queue, origin, attempts, decided, inbox, status>>
    BY <1>1, <2>2 DEF AcceptAppend, governed, observed
  <2>5. /\ stored' \in [Events -> Nat] /\ inbox' \in [Events -> Nat]
        /\ status' \in [Events -> EventStatus] /\ stored'[x] > 0
        /\ \A e \in Events \ {x} : stored'[e] = stored[e]
    BY <2>1, <2>4, EventWorker
  <2>6. StageOf(x, pc[t]) => Stage("inbox", stored'[x], inbox'[x], status'[x])
    BY <2>1, <2>4, <2>5 DEF StageOf, Stage, EventPCs
  <2>7. local[t].ingest \/ "inbox" \in ProcessingPCs => local[t].ingest \/ pc[t] \in ProcessingPCs
    BY DEF ProcessingPCs
  <2> QED BY <2>1, <2>2, <2>3, <2>4, <2>5, <2>6, <2>7, EventWork
<1>2. CASE AcceptEnqueue(t)
  <2>1. pc[t] = "inbox" /\ pc[t] \in EventPCs /\ "pending" \in EventPCs
    BY <1>2 DEF AcceptEnqueue, EventPCs
  <2>2. PICK x \in Events : x = local[t].obj
    BY <2>1, EventWorker
  <2>3. /\ Moves(t, "pending", local[t]) /\ raced' = raced /\ ThreadLocals("pending", local[t])
        /\ local[t] \in Locals
    BY <1>2, <2>1, EventWorker DEF AcceptEnqueue
  <2>4. /\ inbox' = [inbox EXCEPT ![x] = @ + 1]
        /\ UNCHANGED <<category, life, registry, queue, origin, attempts, decided, stored, status>>
    BY <1>2, <2>2 DEF AcceptEnqueue, governed, observed
  <2>5. /\ stored' \in [Events -> Nat] /\ inbox' \in [Events -> Nat]
        /\ status' \in [Events -> EventStatus] /\ inbox'[x] = inbox[x] + 1
        /\ \A e \in Events \ {x} : inbox'[e] = inbox[e]
    BY <2>1, <2>4, EventWorker
  <2>6. StageOf(x, pc[t]) => Stage("pending", stored'[x], inbox'[x], status'[x])
    BY <2>1, <2>4, <2>5 DEF StageOf, Stage, EventPCs
  <2>7. local[t].ingest \/ "pending" \in ProcessingPCs => local[t].ingest \/ pc[t] \in ProcessingPCs
    BY DEF ProcessingPCs
  <2> QED BY <2>1, <2>2, <2>3, <2>4, <2>5, <2>6, <2>7, EventWork
<1>3. CASE AcceptPending(t)
  <2>1. pc[t] = "pending" /\ pc[t] \in EventPCs /\ "lookup" \in EventPCs /\ "idle" \notin EventPCs
    BY <1>3 DEF AcceptPending, EventPCs
  <2>2. PICK x \in Events : x = local[t].obj
    BY <2>1, EventWorker
  <2>3. /\ status' = [status EXCEPT ![x] = "pending"]
        /\ UNCHANGED <<category, life, registry, queue, origin, attempts, decided, stored, inbox>>
    BY <1>3, <2>2 DEF AcceptPending, governed, observed
  <2>4. /\ stored' \in [Events -> Nat] /\ inbox' \in [Events -> Nat]
        /\ status' \in [Events -> EventStatus] /\ status'[x] = "pending"
        /\ \A e \in Events \ {x} : status'[e] = status[e]
    BY <2>1, <2>3, EventWorker DEF EventStatus
  <2>5. StageOf(x, pc[t]) => /\ Stage("lookup", stored'[x], inbox'[x], status'[x])
                             /\ Stage("idle", stored'[x], inbox'[x], status'[x])
    BY <2>1, <2>3, <2>4 DEF StageOf, Stage, EventPCs
  <2>6. "idle" \notin ProcessingPCs /\ "lookup" \notin ProcessingPCs
    BY DEF ProcessingPCs
  <2>7. CASE local[t].ingest
    <3>1. Moves(t, "lookup", local[t]) /\ raced' = raced /\ local[t] \in Locals
      BY <1>3, <2>1, <2>7, EventWorker DEF AcceptPending
    <3>2. ThreadLocals("lookup", local[t])
      BY <2>2, <2>7 DEF ThreadLocals, EventPCs, DecisionPCs, RequestPCs
    <3> QED BY <2>1, <2>2, <2>3, <2>4, <2>5, <2>6, <2>7, <3>1, <3>2, EventWork
  <2>8. CASE ~local[t].ingest
    <3>1. Moves(t, "idle", Resting) /\ raced' = raced /\ Resting \in Locals
          /\ ThreadLocals("idle", Resting) /\ ~Resting.ingest
      BY <1>3, <2>1, <2>8, EventWorker DEF AcceptPending
    <3> QED BY <2>1, <2>2, <2>3, <2>4, <2>5, <2>6, <3>1, EventWork
  <2> QED BY <2>7, <2>8
<1> QED BY <1>1, <1>2, <1>3

(* Processing an event, up to its plan.                                    *)
LEMMA ProcessKeepsFlow ==
  ASSUME FlowInv, NEW t \in Threads,
         IngestLookup(t) \/ MarkProcessing(t) \/ PipelineFails(t) \/ PipelineSucceeds(t)
  PROVE  FlowInv'
<1>1. CASE IngestLookup(t)
  <2>1. pc[t] = "lookup" /\ pc[t] \in EventPCs /\ "mark" \in EventPCs /\ "idle" \notin EventPCs
    BY <1>1 DEF IngestLookup, EventPCs
  <2>2. PICK x \in Events : x = local[t].obj
    BY <2>1, EventWorker
  <2>3. UNCHANGED <<category, life, registry, queue, origin, attempts, decided, stored, inbox, status>>
    BY <1>1 DEF IngestLookup, workflow, governed, observed
  <2>4. /\ stored' \in [Events -> Nat] /\ inbox' \in [Events -> Nat]
        /\ status' \in [Events -> EventStatus]
    BY <2>1, <2>3, EventWorker
  <2>5. local[t].ingest
    BY <2>1 DEF FlowInv, LocalsInv, ThreadLocals
  <2>6. "idle" \notin ProcessingPCs
    BY DEF ProcessingPCs
  <2>7. CASE Goto(t, "mark")
    <3>1. /\ Moves(t, "mark", local[t]) /\ raced' = raced /\ local[t] \in Locals
          /\ ThreadLocals("mark", local[t])
      BY <2>1, <2>7, EventWorker
    <3>2. StageOf(x, pc[t]) => Stage("mark", stored'[x], inbox'[x], status'[x])
      BY <2>1, <2>3 DEF StageOf, Stage, EventPCs
    <3> QED BY <2>1, <2>2, <2>3, <2>4, <2>5, <3>1, <3>2, EventWork
  <2>8. CASE Finish(t)
    <3>1. Moves(t, "idle", Resting) /\ raced' = raced /\ Resting \in Locals
          /\ ThreadLocals("idle", Resting) /\ ~Resting.ingest
      BY <2>1, <2>8, EventWorker
    <3>2. StageOf(x, pc[t]) => Stage("idle", stored'[x], inbox'[x], status'[x])
      BY <2>1, <2>3 DEF StageOf, Stage, EventPCs
    <3> QED BY <2>1, <2>2, <2>3, <2>4, <2>6, <3>1, <3>2, EventWork
  <2> QED BY <1>1, <2>7, <2>8 DEF IngestLookup
<1>2. CASE MarkProcessing(t)
  <2>1. /\ pc[t] = "mark" /\ pc[t] \in EventPCs /\ "pipeline" \in EventPCs
        /\ pc[t] \in ProcessingPCs
    BY <1>2 DEF MarkProcessing, EventPCs, ProcessingPCs
  <2>2. PICK x \in Events : x = local[t].obj
    BY <2>1, EventWorker
  <2>3. /\ status' = [status EXCEPT ![x] = "processing"]
        /\ UNCHANGED <<category, life, registry, queue, origin, attempts, decided, stored, inbox>>
    BY <1>2, <2>2 DEF MarkProcessing, governed, observed
  <2>4. /\ stored' \in [Events -> Nat] /\ inbox' \in [Events -> Nat]
        /\ status' \in [Events -> EventStatus] /\ status'[x] = "processing"
        /\ \A e \in Events \ {x} : status'[e] = status[e]
    BY <2>1, <2>3, EventWorker DEF EventStatus
  <2>5. /\ Moves(t, "pipeline", local[t]) /\ raced' = raced /\ local[t] \in Locals
        /\ ThreadLocals("pipeline", local[t])
    BY <1>2, <2>1, EventWorker DEF MarkProcessing
  <2>6. StageOf(x, pc[t]) => Stage("pipeline", stored'[x], inbox'[x], status'[x])
    BY <2>1, <2>3, <2>4 DEF StageOf, Stage, EventPCs
  <2> QED BY <2>1, <2>2, <2>3, <2>4, <2>5, <2>6, EventWork
<1>3. CASE PipelineFails(t)
  <2>1. /\ pc[t] = "pipeline" /\ pc[t] \in EventPCs /\ "idle" \notin EventPCs
        /\ "idle" \notin ProcessingPCs
    BY <1>3 DEF PipelineFails, EventPCs, ProcessingPCs
  <2>2. PICK x \in Events : x = local[t].obj
    BY <2>1, EventWorker
  <2>3. /\ status' = [status EXCEPT ![x] = "failed"]
        /\ UNCHANGED <<category, life, registry, queue, origin, attempts, decided, stored, inbox>>
    BY <1>3, <2>2 DEF PipelineFails, governed, observed
  <2>4. /\ stored' \in [Events -> Nat] /\ inbox' \in [Events -> Nat]
        /\ status' \in [Events -> EventStatus] /\ status'[x] = "failed"
        /\ \A e \in Events \ {x} : status'[e] = status[e]
    BY <2>1, <2>3, EventWorker DEF EventStatus
  <2>5. Moves(t, "idle", Resting) /\ raced' = raced /\ Resting \in Locals
        /\ ThreadLocals("idle", Resting) /\ ~Resting.ingest
    BY <1>3, <2>1, EventWorker DEF PipelineFails
  <2>6. StageOf(x, pc[t]) => Stage("idle", stored'[x], inbox'[x], status'[x])
    BY <2>1, <2>3, <2>4, EventWorker DEF StageOf, Stage, EventPCs
  <2> QED BY <2>1, <2>2, <2>3, <2>4, <2>5, <2>6, EventWork
<1>4. CASE PipelineSucceeds(t)
  <2>1. /\ pc[t] = "pipeline" /\ pc[t] \in EventPCs /\ "settle" \in EventPCs
        /\ pc[t] \in ProcessingPCs
    BY <1>4 DEF PipelineSucceeds, EventPCs, ProcessingPCs
  <2>2. PICK x \in Events : x = local[t].obj
    BY <2>1, EventWorker
  <2>3. /\ status' = [status EXCEPT ![x] = "processed"]
        /\ UNCHANGED <<category, life, registry, queue, origin, attempts, decided, stored, inbox>>
    BY <1>4, <2>2 DEF PipelineSucceeds, governed, observed
  <2>4. /\ stored' \in [Events -> Nat] /\ inbox' \in [Events -> Nat]
        /\ status' \in [Events -> EventStatus] /\ status'[x] = "processed"
        /\ \A e \in Events \ {x} : status'[e] = status[e]
    BY <2>1, <2>3, EventWorker DEF EventStatus
  <2>5. /\ Moves(t, "settle", local[t]) /\ raced' = raced /\ local[t] \in Locals
        /\ ThreadLocals("settle", local[t])
    BY <1>4, <2>1, EventWorker DEF PipelineSucceeds
  <2>6. StageOf(x, pc[t]) => Stage("settle", stored'[x], inbox'[x], status'[x])
    BY <2>1, <2>3, <2>4 DEF StageOf, Stage, EventPCs
  <2> QED BY <2>1, <2>2, <2>3, <2>4, <2>5, <2>6, EventWork
<1> QED BY <1>1, <1>2, <1>3, <1>4

(* Requests about events arrive.                                           *)
LEMMA ArrivalsKeepFlow ==
  ASSUME FlowInv, NEW t \in Threads, NEW e \in Events, NEW ingest \in BOOLEAN,
         AcceptCheck(t, e, ingest) \/ ProcessRequest(t, e)
  PROVE  FlowInv'
<1>1. CASE AcceptCheck(t, e, ingest)
  <2>1. /\ Begin(t, "append", e, ingest) /\ UNCHANGED <<workflow, governed, observed>>
        /\ stored[e] = 0
        /\ ingest => RoomToPlan
    BY <1>1 DEF AcceptCheck
  <2>2. "append" \in EventPCs /\ "append" \notin ProcessingPCs
    BY DEF EventPCs, ProcessingPCs
  <2>3. StageOf(e, "idle") => StageOf(e, "append")
    BY <2>1 DEF StageOf, Stage, EventPCs
  <2> QED BY <2>1, <2>2, <2>3, EventBegins
<1>2. CASE ProcessRequest(t, e)
  <2>1. /\ Begin(t, "mark", e, FALSE) /\ UNCHANGED <<workflow, governed, observed>>
        /\ stored[e] > 0 /\ status[e] \in {"none", "pending", "failed"} /\ RoomToPlan
    BY <1>2 DEF ProcessRequest, Processable
  <2>2. "mark" \in EventPCs /\ FALSE \in BOOLEAN
    BY DEF EventPCs
  <2>3. StageOf(e, "idle") => StageOf(e, "mark")
    BY <2>1 DEF StageOf, Stage, EventPCs
  <2> QED BY <2>1, <2>2, <2>3, EventBegins
<1> QED BY <1>1, <1>2

-----------------------------------------------------------------------------
(* The permission runtime's first lifecycle state of an Action.            *)
LEMMA FirstStates ==
  /\ FirstState("allowed") = "approved"
  /\ FirstState("requires_approval") = "queued"
  /\ FirstState("denied") = "rejected"
<1>1. FirstState("allowed") = "approved"
  BY Zenon DEF FirstState
<1>2. FirstState("requires_approval") = "queued"
  BY Zenon DEF FirstState
<1>3. FirstState("denied") = "rejected"
  BY Zenon DEF FirstState
<1> QED BY <1>1, <1>2, <1>3

(* An Action that has just been planned.                                   *)
LEMMA NewActionFits ==
  ASSUME TypeOK, NEW a \in ActionIds, ActionFits(a), life[a].status = "unplanned",
         NEW verdict \in Verdicts, life'[a].status = FirstState(verdict),
         life'[a].retries = life[a].retries, attempts'[a] = attempts[a],
         decided'[a] = {verdict},
         verdict = "requires_approval" => a \in registry',
         In(queue', a) <=> In(queue, a) \/ verdict = "allowed",
         ~In(queue, a) => Once(queue', a),
         \A u \in All : \/ pc'[u] = pc[u] /\ local'[u] = local[u]
                        \/ pc'[u] = "idle"
  PROVE  ActionFits(a)' /\ Located(a)' /\ OneCopy(a)' /\ CountFits(a)'
<1>1. /\ attempts[a] = 0 /\ life[a].retries = 0 /\ ~InQueue(a)
      /\ \A t \in Threads : ~Holds(t, a, DecisionPCs)
      /\ \A w \in Workers : ~Holds(w, a, HoldingPCs)
  BY DEF ActionFits
<1>2. Threads \subseteq All /\ Workers \subseteq All
  BY DEF All
<1>3. \A t \in Threads : ~Holds(t, a, DecisionPCs)'
  BY <1>1, <1>2 DEF Holds, DecisionPCs
<1>4. \A w \in Workers : ~Holds(w, a, HoldingPCs)'
  BY <1>1, <1>2 DEF Holds, HoldingPCs
<1>5. InQueue(a)' <=> verdict = "allowed"
  BY <1>1 DEF InQueue, In
<1>6. Once(queue', a)
  BY <1>1 DEF InQueue, In
<1>7. /\ verdict = "allowed" => life'[a].status = "approved"
      /\ verdict = "requires_approval" => life'[a].status = "queued"
      /\ verdict = "denied" => life'[a].status = "rejected"
      /\ verdict \in {"allowed", "requires_approval", "denied"}
  BY FirstStates DEF Verdicts
<1>8. /\ attempts'[a] = 0 /\ life'[a].retries = 0
  BY <1>1
<1>9. life'[a].status \in {"approved", "queued", "rejected"}
      /\ (life'[a].status = "approved" <=> verdict = "allowed")
      /\ (life'[a].status = "queued" <=> verdict = "requires_approval")
  BY <1>7
<1>10. ActionFits(a)'
  <2>1. verdict = "allowed" => Permitted(a)'
    BY DEF Permitted
  <2>2. \A t \in Threads : ~Holds(t, a, {"approve_queue"})'
    BY <1>3 DEF Holds, DecisionPCs
  <2>3. \A w \in Workers : ~Holds(w, a, HoldingPCs \ {"check"})'
    BY <1>4 DEF Holds
  <2>4. life'[a].status # "unplanned" /\ ~(attempts'[a] > 0)
    BY <1>8, <1>9
  <2>5. life'[a].status \in {"unplanned", "queued"} => ~InQueue(a)'
    BY <1>5, <1>9
  <2>6. life'[a].status \in {"approved", "executing", "completed", "skipped", "failed"} =>
          Permitted(a)'
    BY <1>9, <2>1
  <2> QED BY ONLY <1>4, <2>2, <2>3, <2>4, <2>5, <2>6 DEF ActionFits
<1>11. Located(a)'
  BY <1>5, <1>9 DEF Located
<1>12. OneCopy(a)'
  <2>1. \A t \in Threads : ~Holds(t, a, {"approve_queue"})'
    BY <1>3 DEF Holds, DecisionPCs
  <2> QED BY <1>4, <1>6, <2>1 DEF OneCopy, Once
<1>13. CountFits(a)'
  <2>1. \A w \in Workers : /\ ~Holds(w, a, {"check", "execute_set"})'
                           /\ ~Holds(w, a, {"execute"})' /\ ~Holds(w, a, {"retry"})'
                           /\ ~Holds(w, a, {"execute_set", "execute", "retry"})'
    BY <1>4 DEF Holds, HoldingPCs
  <2>2. \A t \in Threads : /\ ~Holds(t, a, {"approve_queue"})'
                           /\ ~Holds(t, a, {"approve_set", "reject_set"})'
    BY <1>3 DEF Holds, DecisionPCs
  <2>3. "rejected" \notin decided'[a]
    BY <1>7
  <2> QED BY <1>5, <1>8, <1>9, <2>1, <2>2, <2>3 DEF CountFits
<1> QED BY <1>10, <1>11, <1>12, <1>13

(* The plan of an event and the permission for it.                         *)
LEMMA SettleKeepsFlow ==
  ASSUME FlowInv, NEW t \in Threads, Settle(t)
  PROVE  FlowInv'
<1>1. /\ pc[t] = "settle" /\ pc[t] \in EventPCs /\ pc[t] \in ProcessingPCs
      /\ "idle" \notin EventPCs /\ "idle" \notin ProcessingPCs /\ "idle" \in PCs
      /\ "idle" \notin DecisionPCs \cup HoldingPCs /\ "idle" \notin RequestPCs
      /\ pc[t] \notin DecisionPCs \cup HoldingPCs /\ EventPCs \subseteq RequestPCs
  BY DEF Settle, EventPCs, ProcessingPCs, PCs, DecisionPCs, HoldingPCs, RequestPCs
<1>2. PICK x \in Events : x = local[t].obj
  BY <1>1, EventWorker
<1>3. /\ inbox' = [inbox EXCEPT ![x] = IF @ > 0 THEN @ - 1 ELSE 0]
      /\ UNCHANGED <<category, stored, status>>
  BY <1>2 DEF Settle
<1>4. PICK verdict \in Verdicts : PlanAndPermit(x, verdict)
  BY <1>2 DEF Settle
<1>5. Moves(t, "idle", Resting) /\ raced' = raced /\ Resting \in Locals
      /\ ThreadLocals("idle", Resting) /\ ~Resting.ingest /\ t \in All
  BY <1>1, EventWorker DEF Settle
<1>6. /\ stored' \in [Events -> Nat] /\ inbox' \in [Events -> Nat]
      /\ status' \in [Events -> EventStatus]
      /\ inbox'[x] = IF inbox[x] > 0 THEN inbox[x] - 1 ELSE 0
      /\ \A e \in Events \ {x} : inbox'[e] = inbox[e]
  BY <1>1, <1>3, EventWorker
<1>7. StageOf(x, pc[t]) => Stage("idle", stored'[x], inbox'[x], status'[x])
  BY <1>1, <1>3, <1>6 DEF StageOf, Stage, EventPCs
<1>8. CASE ~Plans(x)
  <2>1. UNCHANGED <<category, life, registry, queue, origin, attempts, decided>>
    BY <1>3, <1>4, <1>8 DEF PlanAndPermit, governed, observed
  <2> QED BY <1>1, <1>2, <1>3, <1>5, <1>6, <1>7, <2>1, EventWork
<1>9. CASE Plans(x)
  <2>1. TypeOK /\ LocalsInv /\ NumbersFit /\ Exclusive /\ EventsInv /\ ActionsInv
    BY DEF FlowInv
  <2>2. t \in Processing
    BY <1>1 DEF Processing
  <2>3. PICK a \in ActionIds : a = Cardinality(Planned) + 1 /\ life[a].status = "unplanned"
    BY <2>1, <2>2, NextNumber
  <2>4. /\ life' = [life EXCEPT ![a].status = FirstState(verdict)]
        /\ registry' = IF verdict = "requires_approval" THEN registry \cup {a} ELSE registry
        /\ queue' = IF queueable(verdict) THEN Append(queue, a) ELSE queue
        /\ origin' = [origin EXCEPT ![a] = x]
        /\ decided' = [decided EXCEPT ![a] = {verdict}]
        /\ UNCHANGED attempts
    BY <1>4, <1>9, <2>3 DEF PlanAndPermit
  <2>5. /\ pc' \in [All -> PCs] /\ local' \in [All -> Locals]
        /\ pc'[t] = "idle" /\ local'[t] = Resting
        /\ \A u \in All : u # t => pc'[u] = pc[u] /\ local'[u] = local[u]
    BY <1>1, <1>5, <2>1, MovesApart
  <2>6. ActionFits(a)
    BY <2>1 DEF ActionsInv
  <2>7. origin[a] = NoOne /\ origin \in [ActionIds -> Events \cup {NoOne}]
        /\ life \in [ActionIds -> [status : LifeStatus, retries : 0..MaxTransientRetries]]
        /\ queue \in Seq(ActionIds) /\ registry \subseteq ActionIds
        /\ decided \in [ActionIds -> SUBSET (Verdicts \cup {"approved", "rejected"})]
    BY <2>1, <2>3, <2>6 DEF ActionFits, TypeOK
  <2>8. FirstState(verdict) \in LifeStatus /\ FirstState(verdict) # "unplanned"
    BY FirstStates DEF Verdicts, LifeStatus
  <2>9. /\ life'[a].status = FirstState(verdict) /\ life'[a].retries = life[a].retries
        /\ \A b \in ActionIds : b # a => life'[b] = life[b]
        /\ life' \in [ActionIds -> [status : LifeStatus, retries : 0..MaxTransientRetries]]
    BY <2>4, <2>7, <2>8
  <2>10. /\ origin'[a] = x /\ \A b \in ActionIds : b # a => origin'[b] = origin[b]
         /\ origin' \in [ActionIds -> Events \cup {NoOne}]
    BY <2>4, <2>7
  <2>11. /\ queue' \in Seq(ActionIds)
         /\ \A b : In(queue', b) <=> In(queue, b) \/ (b = a /\ verdict = "allowed")
         /\ \A b : Once(queue, b) /\ (b = a => ~In(queue, b)) => Once(queue', b)
    <3>1. CASE verdict = "allowed"
      <4>1. queue' = Append(queue, a)
        BY <2>4, <3>1 DEF queueable
      <4> QED BY <2>7, <3>1, <4>1, QueueGrows
    <3>2. CASE verdict # "allowed"
      BY <2>4, <2>7, <3>2 DEF queueable
    <3> QED BY <3>1, <3>2
  <2>12. /\ decided'[a] = {verdict} /\ \A b \in ActionIds : b # a => decided'[b] = decided[b]
         /\ decided' \in [ActionIds -> SUBSET (Verdicts \cup {"approved", "rejected"})]
    BY <2>4, <2>7
  <2>13. TypeOK'
    <3>1. registry' \subseteq ActionIds
      BY <2>4, <2>7
    <3> QED BY <1>3, <1>5, <1>6, <2>1, <2>4, <2>5, <2>9, <2>10, <2>11, <2>12, <3>1
           DEF TypeOK, PCs, EventStatus
  <2>14. LocalsInv'
    BY <1>1, <1>5, <2>1, ThreadKeepsLocals
  <2>15. Exclusive'
    BY <1>1, <1>5, <2>1, StepsKeepExclusive
  <2>16. NumbersFit'
    <3>1. Processing' \subseteq Processing \ {t}
      <4>1. Threads \subseteq All
        BY DEF All
      <4> QED BY <1>1, <1>5, <2>5, <4>1 DEF Processing, ProcessingPCs
    <3>2. Planned' = Planned \cup {a}
      BY <2>8, <2>9 DEF Planned
    <3> QED BY <2>1, <2>2, <2>3, <3>1, <3>2, NumbersTaken
  <2>17. EventsInv'
    <3>1. \A u \in Threads : u # t => pc'[u] = pc[u] /\ local'[u] = local[u]
      BY <2>5 DEF All
    <3>2. x # NoOne /\ \A e \in Events : e # NoOne
      BY EventFlowConstants DEF NoOne
    <3>3. ASSUME NEW e \in Events \ raced', e # x PROVE EventFits(e)'
      <4>1. EventFits(e)
        BY <1>5, <2>1, <3>3 DEF EventsInv
      <4>2. \A u \in Threads :
               \/ pc'[u] = pc[u] /\ local'[u].obj = local[u].obj
               \/ /\ ~(pc[u] \in EventPCs /\ local[u].obj = e)
                  /\ ~(pc'[u] \in EventPCs /\ local'[u].obj = e)
        BY <1>1, <1>2, <2>5, <3>1, <3>3
      <4>3. \A b \in ActionIds : origin'[b] = e <=> origin[b] = e
        BY <2>7, <2>10, <3>2, <3>3
      <4> QED BY <1>3, <1>6, <3>3, <4>1, <4>2, <4>3, EventUntouched
    <3>4. ASSUME x \notin raced' PROVE EventFits(x)'
      <4>1. \A u \in Threads \ {t} : ~(pc[u] \in EventPCs /\ local[u].obj = x)
        BY <1>1, <1>2, <1>5, <2>1, <3>4 DEF Exclusive
      <4>2. EventFits(x)
        BY <1>5, <2>1, <3>4 DEF EventsInv
      <4>3. StageOf(x, pc[t]) /\ \A b \in ActionIds : origin[b] # x
        BY <1>1, <1>2, <4>1, <4>2, EventIsStaged
      <4>4. StageOf(x, pc[t])'
        BY <1>7, <2>5, <4>3 DEF StageOf, Stage
      <4>5. \A u \in Threads \ {t} : ~(pc'[u] \in EventPCs /\ local'[u].obj = x)
        BY <3>1, <4>1
      <4>6. status'[x] = "processed" /\ pc'[t] \notin EventPCs
        BY <1>1, <1>3, <2>5, <4>3 DEF StageOf, Stage
      <4>7. \A b \in ActionIds : origin'[b] = x => b = a
        BY <2>10, <4>3
      <4> QED BY <4>4, <4>5, <4>6, <4>7, StagedEventFits
    <3> QED BY <3>3, <3>4 DEF EventsInv
  <2>18. ActionsInv'
    <3>1. ActionFits(a)' /\ Located(a)' /\ OneCopy(a)' /\ CountFits(a)'
      <4>1. In(queue', a) <=> In(queue, a) \/ verdict = "allowed"
        BY <2>11
      <4>2. ~In(queue, a) => Once(queue', a)
        <5>1. ~In(queue, a) => Once(queue, a)
          BY DEF In, Once
        <5> QED BY <2>11, <5>1
      <4>3. \A u \in All : \/ pc'[u] = pc[u] /\ local'[u] = local[u]
                           \/ pc'[u] = "idle"
        BY <2>5
      <4>4. verdict = "requires_approval" => a \in registry'
        BY <2>4
      <4> QED BY <2>1, <2>3, <2>4, <2>6, <2>9, <2>12, <4>1, <4>2, <4>3, <4>4, NewActionFits
    <3>2. ASSUME NEW b \in ActionIds, b # a
          PROVE  /\ ActionFits(b) => ActionFits(b)'
                 /\ Located(b) => Located(b)'
                 /\ OneCopy(b) => OneCopy(b)'
                 /\ CountFits(b) => CountFits(b)'
      <4>1. \A u \in All :
               \/ pc'[u] = pc[u] /\ local'[u] = local[u]
               \/ /\ ~(pc[u] \in DecisionPCs \cup HoldingPCs /\ local[u].obj = b)
                  /\ ~(pc'[u] \in DecisionPCs \cup HoldingPCs /\ local'[u].obj = b)
        BY <1>1, <2>5
      <4>2. b \in registry' <=> b \in registry
        BY <2>4, <3>2
      <4>3. (In(queue', b) <=> In(queue, b)) /\ (Once(queue, b) => Once(queue', b))
        BY <2>11, <3>2
      <4>4. /\ life'[b] = life[b] /\ attempts'[b] = attempts[b]
            /\ decided'[b] = decided[b] /\ origin'[b] = origin[b]
        BY <2>4, <2>9, <2>10, <2>12, <3>2
      <4> QED BY <4>1, <4>2, <4>3, <4>4, ActionUntouched
    <3> QED BY <1>5, <2>1, <3>1, <3>2 DEF ActionsInv
  <2> QED BY <2>13, <2>14, <2>15, <2>16, <2>17, <2>18 DEF FlowInv
<1> QED BY <1>8, <1>9

-----------------------------------------------------------------------------
Lives == [status : LifeStatus, retries : 0..MaxTransientRetries]
Decisions == SUBSET (Verdicts \cup {"approved", "rejected"})

(* All that a step about Action a has to show.                             *)
LEMMA ActionWork ==
  ASSUME FlowInv, NEW t \in All, NEW p \in PCs, NEW l \in Locals, Moves(t, p, l),
         NEW a \in ActionIds,
         UNCHANGED <<category, stored, inbox, status, origin>>,
         raced \subseteq raced', raced' \subseteq raced \cup {a},
         t \in Threads => /\ ThreadLocals(p, l) /\ pc[t] \notin EventPCs /\ p \notin EventPCs
                          /\ l.ingest => local[t].ingest,
         t \in Workers => WorkerLocals(p, l),
         Exclusive',
         life' \in [ActionIds -> Lives], registry' \subseteq ActionIds,
         queue' \in Seq(ActionIds), attempts' \in [ActionIds -> Nat],
         decided' \in [ActionIds -> Decisions],
         \A b \in ActionIds \ {a} :
           /\ life'[b] = life[b] /\ attempts'[b] = attempts[b] /\ decided'[b] = decided[b]
           /\ b \in registry' <=> b \in registry
           /\ In(queue', b) <=> In(queue, b)
           /\ Once(queue, b) => Once(queue', b),
         pc[t] \in DecisionPCs \cup HoldingPCs => local[t].obj = a,
         p \in DecisionPCs \cup HoldingPCs => l.obj = a,
         life[a].status # "unplanned", life'[a].status # "unplanned",
         ActionFits(a)', Located(a)',
         a \notin raced' => OneCopy(a)' /\ CountFits(a)'
  PROVE  FlowInv'
<1>1. TypeOK /\ LocalsInv /\ NumbersFit /\ EventsInv /\ ActionsInv
  BY DEF FlowInv
<1>2. /\ pc' \in [All -> PCs] /\ local' \in [All -> Locals] /\ pc'[t] = p /\ local'[t] = l
      /\ \A u \in All : u # t => pc'[u] = pc[u] /\ local'[u] = local[u]
  BY <1>1, MovesApart
<1>3. TypeOK'
  BY <1>1, <1>2 DEF TypeOK, PCs, Lives, Decisions
<1>4. LocalsInv'
  <2>1. CASE t \in Threads
    BY <1>1, <2>1, ThreadKeepsLocals
  <2>2. CASE t \in Workers
    BY <1>1, <2>2, WorkerKeepsLocals
  <2> QED BY <2>1, <2>2 DEF All
<1>5. NumbersFit'
  <2>1. Planned' = Planned
    BY DEF Planned
  <2>2. Processing' \subseteq Processing
    <3>1. Threads \subseteq All
      BY DEF All
    <3>2. {"mark", "pipeline", "settle"} \subseteq EventPCs
      BY DEF EventPCs
    <3> QED BY <1>2, <3>1, <3>2 DEF Processing
  <2> QED BY <1>1, <2>1, <2>2, NumbersKept
<1>6. EventsInv'
  BY EventsUntouched
<1>7. ActionsInv'
  <2>1. ASSUME NEW b \in ActionIds, b # a
        PROVE  /\ ActionFits(b) => ActionFits(b)'
               /\ Located(b) => Located(b)'
               /\ OneCopy(b) => OneCopy(b)'
               /\ CountFits(b) => CountFits(b)'
    <3>1. \A u \in All :
             \/ pc'[u] = pc[u] /\ local'[u] = local[u]
             \/ /\ ~(pc[u] \in DecisionPCs \cup HoldingPCs /\ local[u].obj = b)
                /\ ~(pc'[u] \in DecisionPCs \cup HoldingPCs /\ local'[u].obj = b)
      BY <1>2, <2>1
    <3>2. /\ life'[b] = life[b] /\ attempts'[b] = attempts[b] /\ decided'[b] = decided[b]
          /\ b \in registry' <=> b \in registry
          /\ In(queue', b) <=> In(queue, b)
          /\ Once(queue, b) => Once(queue', b)
      BY <2>1
    <3> QED BY <3>1, <3>2, ActionUntouched
  <2> QED BY <1>1, <2>1 DEF ActionsInv
<1> QED BY <1>3, <1>4, <1>5, <1>6, <1>7 DEF FlowInv

(* What is known of a planned Action.                                      *)
LEMMA ActionKnown ==
  ASSUME FlowInv, NEW a \in ActionIds
  PROVE  /\ ActionFits(a) /\ Located(a)
         /\ a \notin raced => OneCopy(a) /\ CountFits(a)
         /\ TypeOK /\ LocalsInv /\ Exclusive
         /\ life \in [ActionIds -> Lives] /\ registry \subseteq ActionIds
         /\ queue \in Seq(ActionIds) /\ attempts \in [ActionIds -> Nat]
         /\ decided \in [ActionIds -> Decisions]
BY DEF FlowInv, ActionsInv, TypeOK, Lives, Decisions

(* An operator decides on an Action that awaits approval.                  *)
LEMMA DecideKeepsFlow ==
  ASSUME FlowInv, NEW t \in Threads, NEW a \in ActionIds,
         NEW decision \in {"approve_set", "reject_set"}, Decide(t, a, decision)
  PROVE  FlowInv'
<1>1. /\ ActionFits(a) /\ Located(a) /\ TypeOK /\ LocalsInv /\ Exclusive
      /\ a \notin raced => OneCopy(a) /\ CountFits(a)
      /\ life \in [ActionIds -> Lives] /\ registry \subseteq ActionIds
      /\ queue \in Seq(ActionIds) /\ attempts \in [ActionIds -> Nat]
      /\ decided \in [ActionIds -> Decisions]
  BY ActionKnown
<1>2. /\ life[a].status = "queued" /\ Begin(t, decision, a, FALSE) /\ pc[t] = "idle"
      /\ UNCHANGED <<category, stored, inbox, status>> /\ UNCHANGED <<life, registry, queue>>
      /\ UNCHANGED <<origin, attempts, decided>>
  BY DEF Decide, Begin, workflow, governed, observed
<1>3. /\ decision \in RequestPCs /\ decision \in DecisionPCs /\ decision \in PCs
      /\ decision \notin EventPCs /\ pc[t] \notin EventPCs \cup DecisionPCs \cup HoldingPCs
      /\ FALSE \in BOOLEAN
  BY <1>2 DEF RequestPCs, DecisionPCs, PCs, EventPCs, HoldingPCs
<1>4. PICK l \in Locals :
        /\ Moves(t, decision, l) /\ l.obj = a /\ l.ingest = FALSE
        /\ raced \subseteq raced' /\ raced' \subseteq raced \cup {a}
        /\ \A u \in Threads : pc[u] \in RequestPCs /\ local[u].obj = a => a \in raced'
  BY <1>1, <1>2, <1>3, BeginShape
<1>5. Exclusive'
  BY <1>1, <1>3, <1>4, BeginKeepsExclusive
<1>6. ThreadLocals(decision, l) /\ t \in All /\ t \notin Workers
  BY <1>3, <1>4, EventFlowConstants DEF ThreadLocals, DecisionPCs, EventPCs, RequestPCs, All
<1>7. /\ pc'[t] = decision /\ local'[t] = l
      /\ \A u \in All : u # t => pc'[u] = pc[u] /\ local'[u] = local[u]
  BY <1>1, <1>3, <1>4, <1>6, MovesApart
<1>8. Threads \subseteq All /\ Workers \subseteq All /\ t \notin Workers
  BY <1>6 DEF All
<1>9. InQueue(a)' <=> InQueue(a)
  BY <1>2 DEF InQueue
<1>10. \A w \in Workers : pc'[w] = pc[w] /\ local'[w] = local[w]
  BY <1>7, <1>8
<1>11. \A u \in Threads : Holds(u, a, {"approve_queue"})' <=> Holds(u, a, {"approve_queue"})
  BY <1>3, <1>7, <1>8 DEF Holds, DecisionPCs
<1>12. ActionFits(a)'
  BY <1>1, <1>2, <1>9, <1>10, <1>11 DEF ActionFits, Holds, Permitted
<1>13. Located(a)'
  BY <1>1, <1>2 DEF Located
<1>14. ASSUME a \notin raced' PROVE OneCopy(a)' /\ CountFits(a)'
  <2>1. OneCopy(a) /\ CountFits(a)
    BY <1>1, <1>4, <1>14
  <2>2. OneCopy(a)'
    BY <1>2, <1>9, <1>10, <1>11, <2>1 DEF OneCopy, Holds, Once
  <2>3. \A u \in Threads : Holds(u, a, {"approve_set", "reject_set"})' => life[a].status = "queued"
    BY <1>2
  <2>4. CountFits(a)'
    BY <1>2, <1>9, <1>10, <1>11, <2>1, <2>3 DEF CountFits, Holds
  <2> QED BY <2>2, <2>4
<1> QED BY <1>1, <1>2, <1>3, <1>4, <1>5, <1>6, <1>12, <1>13, <1>14, ActionWork

(* The thread that decides on an Action, and what its step leaves alone.   *)
LEMMA Decider ==
  ASSUME FlowInv, NEW t \in Threads, pc[t] \in DecisionPCs, NEW p \in DecisionPCs \cup {"idle"},
         Goto(t, p) \/ (Finish(t) /\ p = "idle")
  PROVE  \E l \in Locals, a \in ActionIds :
           /\ a = local[t].obj /\ life[a].status # "unplanned"
           /\ Moves(t, p, l) /\ raced' = raced /\ Exclusive'
           /\ t \in All /\ t \notin Workers /\ p \in PCs
           /\ (p # "idle" => l.obj = a /\ Goto(t, p))
           /\ pc[t] \notin EventPCs /\ p \notin EventPCs
           /\ (Goto(t, p) => l = local[t]) /\ (Finish(t) => l = Resting)
           /\ pc'[t] = p /\ local'[t] = l
           /\ \A u \in All : u # t => pc'[u] = pc[u] /\ local'[u] = local[u]
           /\ a \notin raced => \A u \in Threads : u # t => ~Holds(u, a, DecisionPCs)
<1>1. TypeOK /\ LocalsInv /\ Exclusive /\ ActionsInv
  BY DEF FlowInv
<1>2. /\ t \in All /\ t \notin Workers /\ p \in PCs /\ local[t] \in Locals
      /\ pc[t] \notin EventPCs /\ p \notin EventPCs /\ DecisionPCs \subseteq RequestPCs
      /\ "idle" \notin RequestPCs
  BY <1>1, EventFlowConstants DEF All, TypeOK, PCs, DecisionPCs, EventPCs, RequestPCs
<1>3. PICK a \in ActionIds : a = local[t].obj
  BY <1>1 DEF LocalsInv, ThreadLocals
<1>4. life[a].status # "unplanned"
  BY <1>1, <1>3 DEF ActionsInv, ActionFits, Holds
<1>5. a \notin raced => \A u \in Threads : u # t => ~Holds(u, a, DecisionPCs)
  BY <1>1, <1>2, <1>3 DEF Exclusive, Holds
<1>6. PICK l \in Locals : /\ Moves(t, p, l) /\ raced' = raced
                          /\ (Goto(t, p) => l = local[t]) /\ (Finish(t) => l = Resting)
                          /\ (p # "idle" => l.obj = a /\ Goto(t, p))
  <2>1. CASE Goto(t, p) /\ ~Finish(t)
    BY <1>1, <1>2, <1>3, <2>1, ShapesOfMoves
  <2>2. CASE Finish(t) /\ p = "idle" /\ ~Goto(t, p)
    BY <1>1, <1>2, <2>2, ShapesOfMoves, RestingFits
  <2>3. CASE Finish(t) /\ Goto(t, p)
    <3>1. pc'[t] = p /\ pc'[t] = "idle" /\ local'[t] = local[t] /\ local'[t] = Resting
      BY <1>1, <1>2, <2>3 DEF Finish, Goto, TypeOK
    <3> QED BY <1>1, <1>2, <2>3, <3>1, ShapesOfMoves, RestingFits
  <2> QED BY <2>1, <2>2, <2>3
<1>7. /\ pc'[t] = p /\ local'[t] = l
      /\ \A u \in All : u # t => pc'[u] = pc[u] /\ local'[u] = local[u]
  BY <1>1, <1>2, <1>6, MovesApart
<1>8. Exclusive'
  <2>1. p \in RequestPCs => pc[t] \in RequestPCs /\ l.obj = local[t].obj
    BY <1>2, <1>3, <1>6
  <2> QED BY <1>1, <1>2, <1>6, <2>1, StepsKeepExclusive
<1> QED BY <1>2, <1>3, <1>4, <1>5, <1>6, <1>7, <1>8

(* The approval endpoint writes the approved state.                        *)
LEMMA ApproveSetKeepsFlow ==
  ASSUME FlowInv, NEW t \in Threads, ApproveSet(t)
  PROVE  FlowInv'
<1>1. pc[t] \in DecisionPCs /\ "approve_queue" \in DecisionPCs \cup {"idle"}
      /\ Goto(t, "approve_queue") /\ "approve_queue" # "idle" /\ pc[t] = "approve_set"
  BY DEF ApproveSet, DecisionPCs
<1>2. PICK l \in Locals, a \in ActionIds :
           /\ a = local[t].obj /\ life[a].status # "unplanned"
           /\ Moves(t, "approve_queue", l) /\ raced' = raced /\ Exclusive'
           /\ t \in All /\ t \notin Workers /\ "approve_queue" \in PCs
           /\ l.obj = a /\ l = local[t]
           /\ pc[t] \notin EventPCs /\ "approve_queue" \notin EventPCs
           /\ pc'[t] = "approve_queue" /\ local'[t] = l
           /\ \A u \in All : u # t => pc'[u] = pc[u] /\ local'[u] = local[u]
           /\ a \notin raced => \A u \in Threads : u # t => ~Holds(u, a, DecisionPCs)
  BY <1>1, Decider
<1>3. /\ ActionFits(a) /\ Located(a) /\ TypeOK /\ LocalsInv
      /\ a \notin raced => OneCopy(a) /\ CountFits(a)
      /\ life \in [ActionIds -> Lives] /\ registry \subseteq ActionIds
      /\ queue \in Seq(ActionIds) /\ attempts \in [ActionIds -> Nat]
      /\ decided \in [ActionIds -> Decisions]
  BY ActionKnown
<1>4. /\ life' = [life EXCEPT ![a] = [status |-> "approved", retries |-> 0]]
      /\ decided' = [decided EXCEPT ![a] = @ \cup {"approved"}]
      /\ UNCHANGED <<category, stored, inbox, status, origin>>
      /\ UNCHANGED <<registry, queue, attempts>>
  BY <1>2 DEF ApproveSet, workflow
<1>5. /\ life' \in [ActionIds -> Lives] /\ life'[a].status = "approved" /\ life'[a].retries = 0
      /\ \A b \in ActionIds \ {a} : life'[b] = life[b]
  <2>1. [status |-> "approved", retries |-> 0] \in Lives
    BY EventFlowConstants DEF Lives, LifeStatus
  <2> QED BY <1>3, <1>4, <2>1
<1>6. /\ decided' \in [ActionIds -> Decisions] /\ decided'[a] = decided[a] \cup {"approved"}
      /\ \A b \in ActionIds \ {a} : decided'[b] = decided[b]
  BY <1>3, <1>4 DEF Decisions
<1>7. Permitted(a)'
  BY <1>6 DEF Permitted
<1>8. Threads \subseteq All /\ Workers \subseteq All
  BY DEF All
<1>9. \A w \in Workers : pc'[w] = pc[w] /\ local'[w] = local[w]
  BY <1>2, <1>8
<1>10. ActionFits(a)'
  BY <1>5, <1>7 DEF ActionFits
<1>11. Located(a)'
  BY <1>2, <1>5 DEF Located, Holds
<1>12. ASSUME a \notin raced' PROVE OneCopy(a)' /\ CountFits(a)'
  <2>1. /\ OneCopy(a) /\ CountFits(a)
        /\ \A u \in Threads : u # t => ~Holds(u, a, DecisionPCs)'
    BY <1>2, <1>3, <1>8, <1>12 DEF Holds
  <2>2. life[a].status = "queued"
    BY <1>1, <1>2, <2>1 DEF CountFits, Holds
  <2>3. ~InQueue(a) /\ attempts[a] = 0 /\ \A w \in Workers : ~Holds(w, a, HoldingPCs)
    BY <1>3, <2>1, <2>2 DEF ActionFits, CountFits
  <2>4. ~InQueue(a)' /\ attempts'[a] = 0 /\ \A w \in Workers : ~Holds(w, a, HoldingPCs)'
    BY <1>4, <1>9, <2>3 DEF InQueue, Holds
  <2>5. OneCopy(a)'
    BY <1>4, <2>1, <2>4 DEF OneCopy, Once
  <2>6. "rejected" \notin decided'[a]
    BY <1>6, <2>1, <2>2 DEF CountFits
  <2>7. \A u \in Threads : ~Holds(u, a, {"approve_set", "reject_set"})'
    BY <1>2, <2>1 DEF Holds, DecisionPCs
  <2>8. CountFits(a)'
    BY <1>5, <2>4, <2>6, <2>7 DEF CountFits, Holds, HoldingPCs
  <2> QED BY <2>5, <2>8
<1>13. ThreadLocals("approve_queue", l) /\ (l.ingest => local[t].ingest)
      /\ life'[a].status # "unplanned"
  <2>1. ThreadLocals("approve_queue", l)
    BY <1>2 DEF ThreadLocals, RequestPCs, EventPCs
  <2>2. l.ingest => local[t].ingest
    BY <1>2, Zenon
  <2> QED BY <1>5, <2>1, <2>2
<1>14. \A b \in ActionIds \ {a} :
         /\ life'[b] = life[b] /\ attempts'[b] = attempts[b] /\ decided'[b] = decided[b]
         /\ b \in registry' <=> b \in registry
         /\ In(queue', b) <=> In(queue, b)
         /\ Once(queue, b) => Once(queue', b)
  BY <1>4, <1>5, <1>6
<1>15. registry' \subseteq ActionIds /\ queue' \in Seq(ActionIds) /\ attempts' \in [ActionIds -> Nat]
  BY <1>3, <1>4
<1>16. /\ t \in All /\ t \notin Workers /\ "approve_queue" \in PCs /\ Exclusive'
       /\ Moves(t, "approve_queue", l) /\ raced' = raced /\ life[a].status # "unplanned"
       /\ pc[t] \notin EventPCs /\ "approve_queue" \notin EventPCs
       /\ local[t].obj = a /\ l.obj = a
       /\ UNCHANGED <<category, stored, inbox, status, origin>>
       /\ life' \in [ActionIds -> Lives] /\ decided' \in [ActionIds -> Decisions]
  BY <1>2, <1>4, <1>5, <1>6
<1> QED BY ONLY FlowInv, <1>10, <1>11, <1>12, <1>13, <1>14, <1>15, <1>16, ActionWork

(* The approval endpoint queues the Action it approved.                    *)
LEMMA ApproveQueueKeepsFlow ==
  ASSUME FlowInv, NEW t \in Threads, ApproveQueue(t)
  PROVE  FlowInv'
<1>1. pc[t] \in DecisionPCs /\ "idle" \in DecisionPCs \cup {"idle"}
      /\ Finish(t) /\ pc[t] = "approve_queue"
  BY DEF ApproveQueue, DecisionPCs
<1>2. PICK l \in Locals, a \in ActionIds :
           /\ a = local[t].obj /\ life[a].status # "unplanned"
           /\ Moves(t, "idle", l) /\ raced' = raced /\ Exclusive'
           /\ t \in All /\ t \notin Workers /\ "idle" \in PCs /\ l = Resting
           /\ pc[t] \notin EventPCs /\ "idle" \notin EventPCs
           /\ pc'[t] = "idle" /\ local'[t] = l
           /\ \A u \in All : u # t => pc'[u] = pc[u] /\ local'[u] = local[u]
           /\ a \notin raced => \A u \in Threads : u # t => ~Holds(u, a, DecisionPCs)
  BY <1>1, Decider
<1>3. /\ ActionFits(a) /\ Located(a) /\ TypeOK /\ LocalsInv
      /\ a \notin raced => OneCopy(a) /\ CountFits(a)
      /\ life \in [ActionIds -> Lives] /\ registry \subseteq ActionIds
      /\ queue \in Seq(ActionIds) /\ attempts \in [ActionIds -> Nat]
      /\ decided \in [ActionIds -> Decisions]
  BY ActionKnown
<1>4. /\ registry' = registry \ {a} /\ queue' = Append(queue, a)
      /\ UNCHANGED <<category, stored, inbox, status, origin>>
      /\ UNCHANGED <<life, attempts, decided>>
  BY <1>2 DEF ApproveQueue, workflow, observed
<1>5. /\ queue' \in Seq(ActionIds)
      /\ \A b : In(queue', b) <=> In(queue, b) \/ b = a
      /\ \A b : Once(queue, b) /\ (b = a => ~In(queue, b)) => Once(queue', b)
  BY <1>3, <1>4, QueueGrows
<1>6. Threads \subseteq All /\ Workers \subseteq All /\ InQueue(a)'
      /\ "idle" \notin DecisionPCs \cup HoldingPCs
  BY <1>5 DEF All, In, InQueue, DecisionPCs, HoldingPCs
<1>7. \A w \in Workers : pc'[w] = pc[w] /\ local'[w] = local[w]
  BY <1>2, <1>6
<1>8. life[a].status # "queued" /\ life[a].status # "unplanned"
  BY <1>1, <1>2, <1>3 DEF ActionFits, Holds
<1>9. ActionFits(a)'
  BY <1>3, <1>4, <1>7, <1>8 DEF ActionFits, Permitted, Holds
<1>10. Located(a)'
  BY <1>3, <1>4, <1>6, <1>7, <1>8 DEF Located, Holds
<1>11. ASSUME a \notin raced' PROVE OneCopy(a)' /\ CountFits(a)'
  <2>1. /\ OneCopy(a) /\ CountFits(a)
        /\ \A u \in Threads : ~Holds(u, a, DecisionPCs)'
    BY <1>2, <1>3, <1>6, <1>11 DEF Holds
  <2>2. /\ life[a].status = "approved" /\ attempts[a] = life[a].retries /\ ~InQueue(a)
        /\ \A w \in Workers : ~Holds(w, a, HoldingPCs)
    BY <1>1, <1>2, <2>1 DEF CountFits, OneCopy, Holds
  <2>3. \A w \in Workers : ~Holds(w, a, HoldingPCs)'
    BY <1>7, <2>2 DEF Holds
  <2>4. OneCopy(a)'
    <3>1. Once(queue', a)
      BY <1>5, <2>1, <2>2 DEF OneCopy, InQueue, In
    <3> QED BY <2>1, <2>3, <3>1 DEF OneCopy, Holds, DecisionPCs
  <2>5. CountFits(a)'
    BY <1>4, <2>1, <2>2, <2>3 DEF CountFits, Holds, HoldingPCs, DecisionPCs
  <2> QED BY <2>4, <2>5
<1>12. ThreadLocals("idle", l) /\ l.ingest = FALSE
  BY <1>2, RestingFits DEF Resting
<1>13. \A b \in ActionIds \ {a} :
         /\ life'[b] = life[b] /\ attempts'[b] = attempts[b] /\ decided'[b] = decided[b]
         /\ b \in registry' <=> b \in registry
         /\ In(queue', b) <=> In(queue, b)
         /\ Once(queue, b) => Once(queue', b)
  BY <1>4, <1>5
<1> QED BY <1>1, <1>2, <1>3, <1>4, <1>5, <1>6, <1>8, <1>9, <1>10, <1>11, <1>12, <1>13, ActionWork

(* The rejection endpoint writes the rejected state.                       *)
LEMMA RejectSetKeepsFlow ==
  ASSUME FlowInv, NEW t \in Threads, RejectSet(t)
  PROVE  FlowInv'
<1>1. pc[t] \in DecisionPCs /\ "idle" \in DecisionPCs \cup {"idle"}
      /\ Finish(t) /\ pc[t] = "reject_set"
  BY DEF RejectSet, DecisionPCs
<1>2. PICK l \in Locals, a \in ActionIds :
           /\ a = local[t].obj /\ life[a].status # "unplanned"
           /\ Moves(t, "idle", l) /\ raced' = raced /\ Exclusive'
           /\ t \in All /\ t \notin Workers /\ "idle" \in PCs /\ l = Resting
           /\ pc[t] \notin EventPCs /\ "idle" \notin EventPCs
           /\ pc'[t] = "idle" /\ local'[t] = l
           /\ \A u \in All : u # t => pc'[u] = pc[u] /\ local'[u] = local[u]
           /\ a \notin raced => \A u \in Threads : u # t => ~Holds(u, a, DecisionPCs)
  BY <1>1, Decider
<1>3. /\ ActionFits(a) /\ Located(a) /\ TypeOK /\ LocalsInv
      /\ a \notin raced => OneCopy(a) /\ CountFits(a)
      /\ life \in [ActionIds -> Lives] /\ registry \subseteq ActionIds
      /\ queue \in Seq(ActionIds) /\ attempts \in [ActionIds -> Nat]
      /\ decided \in [ActionIds -> Decisions]
  BY ActionKnown
<1>4. /\ life' = [life EXCEPT ![a] = [status |-> "rejected", retries |-> 0]]
      /\ decided' = [decided EXCEPT ![a] = @ \cup {"rejected"}]
      /\ registry' = registry \ {a}
      /\ UNCHANGED <<category, stored, inbox, status, origin>>
      /\ UNCHANGED <<queue, attempts>>
  BY <1>2 DEF RejectSet, workflow
<1>5. /\ life' \in [ActionIds -> Lives] /\ life'[a].status = "rejected" /\ life'[a].retries = 0
      /\ \A b \in ActionIds \ {a} : life'[b] = life[b]
  <2>1. [status |-> "rejected", retries |-> 0] \in Lives
    BY EventFlowConstants DEF Lives, LifeStatus
  <2> QED BY <1>3, <1>4, <2>1
<1>6. /\ decided' \in [ActionIds -> Decisions] /\ decided'[a] = decided[a] \cup {"rejected"}
      /\ \A b \in ActionIds \ {a} : decided'[b] = decided[b]
  BY <1>3, <1>4 DEF Decisions
<1>7. Permitted(a) => Permitted(a)'
  BY <1>6 DEF Permitted
<1>8. Threads \subseteq All /\ Workers \subseteq All /\ "idle" \notin DecisionPCs \cup HoldingPCs
  BY DEF All, DecisionPCs, HoldingPCs
<1>9. \A w \in Workers : pc'[w] = pc[w] /\ local'[w] = local[w]
  BY <1>2, <1>8
<1>10. ActionFits(a)'
  BY <1>3, <1>4, <1>5, <1>7, <1>9 DEF ActionFits, Holds
<1>11. Located(a)'
  BY <1>5 DEF Located
<1>12. ASSUME a \notin raced' PROVE OneCopy(a)' /\ CountFits(a)'
  <2>1. /\ OneCopy(a) /\ CountFits(a)
        /\ \A u \in Threads : ~Holds(u, a, DecisionPCs)'
    BY <1>2, <1>3, <1>8, <1>12 DEF Holds
  <2>2. life[a].status = "queued"
    BY <1>1, <1>2, <2>1 DEF CountFits, Holds
  <2>3. ~InQueue(a) /\ attempts[a] = 0 /\ \A w \in Workers : ~Holds(w, a, HoldingPCs)
    BY <1>3, <2>1, <2>2 DEF ActionFits, CountFits
  <2>4. ~InQueue(a)' /\ attempts'[a] = 0 /\ \A w \in Workers : ~Holds(w, a, HoldingPCs)'
    BY <1>4, <1>9, <2>3 DEF InQueue, Holds
  <2>5. OneCopy(a)'
    BY <1>4, <2>1, <2>4 DEF OneCopy, Once
  <2>6. CountFits(a)'
    BY <1>5, <2>1, <2>4 DEF CountFits, Holds, HoldingPCs, DecisionPCs
  <2> QED BY <2>5, <2>6
<1>13. ThreadLocals("idle", l) /\ l.ingest = FALSE
  BY <1>2, RestingFits DEF Resting
<1>14. \A b \in ActionIds \ {a} :
         /\ life'[b] = life[b] /\ attempts'[b] = attempts[b] /\ decided'[b] = decided[b]
         /\ b \in registry' <=> b \in registry
         /\ In(queue', b) <=> In(queue, b)
         /\ Once(queue, b) => Once(queue', b)
  BY <1>4, <1>5, <1>6
<1>15. registry' \subseteq ActionIds /\ queue' \in Seq(ActionIds) /\ attempts' \in [ActionIds -> Nat]
  BY <1>3, <1>4
<1> QED BY <1>1, <1>2, <1>4, <1>5, <1>6, <1>8, <1>10, <1>11, <1>12, <1>13, <1>14, <1>15, ActionWork

-----------------------------------------------------------------------------
(* A worker whose Action is done rests or takes the next of its batch.     *)
LEMMA BatchShape ==
  ASSUME FlowInv, NEW w \in Workers, pc[w] \in HoldingPCs, NextOfBatch(w)
  PROVE  \E p \in {"idle", "dequeue"}, l \in Locals :
           Moves(w, p, l) /\ raced' = raced /\ WorkerLocals(p, l)
<1>1. TypeOK /\ LocalsInv /\ w \in All
  BY DEF FlowInv, All
<1>2. local[w] \in Locals /\ local[w].left > 0
  BY <1>1 DEF TypeOK, LocalsInv, WorkerLocals, WorkerPCs
<1>3. CASE local[w].left = 1
  <2>1. Finish(w)
    BY <1>3 DEF NextOfBatch
  <2> QED BY <1>1, <2>1, ShapesOfMoves, RestingFits
<1>4. CASE local[w].left # 1
  <2>1. PICK n \in 1..Batch : n = local[w].left - 1
    BY <1>2, <1>4, EventFlowConstants DEF Locals
  <2>2. PICK l : l = [Resting EXCEPT !.left = n]
    OBVIOUS
  <2>3. Moves(w, "dequeue", l) /\ raced' = raced
    BY <1>4, <2>1, <2>2 DEF NextOfBatch, Moves
  <2>4. n \in 0..Batch
    BY <2>1
  <2>5. l \in Locals /\ l.left = n
    BY <2>2, <2>4, RestingFits DEF Locals
  <2>6. WorkerLocals("dequeue", l)
    BY <2>1, <2>5, EventFlowConstants DEF WorkerLocals, WorkerPCs, HoldingPCs
  <2> QED BY <2>3, <2>5, <2>6
<1> QED BY <1>3, <1>4

(* The worker that handles an Action, and what its step leaves alone.      *)
LEMMA Handler ==
  ASSUME FlowInv, NEW w \in Workers, pc[w] \in HoldingPCs, NEW p \in PCs, NEW l \in Locals,
         Moves(w, p, l), raced' = raced
  PROVE  \E a \in ActionIds :
           /\ a = local[w].obj /\ life[a].status \notin {"unplanned", "queued"}
           /\ Exclusive' /\ w \in All /\ w \notin Threads
           /\ pc'[w] = p /\ local'[w] = l
           /\ \A v \in Workers : v # w => pc'[v] = pc[v] /\ local'[v] = local[v]
           /\ \A t \in Threads : pc'[t] = pc[t] /\ local'[t] = local[t]
           /\ a \notin raced =>
                /\ \A v \in Workers : v # w => ~Holds(v, a, HoldingPCs)
                /\ \A t \in Threads : ~Holds(t, a, DecisionPCs)
                /\ ~InQueue(a)
<1>1. TypeOK /\ LocalsInv /\ Exclusive /\ ActionsInv
  BY DEF FlowInv
<1>2. w \in All /\ w \notin Threads /\ Threads \subseteq All /\ Workers \subseteq All
  BY EventFlowConstants DEF All
<1>3. PICK a \in ActionIds : a = local[w].obj
  BY <1>1 DEF LocalsInv, WorkerLocals
<1>4. ActionFits(a) /\ Holds(w, a, HoldingPCs)
  BY <1>1, <1>3 DEF ActionsInv, Holds
<1>5. life[a].status \notin {"unplanned", "queued"}
  BY <1>4 DEF ActionFits
<1>6. /\ pc'[w] = p /\ local'[w] = l
      /\ \A u \in All : u # w => pc'[u] = pc[u] /\ local'[u] = local[u]
  BY <1>1, <1>2, MovesApart
<1>7. Exclusive'
  BY <1>1, WorkersKeepExclusive
<1>8. ASSUME a \notin raced
      PROVE  /\ \A v \in Workers : v # w => ~Holds(v, a, HoldingPCs)
             /\ \A t \in Threads : ~Holds(t, a, DecisionPCs)
             /\ ~InQueue(a)
  <2>1. OneCopy(a) /\ CountFits(a)
    BY <1>1, <1>8 DEF ActionsInv
  <2>2. ~InQueue(a) /\ \A v \in Workers : v # w => ~Holds(v, a, HoldingPCs)
    BY <1>4, <2>1 DEF OneCopy
  <2>3. \A t \in Threads : ~Holds(t, a, {"approve_queue"}) /\ ~Holds(t, a, {"approve_set", "reject_set"})
    BY <1>4, <1>5, <2>1 DEF OneCopy, CountFits
  <2>4. \A t \in Threads : ~Holds(t, a, DecisionPCs)
    BY <2>3 DEF Holds, DecisionPCs
  <2> QED BY <2>2, <2>4
<1>9. \A v \in Workers : v # w => pc'[v] = pc[v] /\ local'[v] = local[v]
  BY <1>2, <1>6
<1>10. \A t \in Threads : pc'[t] = pc[t] /\ local'[t] = local[t]
  BY <1>2, <1>6
<1> QED BY <1>2, <1>3, <1>5, <1>6, <1>7, <1>8, <1>9, <1>10

(* A worker that handles no Action takes a step of its own.                *)
LEMMA WorkerMoves ==
  ASSUME FlowInv, NEW w \in Workers, NEW p \in PCs, NEW l \in Locals, Moves(w, p, l),
         WorkerLocals(p, l), pc[w] \notin DecisionPCs \cup HoldingPCs,
         p \notin DecisionPCs \cup HoldingPCs, raced' = raced,
         UNCHANGED <<category, stored, inbox, status>>,
         UNCHANGED <<life, registry, queue, origin, attempts, decided>>
  PROVE  FlowInv'
<1>1. TypeOK /\ LocalsInv /\ Exclusive /\ NumbersFit /\ w \in All /\ w \notin Threads
  BY EventFlowConstants DEF FlowInv, All
<1>2. ActionsInv' /\ Planned' = Planned
  BY <1>1, ActionsUntouched
<1>3. EventsInv'
  BY <1>1, EventsUntouched
<1>4. LocalsInv' /\ Exclusive'
  BY <1>1, WorkerKeepsLocals, WorkersKeepExclusive
<1>5. /\ pc' \in [All -> PCs] /\ local' \in [All -> Locals]
      /\ \A u \in All : u # w => pc'[u] = pc[u] /\ local'[u] = local[u]
  BY <1>1, MovesApart
<1>6. Processing' \subseteq Processing
  <2>1. \A u \in Threads : pc'[u] = pc[u] /\ local'[u] = local[u]
    BY <1>1, <1>5 DEF All
  <2> QED BY <2>1 DEF Processing
<1>7. NumbersFit'
  BY <1>1, <1>2, <1>6, NumbersKept
<1>8. TypeOK'
  BY <1>1, <1>5 DEF TypeOK, PCs
<1> QED BY <1>2, <1>3, <1>4, <1>7, <1>8 DEF FlowInv

(* A worker is invoked.                                                    *)
LEMMA InvokeKeepsFlow ==
  ASSUME FlowInv, NEW w \in Workers, Invoke(w)
  PROVE  FlowInv'
<1>1. TypeOK /\ w \in All
  BY DEF FlowInv, All
<1>2. /\ pc[w] = "idle" /\ UNCHANGED <<category, stored, inbox, status>>
      /\ UNCHANGED <<life, registry, queue, origin, attempts, decided>> /\ raced' = raced
  BY DEF Invoke, workflow, governed, observed
<1>3. PICK l : l = [local[w] EXCEPT !.left = Batch]
  OBVIOUS
<1>4. Moves(w, "dequeue", l)
  BY <1>3 DEF Invoke, Moves
<1>5. l \in Locals /\ l.left = Batch
  <2>1. local[w] \in Locals /\ Batch \in 0..Batch
    BY <1>1, EventFlowConstants DEF TypeOK
  <2> QED BY <1>3, <2>1 DEF Locals
<1>6. WorkerLocals("dequeue", l) /\ "dequeue" \in PCs /\ "dequeue" \notin DecisionPCs \cup HoldingPCs
      /\ pc[w] \notin DecisionPCs \cup HoldingPCs
  BY <1>2, <1>5, EventFlowConstants DEF WorkerLocals, WorkerPCs, HoldingPCs, DecisionPCs, PCs
<1> QED BY <1>2, <1>4, <1>5, <1>6, WorkerMoves

(* A worker takes the first Action of the queue.                           *)
LEMMA DequeueKeepsFlow ==
  ASSUME FlowInv, NEW w \in Workers, DequeueAction(w)
  PROVE  FlowInv'
<1>1. TypeOK /\ LocalsInv /\ Exclusive /\ w \in All /\ w \notin Threads
      /\ Threads \subseteq All /\ Workers \subseteq All
  BY EventFlowConstants DEF FlowInv, All
<1>2. /\ pc[w] = "dequeue" /\ UNCHANGED <<category, stored, inbox, status>>
      /\ UNCHANGED <<life, registry, origin, attempts, decided>>
      /\ pc[w] \notin DecisionPCs \cup HoldingPCs /\ "idle" \notin DecisionPCs \cup HoldingPCs
      /\ "idle" \in PCs /\ "check" \in PCs /\ "check" \in HoldingPCs
  BY DEF DequeueAction, workflow, observed, HoldingPCs, DecisionPCs, PCs
<1>3. CASE queue = <<>>
  <2>1. Finish(w) /\ queue' = queue
    BY <1>3 DEF DequeueAction
  <2> QED BY <1>1, <1>2, <2>1, ShapesOfMoves, RestingFits, WorkerMoves
<1>4. CASE queue # <<>>
  <2>1. queue' = Tail(queue) /\ raced' = raced /\ queue \in Seq(ActionIds)
    BY <1>1, <1>4 DEF DequeueAction, TypeOK
  <2>2. PICK a \in ActionIds :
          /\ a = Head(queue) /\ queue' \in Seq(ActionIds)
          /\ \A b : In(queue, b) <=> In(queue', b) \/ b = a
          /\ \A b : Once(queue, b) => Once(queue', b) /\ (b = a => ~In(queue', b))
    BY <1>4, <2>1, QueueShrinks
  <2>3. PICK l : l = [local[w] EXCEPT !.obj = a]
    OBVIOUS
  <2>4. Moves(w, "check", l)
    BY <1>4, <2>2, <2>3 DEF DequeueAction, Moves
  <2>5. l \in Locals /\ l.obj = a /\ l.left > 0
    <3>1. local[w] \in Locals /\ local[w].left > 0
      BY <1>1, <1>2 DEF TypeOK, LocalsInv, WorkerLocals, WorkerPCs
    <3> QED BY <2>3, <3>1 DEF Locals
  <2>6. WorkerLocals("check", l)
    BY <2>5 DEF WorkerLocals, WorkerPCs, HoldingPCs
  <2>7. /\ ActionFits(a) /\ Located(a)
        /\ a \notin raced => OneCopy(a) /\ CountFits(a)
        /\ life \in [ActionIds -> Lives] /\ registry \subseteq ActionIds
        /\ attempts \in [ActionIds -> Nat] /\ decided \in [ActionIds -> Decisions]
    BY ActionKnown
  <2>8. InQueue(a)
    BY <2>2 DEF InQueue, In
  <2>9. life[a].status \notin {"unplanned", "queued"}
    BY <2>7, <2>8 DEF ActionFits
  <2>10. /\ pc'[w] = "check" /\ local'[w] = l
         /\ \A u \in All : u # w => pc'[u] = pc[u] /\ local'[u] = local[u]
    BY <1>1, <1>2, <2>4, <2>5, MovesApart
  <2>11. /\ \A v \in Workers : v # w => pc'[v] = pc[v] /\ local'[v] = local[v]
         /\ \A t \in Threads : pc'[t] = pc[t] /\ local'[t] = local[t]
    BY <1>1, <2>10
  <2>12. ActionFits(a)'
    BY <1>2, <2>7, <2>9, <2>10, <2>11 DEF ActionFits, Holds, Permitted
  <2>13. Located(a)'
    BY <1>1, <1>2, <2>5, <2>7, <2>9, <2>10, <2>11 DEF Located, Holds
  <2>14. ASSUME a \notin raced' PROVE OneCopy(a)' /\ CountFits(a)'
    <3>1. OneCopy(a) /\ CountFits(a)
      BY <2>1, <2>7, <2>14
    <3>2. Once(queue', a) /\ ~InQueue(a)'
      BY <2>2, <3>1 DEF OneCopy, InQueue, In
    <3>3. /\ life[a].status = "approved" /\ attempts[a] = life[a].retries
          /\ \A v \in Workers : ~Holds(v, a, HoldingPCs)
          /\ \A t \in Threads : ~Holds(t, a, {"approve_queue"}) /\ ~Holds(t, a, {"approve_set", "reject_set"})
      BY <2>8, <3>1 DEF OneCopy, CountFits
    <3>4. /\ \A v \in Workers : v # w => ~Holds(v, a, HoldingPCs)'
          /\ \A t \in Threads : ~Holds(t, a, {"approve_queue"})' /\ ~Holds(t, a, {"approve_set", "reject_set"})'
      BY <2>11, <3>3 DEF Holds
    <3>5. OneCopy(a)'
      BY <3>2, <3>4 DEF OneCopy
    <3>6. CountFits(a)'
      BY <1>2, <2>10, <3>1, <3>2, <3>3, <3>4 DEF CountFits, Holds, HoldingPCs
    <3> QED BY <3>5, <3>6
  <2>15. Exclusive'
    BY <1>1, <1>2, <2>1, <2>4, <2>5, WorkersKeepExclusive
  <2>16. \A b \in ActionIds \ {a} :
         /\ life'[b] = life[b] /\ attempts'[b] = attempts[b] /\ decided'[b] = decided[b]
         /\ b \in registry' <=> b \in registry
         /\ In(queue', b) <=> In(queue, b)
         /\ Once(queue, b) => Once(queue', b)
    BY <1>2, <2>2
  <2>17. /\ life' \in [ActionIds -> Lives] /\ registry' \subseteq ActionIds
         /\ attempts' \in [ActionIds -> Nat] /\ decided' \in [ActionIds -> Decisions]
         /\ life[a].status # "unplanned" /\ life'[a].status # "unplanned"
    BY <1>2, <2>7, <2>9
  <2> QED BY <1>1, <1>2, <2>1, <2>2, <2>4, <2>5, <2>6, <2>12, <2>13, <2>14, <2>15, <2>16, <2>17,
             ActionWork
<1> QED BY <1>3, <1>4

(* What a worker's step about Action a leaves to show.                     *)
LEMMA HandlerWork ==
  ASSUME FlowInv, NEW w \in Workers, pc[w] \in HoldingPCs, NEW p \in PCs, NEW l \in Locals,
         Moves(w, p, l), raced' = raced, WorkerLocals(p, l), p \notin DecisionPCs,
         NEW a \in ActionIds, a = local[w].obj, p \in HoldingPCs => l.obj = a,
         UNCHANGED <<category, stored, inbox, status, origin>>,
         UNCHANGED <<registry, decided>>,
         NEW state \in Lives, state.status # "unplanned",
         life' = [life EXCEPT ![a] = state],
         attempts' \in [ActionIds -> Nat],
         \A b \in ActionIds \ {a} : attempts'[b] = attempts[b],
         queue' = queue \/ queue' = Append(queue, a),
         ActionFits(a)', Located(a)',
         a \notin raced' => OneCopy(a)' /\ CountFits(a)'
  PROVE  FlowInv'
<1>1. /\ TypeOK /\ life \in [ActionIds -> Lives] /\ registry \subseteq ActionIds
      /\ queue \in Seq(ActionIds) /\ decided \in [ActionIds -> Decisions]
  BY ActionKnown
<1>2. Exclusive' /\ w \in All /\ w \notin Threads /\ life[a].status # "unplanned"
  BY Handler
<1>3. life' \in [ActionIds -> Lives] /\ life'[a] = state
      /\ \A b \in ActionIds \ {a} : life'[b] = life[b]
  BY <1>1
<1>4. queue' \in Seq(ActionIds) /\
      \A b \in ActionIds \ {a} : /\ In(queue', b) <=> In(queue, b)
                                 /\ Once(queue, b) => Once(queue', b)
  <2>1. CASE queue' = queue
    BY <1>1, <2>1
  <2>2. CASE queue' = Append(queue, a)
    BY <1>1, <2>2, QueueGrows
  <2> QED BY <2>1, <2>2
<1>5. \A b \in ActionIds \ {a} :
         /\ life'[b] = life[b] /\ attempts'[b] = attempts[b] /\ decided'[b] = decided[b]
         /\ b \in registry' <=> b \in registry
         /\ In(queue', b) <=> In(queue, b)
         /\ Once(queue, b) => Once(queue', b)
  BY <1>3, <1>4
<1>6. registry' \subseteq ActionIds /\ decided' \in [ActionIds -> Decisions]
      /\ life'[a].status # "unplanned"
  BY <1>1, <1>3
<1> QED BY <1>2, <1>3, <1>4, <1>5, <1>6, ActionWork

(* A worker checks the Action it took.                                     *)
LEMMA CheckKeepsFlow ==
  ASSUME FlowInv, NEW w \in Workers, CheckApproved(w)
  PROVE  FlowInv'
<1>1. TypeOK /\ LocalsInv /\ w \in All
  BY DEF FlowInv, All
<1>2. /\ pc[w] = "check" /\ UNCHANGED <<category, stored, inbox, status, origin>>
      /\ UNCHANGED <<registry, decided>> /\ UNCHANGED <<life, attempts>>
      /\ pc[w] \in HoldingPCs /\ "idle" \notin DecisionPCs \cup HoldingPCs
      /\ "idle" \in PCs /\ "execute_set" \in PCs /\ "execute_set" \in HoldingPCs
      /\ "execute_set" \notin DecisionPCs
  BY DEF CheckApproved, workflow, observed, HoldingPCs, DecisionPCs, PCs
<1>3. PICK a \in ActionIds : a = local[w].obj
  BY <1>1, <1>2 DEF LocalsInv, WorkerLocals
<1>4. /\ ActionFits(a) /\ Located(a)
      /\ life \in [ActionIds -> Lives] /\ attempts \in [ActionIds -> Nat]
  BY ActionKnown
<1>5. PICK state \in Lives : state = life[a] /\ life' = [life EXCEPT ![a] = state]
  <2>1. life[a] \in Lives /\ life = [life EXCEPT ![a] = life[a]]
    BY <1>4
  <2> QED BY <1>2, <2>1
<1>6. /\ attempts' \in [ActionIds -> Nat]
      /\ \A b \in ActionIds \ {a} : attempts'[b] = attempts[b]
  BY <1>2, <1>4
<1>7. (OneCopy(a) /\ CountFits(a)) \/ a \in raced
  BY ActionKnown
<1>8. CASE life[a].status = "approved"
  <2>1. PICK l : l = [local[w] EXCEPT !.retries = life[a].retries]
    OBVIOUS
  <2>2. Moves(w, "execute_set", l) /\ queue' = queue /\ raced' = raced
    BY <1>3, <1>8, <2>1 DEF CheckApproved, Moves
  <2>3. l \in Locals /\ l.obj = a /\ l.left > 0 /\ l.retries = life[a].retries
    <3>1. local[w] \in Locals /\ local[w].left > 0 /\ life[a].retries \in 0..MaxTransientRetries
      BY <1>1, <1>2, <1>4 DEF TypeOK, LocalsInv, WorkerLocals, WorkerPCs, Lives
    <3> QED BY <1>3, <2>1, <3>1 DEF Locals
  <2>4. WorkerLocals("execute_set", l)
    BY <2>3 DEF WorkerLocals, WorkerPCs, HoldingPCs
  <2>5. /\ pc'[w] = "execute_set" /\ local'[w] = l
        /\ \A v \in Workers : v # w => pc'[v] = pc[v] /\ local'[v] = local[v]
        /\ \A t \in Threads : pc'[t] = pc[t] /\ local'[t] = local[t]
        /\ a \notin raced =>
             /\ \A v \in Workers : v # w => ~Holds(v, a, HoldingPCs)
             /\ \A t \in Threads : ~Holds(t, a, DecisionPCs)
             /\ ~InQueue(a)
    BY <1>2, <1>3, <2>2, <2>3, Handler
  <2>6. Permitted(a)'
    BY <1>2, <1>4, <1>8 DEF ActionFits, Permitted
  <2>7. ActionFits(a)'
    BY <1>2, <1>8, <2>6 DEF ActionFits
  <2>8. Located(a)'
    BY <1>1, <1>2, <1>8, <2>3, <2>5 DEF Located, Holds
  <2>9. ASSUME a \notin raced' PROVE OneCopy(a)' /\ CountFits(a)'
    <3>1. OneCopy(a) /\ CountFits(a) /\ ~InQueue(a)'
      BY <1>7, <2>2, <2>5, <2>9 DEF InQueue
    <3>2. /\ \A v \in Workers : v # w => ~Holds(v, a, HoldingPCs)'
          /\ \A t \in Threads : ~Holds(t, a, DecisionPCs)'
      BY <2>2, <2>5, <2>9 DEF Holds
    <3>3. OneCopy(a)'
      BY <2>2, <3>1, <3>2 DEF OneCopy, Once, Holds, DecisionPCs
    <3>4. attempts[a] = life[a].retries
      BY <1>2, <1>3, <3>1 DEF CountFits, Holds
    <3>5. CountFits(a)'
      BY <1>2, <1>8, <2>3, <2>5, <3>1, <3>2, <3>4 DEF CountFits, Holds, HoldingPCs, DecisionPCs
    <3> QED BY <3>3, <3>5
  <2>10. state.status # "unplanned"
    BY <1>5, <1>8
  <2> QED BY <1>2, <1>3, <1>5, <1>6, <2>2, <2>3, <2>4, <2>7, <2>8, <2>9, <2>10, HandlerWork
<1>9. CASE life[a].status # "approved"
  <2>1. Finish(w) /\ queue' = IF life[a].status = "queued" THEN Append(queue, a) ELSE queue
    BY <1>3, <1>9 DEF CheckApproved
  <2>2. Moves(w, "idle", Resting) /\ raced' = raced
    BY <1>1, <2>1, ShapesOfMoves
  <2>3. /\ life[a].status \notin {"unplanned", "queued"}
        /\ pc'[w] = "idle"
        /\ \A v \in Workers : v # w => pc'[v] = pc[v] /\ local'[v] = local[v]
        /\ \A t \in Threads : pc'[t] = pc[t] /\ local'[t] = local[t]
    BY <1>2, <1>3, <2>2, RestingFits, Handler
  <2>4. queue' = queue
    BY <2>1, <2>3
  <2>5. a \in raced
    BY <1>2, <1>3, <1>7, <1>9 DEF CountFits, Holds
  <2>6. ActionFits(a)'
    BY <1>2, <1>4, <2>3 DEF ActionFits, Permitted, Holds, HoldingPCs
  <2>7. Located(a)'
    BY <1>2, <1>4, <1>9, <2>3 DEF Located, Holds
  <2> QED BY <1>2, <1>3, <1>5, <1>6, <2>2, <2>3, <2>4, <2>5, <2>6, <2>7, RestingFits, HandlerWork
<1> QED BY <1>8, <1>9

(* What a worker that handles Action a knows of it.                        *)
LEMMA Handled ==
  ASSUME FlowInv, NEW w \in Workers, pc[w] \in HoldingPCs
  PROVE  \E a \in ActionIds :
           /\ a = local[w].obj /\ local[w] \in Locals /\ local[w].left > 0
           /\ ActionFits(a) /\ life \in [ActionIds -> Lives]
           /\ attempts \in [ActionIds -> Nat] /\ queue \in Seq(ActionIds)
           /\ (OneCopy(a) /\ CountFits(a)) \/ a \in raced
           /\ w \in All /\ (pc[w] = "retry" => local[w].retries < MaxTransientRetries)
           /\ pc[w] # "check" => Permitted(a)
<1>1. TypeOK /\ LocalsInv /\ w \in All
  BY DEF FlowInv, All
<1>2. PICK a \in ActionIds : a = local[w].obj
  BY <1>1 DEF LocalsInv, WorkerLocals
<1>3. local[w] \in Locals /\ local[w].left > 0
      /\ (pc[w] = "retry" => local[w].retries < MaxTransientRetries)
  BY <1>1 DEF TypeOK, LocalsInv, WorkerLocals, WorkerPCs
<1>4. /\ ActionFits(a) /\ life \in [ActionIds -> Lives]
      /\ attempts \in [ActionIds -> Nat] /\ queue \in Seq(ActionIds)
      /\ (OneCopy(a) /\ CountFits(a)) \/ a \in raced
  BY ActionKnown
<1>5. pc[w] # "check" => Permitted(a)
  BY <1>2, <1>4 DEF ActionFits, Holds
<1> QED BY <1>1, <1>2, <1>3, <1>4, <1>5

(* A worker writes the executing state.                                    *)
LEMMA ExecuteSetKeepsFlow ==
  ASSUME FlowInv, NEW w \in Workers, ExecuteSet(w)
  PROVE  FlowInv'
<1>1. /\ pc[w] = "execute_set" /\ UNCHANGED <<category, stored, inbox, status, origin>>
      /\ UNCHANGED <<registry, decided>> /\ UNCHANGED <<queue, attempts>> /\ Goto(w, "execute")
      /\ pc[w] \in HoldingPCs /\ "execute" \notin DecisionPCs
      /\ "execute" \in PCs /\ "execute" \in HoldingPCs /\ pc[w] # "check"
  BY DEF ExecuteSet, workflow, observed, HoldingPCs, DecisionPCs, PCs
<1>2. PICK a \in ActionIds :
           /\ a = local[w].obj /\ local[w] \in Locals /\ local[w].left > 0
           /\ ActionFits(a) /\ life \in [ActionIds -> Lives]
           /\ attempts \in [ActionIds -> Nat]
           /\ (OneCopy(a) /\ CountFits(a)) \/ a \in raced
           /\ w \in All /\ Permitted(a)
  BY <1>1, Handled
<1>3. PICK state \in Lives : /\ state.status = "executing" /\ state.retries = local[w].retries
                             /\ life' = [life EXCEPT ![a] = state]
  <2>1. [status |-> "executing", retries |-> local[w].retries] \in Lives
    BY <1>2 DEF Locals, Lives, LifeStatus
  <2> QED BY <1>2, <2>1 DEF ExecuteSet
<1>4. PICK l \in Locals : l = local[w] /\ Moves(w, "execute", l) /\ raced' = raced
  BY <1>1, <1>2, ShapesOfMoves DEF FlowInv
<1>5. life'[a].status = "executing" /\ life'[a].retries = local[w].retries
  BY <1>2, <1>3
<1>6. /\ pc'[w] = "execute" /\ local'[w] = l
      /\ \A v \in Workers : v # w => pc'[v] = pc[v] /\ local'[v] = local[v]
      /\ \A t \in Threads : pc'[t] = pc[t] /\ local'[t] = local[t]
      /\ a \notin raced =>
           /\ \A v \in Workers : v # w => ~Holds(v, a, HoldingPCs)
           /\ \A t \in Threads : ~Holds(t, a, DecisionPCs)
           /\ ~InQueue(a)
  BY <1>1, <1>2, <1>4, Handler
<1>7. Permitted(a)'
  BY <1>1, <1>2 DEF Permitted
<1>8. ActionFits(a)'
  BY <1>5, <1>7 DEF ActionFits
<1>9. Located(a)'
  BY <1>2, <1>4, <1>5, <1>6 DEF Located, Holds
<1>10. ASSUME a \notin raced' PROVE OneCopy(a)' /\ CountFits(a)'
  <2>1. OneCopy(a) /\ CountFits(a) /\ ~InQueue(a)'
    BY <1>1, <1>2, <1>4, <1>6, <1>10 DEF InQueue
  <2>2. /\ \A v \in Workers : v # w => ~Holds(v, a, HoldingPCs)'
        /\ \A t \in Threads : ~Holds(t, a, DecisionPCs)'
    BY <1>4, <1>6, <1>10 DEF Holds
  <2>3. OneCopy(a)'
    BY <1>1, <2>1, <2>2 DEF OneCopy, Once, Holds, DecisionPCs
  <2>4. attempts[a] = life[a].retries /\ local[w].retries = life[a].retries
        /\ life[a].status = "approved"
    BY <1>1, <1>2, <2>1 DEF CountFits, Holds
  <2>5. "rejected" \notin decided'[a] /\ attempts'[a] = life'[a].retries
        /\ attempts'[a] <= life'[a].retries + 1 /\ local'[w].retries = life'[a].retries
    <3>1. attempts[a] \in Nat
      BY <1>2
    <3> QED BY <1>1, <1>4, <1>5, <1>6, <2>1, <2>4, <3>1 DEF CountFits
  <2>6. CountFits(a)'
    BY <1>5, <1>6, <2>1, <2>2, <2>5 DEF CountFits, Holds, HoldingPCs, DecisionPCs
  <2> QED BY <2>3, <2>6
<1>11. WorkerLocals("execute", l) /\ l.obj = a
  BY <1>2, <1>4 DEF WorkerLocals, WorkerPCs, HoldingPCs
<1>12. /\ attempts' \in [ActionIds -> Nat] /\ state.status # "unplanned"
       /\ \A b \in ActionIds \ {a} : attempts'[b] = attempts[b]
  BY <1>1, <1>2, <1>3
<1> QED BY <1>1, <1>2, <1>3, <1>4, <1>8, <1>9, <1>10, <1>11, <1>12, HandlerWork

(* A transient failure goes back to the queue.                             *)
LEMMA RetryKeepsFlow ==
  ASSUME FlowInv, NEW w \in Workers, Retry(w)
  PROVE  FlowInv'
<1>1. /\ pc[w] = "retry" /\ UNCHANGED <<category, stored, inbox, status, origin>>
      /\ UNCHANGED <<registry, decided>> /\ UNCHANGED attempts /\ NextOfBatch(w)
      /\ pc[w] \in HoldingPCs /\ pc[w] # "check"
  BY DEF Retry, workflow, observed, HoldingPCs
<1>2. PICK a \in ActionIds :
           /\ a = local[w].obj /\ local[w] \in Locals /\ local[w].left > 0
           /\ ActionFits(a) /\ life \in [ActionIds -> Lives]
           /\ attempts \in [ActionIds -> Nat] /\ queue \in Seq(ActionIds)
           /\ (OneCopy(a) /\ CountFits(a)) \/ a \in raced
           /\ w \in All /\ Permitted(a) /\ local[w].retries < MaxTransientRetries
  BY <1>1, Handled
<1>3. PICK state \in Lives : /\ state.status = "approved" /\ state.retries = local[w].retries + 1
                             /\ life' = [life EXCEPT ![a] = state]
  <2>1. [status |-> "approved", retries |-> local[w].retries + 1] \in Lives
    BY <1>2, EventFlowConstants DEF Locals, Lives, LifeStatus
  <2> QED BY <1>2, <2>1 DEF Retry
<1>4. PICK p \in {"idle", "dequeue"}, l \in Locals :
        Moves(w, p, l) /\ raced' = raced /\ WorkerLocals(p, l)
  BY <1>1, BatchShape
<1>5. life'[a].status = "approved" /\ life'[a].retries = local[w].retries + 1
  BY <1>2, <1>3
<1>6. p \in PCs /\ p \notin DecisionPCs /\ p \notin HoldingPCs
  BY DEF PCs, DecisionPCs, HoldingPCs
<1>7. /\ pc'[w] = p /\ local'[w] = l
      /\ \A v \in Workers : v # w => pc'[v] = pc[v] /\ local'[v] = local[v]
      /\ \A t \in Threads : pc'[t] = pc[t] /\ local'[t] = local[t]
      /\ a \notin raced =>
           /\ \A v \in Workers : v # w => ~Holds(v, a, HoldingPCs)
           /\ \A t \in Threads : ~Holds(t, a, DecisionPCs)
           /\ ~InQueue(a)
  BY <1>1, <1>2, <1>4, <1>6, Handler
<1>8. /\ queue' = Append(queue, a)
      /\ \A b : In(queue', b) <=> In(queue, b) \/ b = a
      /\ \A b : Once(queue, b) /\ (b = a => ~In(queue, b)) => Once(queue', b)
  <2>1. queue' = Append(queue, a)
    BY <1>2 DEF Retry
  <2> QED BY <1>2, <2>1, QueueGrows
<1>9. Permitted(a)' /\ InQueue(a)'
  BY <1>1, <1>2, <1>8 DEF Permitted, In, InQueue
<1>10. ActionFits(a)'
  BY <1>5, <1>9 DEF ActionFits
<1>11. Located(a)'
  BY <1>5, <1>9 DEF Located
<1>12. ASSUME a \notin raced' PROVE OneCopy(a)' /\ CountFits(a)'
  <2>1. OneCopy(a) /\ CountFits(a) /\ ~In(queue, a)
    BY <1>2, <1>4, <1>7, <1>12 DEF InQueue, In
  <2>2. /\ \A v \in Workers : ~Holds(v, a, HoldingPCs)'
        /\ \A t \in Threads : ~Holds(t, a, DecisionPCs)'
    BY <1>4, <1>6, <1>7, <1>12 DEF Holds
  <2>3. OneCopy(a)'
    <3>1. Once(queue', a)
      BY <1>8, <2>1 DEF OneCopy
    <3> QED BY <2>2, <3>1 DEF OneCopy, Holds, DecisionPCs
  <2>4. attempts[a] = life[a].retries + 1 /\ local[w].retries = life[a].retries
        /\ life[a].status = "failed"
    BY <1>1, <1>2, <2>1 DEF CountFits, Holds
  <2>5. "rejected" \notin decided'[a] /\ attempts'[a] = life'[a].retries
        /\ attempts'[a] <= life'[a].retries + 1
    <3>1. attempts[a] \in Nat
      BY <1>2
    <3> QED BY <1>1, <1>5, <2>1, <2>4, <3>1 DEF CountFits
  <2>6. CountFits(a)'
    BY <1>5, <2>2, <2>5 DEF CountFits, Holds, HoldingPCs, DecisionPCs
  <2> QED BY <2>3, <2>6
<1>13. /\ attempts' \in [ActionIds -> Nat] /\ state.status # "unplanned"
       /\ \A b \in ActionIds \ {a} : attempts'[b] = attempts[b]
  BY <1>1, <1>2, <1>3
<1> QED BY <1>1, <1>2, <1>3, <1>4, <1>6, <1>8, <1>10, <1>11, <1>12, <1>13, HandlerWork

(* The executor answers.                                                   *)
LEMMA ExecuteKeepsFlow ==
  ASSUME FlowInv, NEW w \in Workers, Execute(w)
  PROVE  FlowInv'
<1>1. /\ pc[w] = "execute" /\ UNCHANGED <<category, stored, inbox, status, origin>>
      /\ UNCHANGED <<registry, decided>> /\ UNCHANGED queue
      /\ pc[w] \in HoldingPCs /\ pc[w] # "check"
  BY DEF Execute, workflow, HoldingPCs
<1>2. PICK a \in ActionIds :
           /\ a = local[w].obj /\ local[w] \in Locals /\ local[w].left > 0
           /\ ActionFits(a) /\ life \in [ActionIds -> Lives]
           /\ attempts \in [ActionIds -> Nat]
           /\ (OneCopy(a) /\ CountFits(a)) \/ a \in raced
           /\ w \in All /\ Permitted(a)
  BY <1>1, Handled
<1>3. PICK outcome \in {"completed", "transient", "failed", "skipped"},
           final \in {"completed", "failed", "skipped"} :
        /\ life' = [life EXCEPT ![a] = [status |-> final, retries |-> local[w].retries]]
        /\ outcome = "transient" => final = "failed"
        /\ IF outcome = "transient" /\ local[w].retries < MaxTransientRetries
           THEN Goto(w, "retry") ELSE NextOfBatch(w)
  BY <1>2 DEF Execute, Outcomes
<1>4. PICK state \in Lives : /\ state.status = final /\ state.retries = local[w].retries
                             /\ life' = [life EXCEPT ![a] = state]
  <2>1. [status |-> final, retries |-> local[w].retries] \in Lives
    BY <1>2 DEF Locals, Lives, LifeStatus
  <2> QED BY <1>3, <2>1
<1>5. PICK p \in {"idle", "dequeue", "retry"}, l \in Locals :
        /\ Moves(w, p, l) /\ raced' = raced /\ WorkerLocals(p, l)
        /\ p = "retry" => l = local[w] /\ final = "failed"
  <2>1. CASE outcome = "transient" /\ local[w].retries < MaxTransientRetries
    <3>1. Moves(w, "retry", local[w]) /\ raced' = raced
      BY <1>2, <1>3, <2>1, ShapesOfMoves DEF FlowInv
    <3>2. WorkerLocals("retry", local[w])
      BY <1>2, <2>1 DEF WorkerLocals, WorkerPCs, HoldingPCs
    <3> QED BY <1>2, <1>3, <2>1, <3>1, <3>2
  <2>2. CASE ~(outcome = "transient" /\ local[w].retries < MaxTransientRetries)
    BY <1>1, <1>3, <2>2, BatchShape
  <2> QED BY <2>1, <2>2
<1>6. /\ life'[a].status = final /\ life'[a].retries = local[w].retries
      /\ p = "retry" => life'[a].status = "failed"
  BY <1>2, <1>4, <1>5
<1>7. p \in PCs /\ p \notin DecisionPCs /\ (p \in HoldingPCs => p = "retry" /\ l.obj = a)
  BY <1>2, <1>5 DEF PCs, DecisionPCs, HoldingPCs
<1>8. /\ pc'[w] = p /\ local'[w] = l
      /\ \A v \in Workers : v # w => pc'[v] = pc[v] /\ local'[v] = local[v]
      /\ \A t \in Threads : pc'[t] = pc[t] /\ local'[t] = local[t]
      /\ a \notin raced =>
           /\ \A v \in Workers : v # w => ~Holds(v, a, HoldingPCs)
           /\ \A t \in Threads : ~Holds(t, a, DecisionPCs)
           /\ ~InQueue(a)
  BY <1>1, <1>2, <1>5, <1>7, Handler
<1>9. /\ attempts' \in [ActionIds -> Nat] /\ attempts'[a] = attempts[a] + 1
      /\ state.status # "unplanned"
      /\ \A b \in ActionIds \ {a} : attempts'[b] = attempts[b]
  BY <1>2, <1>4 DEF Execute
<1>10. Permitted(a)' /\ life'[a].status \notin {"unplanned", "queued", "approved", "executing", "rejected"}
  BY <1>1, <1>2, <1>6 DEF Permitted
<1>11. ActionFits(a)'
  BY <1>10 DEF ActionFits
<1>12. Located(a)'
  BY <1>10 DEF Located
<1>13. ASSUME a \notin raced' PROVE OneCopy(a)' /\ CountFits(a)'
  <2>1. OneCopy(a) /\ CountFits(a) /\ ~InQueue(a)'
    BY <1>1, <1>2, <1>5, <1>8, <1>13 DEF InQueue
  <2>2. /\ \A v \in Workers : v # w => ~Holds(v, a, HoldingPCs)'
        /\ \A t \in Threads : ~Holds(t, a, DecisionPCs)'
    BY <1>5, <1>8, <1>13 DEF Holds
  <2>3. OneCopy(a)'
    BY <1>1, <2>1, <2>2 DEF OneCopy, Once, Holds, DecisionPCs
  <2>4. attempts[a] = life[a].retries /\ local[w].retries = life[a].retries
        /\ life[a].status = "executing"
    BY <1>1, <1>2, <2>1 DEF CountFits, Holds
  <2>5. "rejected" \notin decided'[a] /\ attempts'[a] = life'[a].retries + 1
        /\ attempts'[a] <= life'[a].retries + 1
    <3>1. attempts[a] \in Nat
      BY <1>2
    <3> QED BY <1>1, <1>6, <1>9, <2>1, <2>4, <3>1 DEF CountFits
  <2>6. p = "retry" => local'[w].retries = life'[a].retries /\ life'[a].status = "failed"
    BY <1>5, <1>6, <1>8
  <2>7. \A v \in Workers : Holds(v, a, HoldingPCs)' => v = w /\ p = "retry" /\ pc'[v] = "retry"
    BY <1>7, <1>8, <2>2 DEF Holds
  <2>8. CountFits(a)'
    BY <1>10, <2>1, <2>2, <2>5, <2>6, <2>7 DEF CountFits, Holds, HoldingPCs, DecisionPCs
  <2> QED BY <2>3, <2>8
<1> QED BY <1>1, <1>2, <1>4, <1>5, <1>7, <1>9, <1>11, <1>12, <1>13, HandlerWork

-----------------------------------------------------------------------------
(* The server starts with nothing accepted, planned or under way.          *)
LEMMA InitFits == Init => FlowInv
<1> SUFFICES ASSUME Init PROVE FlowInv
  OBVIOUS
<1>1. /\ \A t \in All : pc[t] = "idle" /\ local[t] = Resting
      /\ pc \in [All -> PCs] /\ local \in [All -> Locals]
  BY RestingFits DEF Init, PCs
<1>2. /\ \A a \in ActionIds : life[a].status = "unplanned" /\ life[a].retries = 0
      /\ life \in [ActionIds -> Lives]
  BY EventFlowConstants DEF Init, Unplanned, Lives, LifeStatus
<1>3. Threads \subseteq All /\ Workers \subseteq All
  BY DEF All
<1>4. TypeOK
  BY <1>1, <1>2 DEF Init, TypeOK, PCs, Lives
<1>5. LocalsInv
  BY <1>1, <1>3, RestingFits DEF LocalsInv
<1>6. \A t \in Threads : local[t].ingest = FALSE
  BY <1>1, <1>3 DEF Resting
<1>7. NumbersFit
  <2>1. Planned = {}
    BY <1>2 DEF Planned
  <2>2. Processing = {}
    BY <1>1, <1>3, <1>6 DEF Processing
  <2>3. Cardinality({}) = 0
    BY FS_EmptySet
  <2>4. 1..0 = {}
    OBVIOUS
  <2> QED BY <2>1, <2>2, <2>3, <2>4, EventFlowConstants DEF NumbersFit
<1>8. Exclusive
  BY <1>1, <1>3 DEF Exclusive, RequestPCs
<1>9. \A e \in Events : e # NoOne
  BY EventFlowConstants DEF NoOne
<1>10. EventsInv
  <2>1. ASSUME NEW e \in Events PROVE EventFits(e)
    <3>1. stored[e] = 0 /\ inbox[e] = 0 /\ status[e] = "none"
      BY DEF Init
    <3>2. \A a \in ActionIds : origin[a] # e
      BY <1>9 DEF Init
    <3>3. \A t \in Threads : pc[t] = "idle"
      BY <1>1, <1>3
    <3> QED BY <3>1, <3>2, <3>3 DEF EventFits, Holds, EventPCs
  <2> QED BY <2>1 DEF EventsInv
<1>11. ActionsInv
  <2>1. ASSUME NEW a \in ActionIds PROVE ActionFits(a) /\ Located(a) /\ OneCopy(a) /\ CountFits(a)
    <3>1. /\ attempts[a] = 0 /\ origin[a] = NoOne /\ decided[a] = {} /\ registry = {}
          /\ ~InQueue(a) /\ Once(queue, a)
      BY DEF Init, InQueue, Once
    <3>2. /\ \A t \in Threads : pc[t] = "idle"
          /\ \A w \in Workers : pc[w] = "idle"
      BY <1>1, <1>3
    <3>3. ActionFits(a)
      BY <1>2, <3>1, <3>2 DEF ActionFits, Holds, DecisionPCs, HoldingPCs
    <3>4. Located(a)
      BY <1>2 DEF Located
    <3>5. OneCopy(a)
      BY <3>1, <3>2 DEF OneCopy, Holds, HoldingPCs
    <3>6. CountFits(a)
      BY <1>2, <3>1, <3>2 DEF CountFits, Holds
    <3> QED BY <3>3, <3>4, <3>5, <3>6
  <2> QED BY <2>1 DEF ActionsInv
<1> QED BY <1>4, <1>5, <1>7, <1>8, <1>10, <1>11 DEF FlowInv

(* A stuttering step changes nothing that the invariant speaks of.         *)
LEMMA StutterKeepsFlow ==
  ASSUME FlowInv, UNCHANGED vars
  PROVE  FlowInv'
<1>1. /\ UNCHANGED <<category, stored, inbox, status>> /\ UNCHANGED <<life, registry, queue>>
      /\ UNCHANGED <<pc, local>> /\ UNCHANGED <<origin, attempts, decided>> /\ UNCHANGED raced
  BY DEF vars, workflow, governed, observed
<1>2. TypeOK'
  BY <1>1 DEF FlowInv, TypeOK
<1>3. LocalsInv' /\ Exclusive' /\ NumbersFit'
  BY <1>1 DEF FlowInv, LocalsInv, Exclusive, NumbersFit, Planned, Processing,
              ThreadLocals, WorkerLocals
<1>4. EventsInv'
  BY <1>1 DEF FlowInv, EventsInv, EventFits, Holds
<1>5. ActionsInv'
  BY <1>1 DEF FlowInv, ActionsInv, ActionFits, Located, OneCopy, CountFits, Holds, InQueue,
              Once, Permitted
<1> QED BY <1>2, <1>3, <1>4, <1>5 DEF FlowInv

(* One step of the server keeps the invariant.                             *)
LEMMA StepKeepsFlow ==
  ASSUME FlowInv, [Next]_vars
  PROVE  FlowInv'
<1>1. CASE UNCHANGED vars
  BY <1>1, StutterKeepsFlow
<1>2. ASSUME NEW t \in Threads, Request(t) PROVE FlowInv'
  BY <1>2, ArrivalsKeepFlow, DecideKeepsFlow DEF Request
<1>3. ASSUME NEW t \in Threads, ThreadStep(t) PROVE FlowInv'
  BY <1>3, AcceptKeepsFlow, ProcessKeepsFlow, SettleKeepsFlow, ApproveSetKeepsFlow,
     ApproveQueueKeepsFlow, RejectSetKeepsFlow DEF ThreadStep
<1>4. ASSUME NEW w \in Workers, WorkerStep(w) PROVE FlowInv'
  BY <1>4, DequeueKeepsFlow, CheckKeepsFlow, ExecuteSetKeepsFlow, ExecuteKeepsFlow,
     RetryKeepsFlow DEF WorkerStep
<1>5. ASSUME NEW w \in Workers, Invoke(w) PROVE FlowInv'
  BY <1>5, InvokeKeepsFlow
<1> QED BY <1>1, <1>2, <1>3, <1>4, <1>5 DEF Next

(* Every reachable state of the workflow satisfies the invariant, whatever *)
(* overlaps: types, locals, numbering, and the stage of every event and    *)
(* Action whose requests did not overlap.                                  *)
THEOREM FlowCorrect == Spec => []FlowInv
BY InitFits, StepKeepsFlow, PTL DEF Spec

(* The type invariant of the workflow.                                     *)
THEOREM FlowTypes == Spec => []TypeOK
<1>1. FlowInv => TypeOK
  BY DEF FlowInv
<1> QED BY <1>1, FlowCorrect, PTL

(* No interleaving of the request threads and workers loses an approved,   *)
(* executing or waiting Action.                                            *)
THEOREM NothingIsLost == Spec => []NoActionLost
<1>1. FlowInv => NoActionLost
  BY DEF FlowInv, ActionsInv, Located, NoActionLost
<1> QED BY <1>1, FlowCorrect, PTL

(* The worker executes only what the permission engine allowed or the      *)
(* operator approved, and no rejected Action unless decisions overlapped.  *)
THEOREM NothingRunsUnpermitted == Spec => []PermissionFirst
<1>1. FlowInv => PermissionFirst
  <2> SUFFICES ASSUME FlowInv, NEW a \in ActionIds
               PROVE  /\ attempts[a] > 0 => decided[a] \cap {"allowed", "approved"} # {}
                      /\ attempts[a] > 0 /\ "rejected" \in decided[a] => a \in raced
                      /\ InQueue(a) => life[a].status \notin {"queued", "unplanned"}
    BY DEF PermissionFirst
  <2>1. ActionFits(a) /\ (a \in raced \/ CountFits(a))
    BY DEF FlowInv, ActionsInv
  <2>2. attempts[a] > 0 => decided[a] \cap {"allowed", "approved"} # {}
    BY <2>1 DEF ActionFits, Permitted
  <2>3. attempts[a] > 0 /\ "rejected" \in decided[a] => a \in raced
    BY <2>1 DEF CountFits
  <2>4. InQueue(a) => life[a].status \notin {"queued", "unplanned"}
    BY <2>1 DEF ActionFits
  <2> QED BY <2>2, <2>3, <2>4
<1> QED BY <1>1, FlowCorrect, PTL

(* transient_retry_count bounds the executions of every Action whose       *)
(* decisions did not overlap.                                              *)
THEOREM RetriesStop == Spec => []RetriesBounded
<1>1. FlowInv => RetriesBounded
  <2> SUFFICES ASSUME FlowInv, NEW a \in ActionIds \ raced
               PROVE  attempts[a] <= MaxTransientRetries + 1
    BY DEF RetriesBounded
  <2>1. CountFits(a) /\ life \in [ActionIds -> Lives] /\ attempts \in [ActionIds -> Nat]
    BY ActionKnown
  <2>2. attempts[a] <= life[a].retries + 1 /\ life[a].retries \in 0..MaxTransientRetries
        /\ attempts[a] \in Nat
    BY <2>1 DEF CountFits, Lives
  <2> QED BY <2>2, EventFlowConstants
<1> QED BY <1>1, FlowCorrect, PTL

(* An event whose requests did not overlap is planned at most once.        *)
THEOREM EventsPlannedOnce == Spec => []PlannedOnce
<1>1. FlowInv => PlannedOnce
  <2> SUFFICES ASSUME FlowInv, NEW e \in Events \ raced
               PROVE  Cardinality({a \in ActionIds : origin[a] = e}) <= 1
    BY DEF PlannedOnce
  <2>1. \A a, b \in ActionIds : origin[a] = e /\ origin[b] = e => a = b
    BY DEF FlowInv, EventsInv, EventFits
  <2>2. PICK S : S = {a \in ActionIds : origin[a] = e}
    OBVIOUS
  <2>3. S = {} \/ \E x : S = {x}
    BY <2>1, <2>2
  <2>4. Cardinality(S) <= 1
    <3>1. CASE S = {}
      BY ONLY <3>1, FS_EmptySet
    <3>2. CASE \E x : S = {x}
      <4>1. PICK x : S = {x}
        BY <3>2
      <4>2. Cardinality({x}) = 1
        BY ONLY FS_Singleton
      <4> QED BY <4>1, <4>2
    <3> QED BY <2>3, <3>1, <3>2
  <2> QED BY <2>2, <2>4
<1> QED BY <1>1, FlowCorrect, PTL

(* Between requests the inbox lists exactly the events still to process.   *)
THEOREM InboxIsRight == Spec => []InboxAgrees
<1>1. FlowInv => InboxAgrees
  <2> SUFFICES ASSUME FlowInv, NEW e \in Events \ raced, \A t \in Threads : local[t].obj # e
               PROVE  inbox[e] = IF status[e] \in {"pending", "failed"} THEN 1 ELSE 0
    BY DEF InboxAgrees
  <2>1. EventFits(e) /\ \A t \in Threads : ~Holds(t, e, EventPCs)
    BY DEF FlowInv, EventsInv, Holds
  <2> QED BY <2>1 DEF EventFits
<1> QED BY <1>1, FlowCorrect, PTL
==============================================================================
