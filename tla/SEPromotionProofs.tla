------------------------- MODULE SEPromotionProofs -------------------------
(***************************************************************************)
(* For any number of threads, any overlap of requests, any commands that   *)
(* outlive the server, closed pull requests or not, and a base that moves  *)
(* any bounded number of times: the work product is committed once, only   *)
(* kept work of VELOX's own making is published, a recorded promotion is   *)
(* published and final.  For requests that are served one at a time and    *)
(* commits and creations that do not outlive the server (OneAtATime), also *)
(* that there is one pull request and that a discard deletes no commit.    *)
(***************************************************************************)
EXTENDS SEPromotion, FiniteSetTheorems, SequenceTheorems, TLAPS

IInv == TypeOK /\ PromotionDiscipline

(* Thread t has moved; everything but its own pc and locals is unchanged.  *)
Quiet(t) ==
  /\ UNCHANGED <<row, local, checkout, github, orphans, kept>>
  /\ \A u \in Threads \ {t} : pc'[u] = pc[u] /\ req'[u] = req[u]

(* The steps that neither run a command nor write the row.                 *)
Reading(t) ==
  \/ Promote(t) \/ \E kind \in {"keep", "discard"} : Dispose(t, kind)
  \/ Review(t) \/ CanonicalHead(t) \/ RemoteBase(t) \/ Tip(t) \/ Staged(t)
  \/ Verify(t) \/ Recheck(t) \/ RemoteHead(t) \/ Find(t) \/ ReadBack(t)
  \/ Identity(t) \/ Fails(t)

(* The discipline only looks at the mover's locals when a thread reads.    *)
LEMMA QuietKeepsDiscipline ==
  ASSUME PromotionDiscipline, NEW t \in Threads, Quiet(t), RequestLocals(t)'
  PROVE  PromotionDiscipline'
<1>1. ASSUME NEW u \in Threads
      PROVE  RequestLocals(u)'
  <2>1. CASE u = t
    BY <2>1
  <2>2. CASE u # t
    BY <2>2 DEF PromotionDiscipline, Quiet, RequestLocals, VerifiedBranch,
                local, github
  <2> QED BY <2>1, <2>2
<1> QED
  BY <1>1 DEF PromotionDiscipline, Quiet, CommittedOnce, PushVerified,
              RowPromotion, VerifiedBranch, local, github

(* _find names a pull request only when there is exactly one, which then   *)
(* has the first number.                                                   *)
LEMMA FindsTheFirst ==
  ASSUME TypeOK, Cardinality(matches) = 1
  PROVE  (CHOOSE n \in matches : TRUE) = 1 /\ pulls # <<>>
<1>1. Len(pulls) \in Nat /\ matches = 1..Len(pulls)
  BY DEF TypeOK, matches
<1>2. Len(pulls) = 1
  <2>1. 1 \in Int /\ Len(pulls) \in Int
    BY <1>1
  <2>2. Cardinality(1..Len(pulls)) =
          IF 1 > Len(pulls) THEN 0 ELSE Len(pulls) - 1 + 1
    BY <2>1, FS_Interval
  <2>3. Cardinality(1..Len(pulls)) = 1
    BY <1>1, Zenon
  <2>4. 1 = IF 1 > Len(pulls) THEN 0 ELSE Len(pulls) - 1 + 1
    BY ONLY <2>2, <2>3, Zenon
  <2> QED
    BY ONLY <1>1, <2>4
<1>3. matches = {1}
  BY <1>1, <1>2
<1> QED
  BY <1>2, <1>3

(* Values after a thread has moved.                                        *)
LEMMA Moved ==
  ASSUME TypeOK, NEW t \in Threads, NEW s
  PROVE  /\ Go(t, s) => /\ pc'[t] = s
                        /\ \A u \in Threads \ {t} : pc'[u] = pc[u]
         /\ Finish(t) => /\ pc'[t] = "idle"
                         /\ \A u \in Threads \ {t} :
                              pc'[u] = pc[u] /\ req'[u] = req[u]
BY DEF TypeOK, Go, Finish

(* A request that has ended relies on nothing.                             *)
LEMMA FinishedLocals ==
  ASSUME NEW t \in Threads, pc'[t] = "idle"
  PROVE  RequestLocals(t)'
BY DEF RequestLocals, Promoting, Verified, Published

(* A reading step leaves the discipline intact.                            *)
LEMMA ReadingKeepsDiscipline ==
  ASSUME IInv, NEW t \in Threads, Reading(t)
  PROVE  PromotionDiscipline'
<1> USE DEF IInv
<1>1. UNCHANGED <<row, local, checkout, github, orphans, kept>>
  BY DEF Reading, Promote, Dispose, Review, CanonicalHead, RemoteBase, Tip,
         Staged, Verify, Recheck, RemoteHead, Find, ReadBack, Identity, Fails,
         Check
<1>2. \A u \in Threads \ {t} : pc'[u] = pc[u] /\ req'[u] = req[u]
  BY DEF TypeOK, Reading, Promote, Dispose, Review, CanonicalHead, RemoteBase,
         Tip, Staged, Verify, Recheck, RemoteHead, Find, ReadBack, Identity,
         Fails, Check, Go, Finish, _create_or_recover_commit, _find
<1>3. Quiet(t)
  BY <1>1, <1>2 DEF Quiet
<1>4. CASE pc'[t] = "idle"
  BY <1>3, <1>4, FinishedLocals, QuietKeepsDiscipline
<1>5. CASE pc'[t] # "idle"
  <2>0. /\ RequestLocals(t)
        /\ row' = row /\ kept' = kept /\ remote' = remote /\ pulls' = pulls
        /\ commits' = commits /\ branch' = branch /\ log' = log
    BY <1>1 DEF PromotionDiscipline, local, github
  <2>1. ~Finish(t)
    BY <1>5, Moved
  <2> SUFFICES RequestLocals(t)'
    BY <1>3, QuietKeepsDiscipline
  <2>2. CASE Promote(t)
    <3>1. pc'[t] = "review" /\ _verify_action(row)
      BY <2>2 DEF Promote, TypeOK, Go
    <3> QED
      BY <2>0, <3>1 DEF RequestLocals, Promoting, Verified, Published,
                        PromotionDiscipline, RowPromotion, _verify_action
  <2>3. CASE \E kind \in {"keep", "discard"} : Dispose(t, kind)
    <3>1. pc'[t] = "identity"
      BY <2>3 DEF Dispose, TypeOK, Go
    <3> QED
      BY <3>1 DEF RequestLocals, Promoting, Verified, Published
  <2>4. CASE Review(t) \/ CanonicalHead(t) \/ RemoteBase(t) \/ Staged(t)
             \/ Tip(t)
    <3>1. /\ pc[t] \in {"review", "head", "base", "tip", "staged"}
          /\ pc'[t] \in {"head", "base", "tip", "add", "verify", "commit"}
      BY <2>1, <2>4 DEF Review, CanonicalHead, RemoteBase, Staged, Tip, Check,
           _create_or_recover_commit, TypeOK, Go
    <3> QED
      BY <2>0, <3>1 DEF RequestLocals, Promoting, Verified, Published
  <2>5. CASE Verify(t)
    <3>1. /\ pc[t] = "verify" /\ pc'[t] = "recheck" /\ req' = req
          /\ _verify_commit(req[t].head, req[t].sha)
      BY <2>1, <2>5 DEF Verify, Check, TypeOK, Go
    <3>2. req[t].sha \in Histories /\ Len(req[t].sha) = 1
          /\ req[t].sha[Len(req[t].sha)] = "velox" /\ log = req[t].sha
      BY <3>1 DEF _verify_commit, TypeOK
    <3>3. req[t].sha = <<"velox">>
      BY <3>2 DEF Histories
    <3>4. commits = 1
      BY <3>2, <3>3 DEF PromotionDiscipline, CommittedOnce, TypeOK
    <3> QED
      BY <2>0, <3>1, <3>2, <3>3, <3>4
         DEF RequestLocals, Promoting, Verified, Published, VerifiedBranch
  <2>6. CASE Recheck(t)
    <3>1. pc[t] = "recheck" /\ pc'[t] = "push" /\ req' = req
      BY <2>1, <2>6 DEF Recheck, Check, TypeOK, Go
    <3> QED
      BY <2>0, <3>1 DEF RequestLocals, Promoting, Verified, Published,
                        VerifiedBranch
  <2>7. CASE RemoteHead(t)
    <3>1. /\ pc[t] = "remote" /\ pc'[t] = "find" /\ req' = req
          /\ remote = req[t].sha
      BY <2>1, <2>7 DEF RemoteHead, Check, TypeOK, Go
    <3> QED
      BY <2>0, <3>1 DEF RequestLocals, Promoting, Verified, Published,
                        VerifiedBranch
  <2>8. CASE Find(t) \/ ReadBack(t)
    <3>1. pc[t] \in {"find", "readback"}
      BY <2>8 DEF Find, ReadBack
    <3>2. CASE Go(t, "create") /\ UNCHANGED req
      BY <2>0, <3>1, <3>2, Moved
         DEF RequestLocals, Promoting, Verified, Published, VerifiedBranch
    <3>3. CASE /\ Cardinality(matches) = 1
               /\ Go(t, "record")
               /\ req' = [req EXCEPT ![t].pr = CHOOSE n \in matches : TRUE]
      <4>1. pc'[t] = "record"
        BY <3>3, Moved
      <4>2. req'[t].pr = 1 /\ req'[t].sha = req[t].sha /\ pulls # <<>>
        BY <3>3, FindsTheFirst DEF TypeOK
      <4> QED
        BY <2>0, <3>1, <4>1, <4>2
           DEF RequestLocals, Promoting, Verified, Published, VerifiedBranch
    <3> QED
      BY <2>1, <2>8, <3>2, <3>3 DEF Find, ReadBack, _find
  <2>9. CASE Identity(t)
    <3>1. pc'[t] \in {"put", "remove"} /\ req'[t].kind = req[t].kind
          /\ req[t].kind \in {"keep", "discard"}
      BY <2>1, <2>9 DEF Identity, TypeOK, Go
    <3> QED
      BY <3>1 DEF RequestLocals, Promoting, Verified, Published
  <2>10. ~Fails(t)
    BY <2>1 DEF Fails
  <2> QED
    BY <2>2, <2>3, <2>4, <2>5, <2>6, <2>7, <2>8, <2>9, <2>10 DEF Reading
<1> QED
  BY <1>4, <1>5

---------------------------------------------------------------------------
(* The commands, whoever runs them: a thread or an orphan.                 *)

(* What the commands keep of the branch and its remote.                    *)
Shared ==
  /\ CommittedOnce
  /\ remote # <<>> => kept /\ row.execution = "succeeded" /\ remote = <<"velox">>
  /\ remote # <<>> => VerifiedBranch

(* What a request or an orphan relies on survives every command.           *)
Lasting ==
  /\ VerifiedBranch => VerifiedBranch'
  /\ remote = <<"velox">> => remote' = <<"velox">>
  /\ pulls # <<>> => pulls' # <<>>

(* No command disturbs what the others rely on; a push is safe once the    *)
(* branch was verified.                                                    *)
LEMMA CommandsKeepShared ==
  ASSUME TypeOK, Shared, UNCHANGED <<row, kept>>,
         \/ GitAdd \/ GitCommit \/ PrCreate \/ WorktreeRemove \/ BranchDelete
         \/ UNCHANGED <<local, github>>
         \/ GitPush /\ kept /\ row.execution = "succeeded" /\ VerifiedBranch
  PROVE  Shared' /\ Lasting
<1> USE DEF Shared, Lasting, CommittedOnce, VerifiedBranch, local, github
<1>1. CASE GitAdd
  BY <1>1 DEF GitAdd, TypeOK
<1>2. CASE GitCommit
  <2>1. commits = 0 /\ commits' = 1 /\ tree' = "clean" /\ remote = <<>>
        /\ remote' = remote /\ pulls' = pulls
    BY <1>2 DEF GitCommit, CanCommit, TypeOK
  <2> QED
    BY <2>1
<1>3. CASE PrCreate
  <2>1. Len(pulls') = Len(pulls) + 1 /\ Len(pulls) \in Nat
    BY <1>3 DEF PrCreate, TypeOK
  <2>2. pulls' # <<>>
    BY <2>1
  <2> QED
    BY <1>3, <2>2 DEF PrCreate
<1>4. CASE WorktreeRemove
  BY <1>4 DEF WorktreeRemove
<1>5. CASE BranchDelete
  BY <1>5 DEF BranchDelete, TypeOK
<1>6. CASE GitPush /\ kept /\ row.execution = "succeeded" /\ VerifiedBranch
  BY <1>6 DEF GitPush, CanPush
<1>7. CASE UNCHANGED <<local, github>>
  BY <1>7
<1> QED
  BY <1>1, <1>2, <1>3, <1>4, <1>5, <1>6, <1>7

(* A command keeps the discipline when its thread's locals allow the next  *)
(* step; an orphan has no thread.                                          *)
LEMMA CommandKeepsDiscipline ==
  ASSUME PromotionDiscipline, Shared', Lasting, UNCHANGED <<row, kept>>,
         orphans' \subseteq orphans,
         \A t \in Threads : RequestLocals(t)'
                           \/ (pc'[t] = pc[t] /\ req'[t] = req[t])
  PROVE  PromotionDiscipline'
<1>1. ASSUME NEW u \in Threads
      PROVE  RequestLocals(u)'
  <2>1. CASE pc'[u] = pc[u] /\ req'[u] = req[u]
    BY <2>1 DEF PromotionDiscipline, RequestLocals, Lasting
  <2> QED
    BY <2>1
<1>2. PushVerified'
  BY DEF PromotionDiscipline, PushVerified, Lasting
<1>3. RowPromotion'
  BY DEF PromotionDiscipline, RowPromotion, Lasting
<1> QED
  BY <1>1, <1>2, <1>3 DEF PromotionDiscipline, Shared

(* The steps of a thread that run a command.                               *)
Commanding(t) ==
  Add(t) \/ Commit(t) \/ Push(t) \/ Create(t) \/ Remove(t) \/ Delete(t)

(* The commands of an operation keep the discipline.                       *)
LEMMA CommandingKeepsDiscipline ==
  ASSUME IInv, NEW t \in Threads, Commanding(t)
  PROVE  PromotionDiscipline'
<1> USE DEF IInv
<1>1. UNCHANGED <<row, orphans, kept>> /\ RequestLocals(t)
  BY DEF Commanding, Add, Commit, Push, Create, Remove, Delete,
         PromotionDiscipline
<1>2. Shared
  BY DEF PromotionDiscipline, Shared
<1>3. pc[t] = "push" => kept /\ row.execution = "succeeded" /\ VerifiedBranch
  BY <1>1 DEF RequestLocals, Promoting, Verified
<1>4. Shared' /\ Lasting
  <2>1. \/ GitAdd \/ GitCommit \/ PrCreate \/ WorktreeRemove \/ BranchDelete
        \/ UNCHANGED <<local, github>>
        \/ GitPush /\ kept /\ row.execution = "succeeded" /\ VerifiedBranch
    BY <1>3 DEF Commanding, Add, Commit, Push, Create, Remove, Delete
  <2> QED
    BY <1>1, <1>2, <2>1, CommandsKeepShared
<1>5. \A u \in Threads \ {t} : pc'[u] = pc[u] /\ req'[u] = req[u]
  BY DEF TypeOK, Commanding, Add, Commit, Push, Create, Remove, Delete, Go,
         Finish
<1>6. RequestLocals(t)'
  <2>1. CASE pc'[t] = "idle"
    BY <2>1, FinishedLocals
  <2>2. CASE pc'[t] # "idle"
    <3>1. ~Finish(t)
      BY <2>2, Moved
    <3>2. \/ pc[t] = "add" /\ pc'[t] = "staged"
          \/ pc[t] = "commit" /\ pc'[t] = "verify"
          \/ pc[t] = "push" /\ pc'[t] = "remote" /\ req' = req
          \/ pc[t] = "create" /\ pc'[t] = "readback" /\ req' = req
          \/ pc[t] \in {"remove", "delete"} /\ pc'[t] \in {"delete", "put"}
             /\ req' = req
      BY <3>1 DEF TypeOK, Commanding, Add, Commit, Push, Create, Remove,
                  Delete, Go
    <3> QED
      BY <1>1, <1>4, <3>2
         DEF RequestLocals, Promoting, Verified, Published, Lasting
  <2> QED
    BY <2>1, <2>2
<1> QED
  BY <1>1, <1>4, <1>5, <1>6, CommandKeepsDiscipline

(* So do the ones that outlive it.                                         *)
LEMMA OrphanKeepsDiscipline ==
  ASSUME IInv, NEW c \in Commands, OrphanRuns(c)
  PROVE  PromotionDiscipline'
<1> USE DEF IInv
<1>1. UNCHANGED <<row, kept, pc, req>> /\ orphans' \subseteq orphans
  BY DEF OrphanRuns
<1>2. Shared
  BY DEF PromotionDiscipline, Shared
<1>3. c = "push" => kept /\ row.execution = "succeeded" /\ VerifiedBranch
  BY DEF OrphanRuns, PromotionDiscipline, PushVerified
<1>4. \/ GitAdd \/ GitCommit \/ PrCreate \/ WorktreeRemove \/ BranchDelete
      \/ UNCHANGED <<local, github>>
      \/ GitPush /\ kept /\ row.execution = "succeeded" /\ VerifiedBranch
  BY <1>3 DEF OrphanRuns
<1>5. Shared' /\ Lasting
  BY <1>1, <1>2, <1>4, CommandsKeepShared
<1> QED
  BY <1>1, <1>5, CommandKeepsDiscipline

---------------------------------------------------------------------------
(* The remaining steps: records, crashes, and everybody else.              *)
LEMMA RecordsKeepDiscipline ==
  ASSUME IInv, NEW t \in Threads, record_promotion(t) \/ record_disposition(t)
  PROVE  PromotionDiscipline'
<1> USE DEF IInv
<1>1. /\ UNCHANGED <<local, checkout, github, orphans>>
      /\ pc'[t] = "idle" /\ row'.execution = row.execution /\ (kept => kept')
      /\ \A u \in Threads \ {t} : pc'[u] = pc[u] /\ req'[u] = req[u]
  BY DEF record_promotion, record_disposition, Finish, TypeOK
<1>2. RowPromotion'
  <2>1. CASE record_promotion(t)
    <3>1. RequestLocals(t) /\ pc[t] = "record"
      BY <2>1 DEF PromotionDiscipline, record_promotion
    <3>2. req[t].sha = <<"velox">> /\ req[t].pr = 1 /\ pulls # <<>>
          /\ remote = <<"velox">>
      BY <3>1 DEF RequestLocals, Verified, Published
    <3>3. /\ row'.promotion = [sha |-> <<"velox">>, pr |-> 1]
          /\ row'.disposition = row.disposition
      BY <2>1, <3>2 DEF record_promotion, TypeOK
    <3> QED
      BY <1>1, <3>2, <3>3
         DEF PromotionDiscipline, RowPromotion, github
  <2>2. CASE record_disposition(t)
    <3>1. /\ row'.promotion = row.promotion
          /\ row'.disposition = req[t].kind
          /\ req[t].kind = "keep" => kept'
      BY <2>2 DEF record_disposition, TypeOK
    <3> QED
      BY <1>1, <3>1 DEF PromotionDiscipline, RowPromotion, github
  <2> QED
    BY <2>1, <2>2
<1>3. ASSUME NEW u \in Threads
      PROVE  RequestLocals(u)'
  <2>1. CASE u = t
    BY <1>1, <2>1, FinishedLocals
  <2>2. CASE u # t
    BY <1>1, <2>2 DEF PromotionDiscipline, RequestLocals, VerifiedBranch,
                      local, github
  <2> QED
    BY <2>1, <2>2
<1> QED
  BY <1>1, <1>2, <1>3 DEF PromotionDiscipline, CommittedOnce, PushVerified,
                          VerifiedBranch, local, github

(* A crash hands a push in flight over to the orphans; its thread had      *)
(* verified the branch.                                                    *)
LEMMA CrashKeepsDiscipline ==
  ASSUME IInv, Crash
  PROVE  PromotionDiscipline'
<1> USE DEF IInv
<1>1. /\ UNCHANGED <<row, local, checkout, github, kept>>
      /\ \A u \in Threads : pc'[u] = "idle"
  BY DEF Crash
<1>2. "push" \in orphans' =>
        "push" \in orphans \/ \E u \in Threads : pc[u] = "push"
  BY DEF Crash
<1>3. "push" \in orphans' =>
        kept /\ row.execution = "succeeded" /\ VerifiedBranch
  BY <1>2 DEF PromotionDiscipline, PushVerified, RequestLocals, Promoting,
              Verified
<1>4. PushVerified'
  BY <1>1, <1>3 DEF PushVerified, VerifiedBranch, local
<1>5. \A u \in Threads : RequestLocals(u)'
  BY <1>1, FinishedLocals
<1> QED
  BY <1>1, <1>4, <1>5 DEF PromotionDiscipline, CommittedOnce, RowPromotion,
                          VerifiedBranch, local, github

(* And what others do on GitHub.                                           *)
LEMMA EnvironmentKeepsDiscipline ==
  ASSUME IInv, Environment
  PROVE  PromotionDiscipline'
<1> USE DEF IInv
<1>1. /\ UNCHANGED <<row, local, remote, orphans, pc, req, kept>>
      /\ pulls # <<>> => pulls' # <<>>
  <2>1. CASE BaseAdvances
    BY <2>1 DEF BaseAdvances, TypeOK
  <2>2. CASE PullCloses
    BY <2>2 DEF PullCloses, TypeOK
  <2>3. CASE CheckoutMoves
    BY <2>3 DEF CheckoutMoves, github
  <2> QED
    BY <2>1, <2>2, <2>3 DEF Environment
<1>2. \A u \in Threads : RequestLocals(u)'
  BY <1>1 DEF PromotionDiscipline, RequestLocals, VerifiedBranch, local
<1> QED
  BY <1>1, <1>2 DEF PromotionDiscipline, CommittedOnce, PushVerified,
                    RowPromotion, VerifiedBranch, local

---------------------------------------------------------------------------
(* Types.                                                                  *)
LEMMA CommandTypes ==
  ASSUME TypeOK, Shared,
         \/ GitAdd \/ GitCommit \/ GitPush \/ PrCreate \/ WorktreeRemove
         \/ BranchDelete \/ UNCHANGED <<local, github>>
  PROVE  /\ dir' \in BOOLEAN /\ branch' \in BOOLEAN
         /\ tree' \in {"dirty", "staged", "clean"}
         /\ log' \in Histories /\ remote' \in Histories
         /\ base' \in Nat /\ merged' \in Nat /\ commits' \in Nat
         /\ pulls' \in Seq({"open", "merged", "closed"})
<1> USE DEF TypeOK, local, github
<1>1. CASE GitAdd
  BY <1>1 DEF GitAdd
<1>2. CASE GitCommit
  <2>1. commits = 0 /\ log \in {<<>>, <<"worker">>}
    BY <1>2 DEF GitCommit, CanCommit, Shared, CommittedOnce
  <2>a. Append(<<>>, "velox") = <<"velox">>
    OBVIOUS
  <2>b. Append(<<"worker">>, "velox") = <<"worker", "velox">>
    <3>1. <<"worker">> \in Seq({"worker", "velox"}) /\ Len(<<"worker">>) = 1
      OBVIOUS
    <3>2. /\ Append(<<"worker">>, "velox") \in Seq({"worker", "velox"})
          /\ Len(Append(<<"worker">>, "velox")) = 2
          /\ Append(<<"worker">>, "velox")[1] = "worker"
          /\ Append(<<"worker">>, "velox")[2] = "velox"
      BY <3>1
    <3>3. /\ <<"worker", "velox">> \in Seq({"worker", "velox"})
          /\ Len(<<"worker", "velox">>) = 2
          /\ <<"worker", "velox">>[1] = "worker"
          /\ <<"worker", "velox">>[2] = "velox"
      OBVIOUS
    <3>4. \A i \in 1..2 : Append(<<"worker">>, "velox")[i] = <<"worker", "velox">>[i]
      BY <3>2, <3>3
    <3> DEFINE longer == Append(<<"worker">>, "velox")
               pair == <<"worker", "velox">>
    <3>5. /\ longer \in Seq({"worker", "velox"}) /\ pair \in Seq({"worker", "velox"})
          /\ Len(longer) = Len(pair)
          /\ \A i \in 1..Len(longer) : longer[i] = pair[i]
      BY <3>2, <3>3, <3>4
    <3> HIDE DEF longer, pair
    <3>6. longer = pair
      BY <3>5, SeqEqual
    <3> QED
      BY <3>6 DEF longer, pair
  <2>2. Append(log, "velox") \in {<<"velox">>, <<"worker", "velox">>}
    BY <2>1, <2>a, <2>b
  <2> QED
    BY <1>2, <2>2 DEF GitCommit, Histories
<1>3. CASE GitPush
  BY <1>3 DEF GitPush
<1>4. CASE PrCreate
  BY <1>4 DEF PrCreate
<1>5. CASE WorktreeRemove
  BY <1>5 DEF WorktreeRemove
<1>6. CASE BranchDelete
  BY <1>6 DEF BranchDelete, Histories
<1>7. CASE UNCHANGED <<local, github>>
  BY <1>7
<1> QED
  BY <1>1, <1>2, <1>3, <1>4, <1>5, <1>6, <1>7

(* The control state after a step of a thread.                             *)
LEMMA ThreadTypes ==
  ASSUME TypeOK, NEW t \in Threads,
         Reading(t) \/ Commanding(t) \/ record_promotion(t)
         \/ record_disposition(t)
  PROVE  pc' \in [Threads -> Steps]
<1>a. pc \in [Threads -> Steps] /\ "idle" \in Steps
  BY DEF TypeOK, Steps
<1>0. /\ \A s \in Steps : Go(t, s) => pc' \in [Threads -> Steps]
      /\ Finish(t) => pc' \in [Threads -> Steps]
  BY <1>a DEF Go, Finish
<1> USE DEF Steps, Commands
<1>1. CASE Reading(t)
  <2>1. Finish(t) \/ \E s \in Steps : Go(t, s)
    BY <1>1 DEF Reading, Promote, Dispose, Review, CanonicalHead, RemoteBase,
         Tip, Staged, Verify, Recheck, RemoteHead, Find, ReadBack, Identity,
         Fails, Check, _create_or_recover_commit, _find
  <2> QED
    BY <1>0, <2>1
<1>2. CASE Commanding(t)
  <2>1. Finish(t) \/ \E s \in Steps : Go(t, s)
    BY <1>2 DEF Commanding, Add, Commit, Push, Create, Remove, Delete
  <2> QED
    BY <1>0, <2>1
<1>3. CASE record_promotion(t) \/ record_disposition(t)
  BY <1>0, <1>3 DEF record_promotion, record_disposition
<1> QED
  BY <1>1, <1>2, <1>3

(* The locals of an operation.                                             *)
LEMMA LocalsTypes ==
  ASSUME IInv, NEW t \in Threads,
         Reading(t) \/ Commanding(t) \/ record_promotion(t)
         \/ record_disposition(t)
  PROVE  req' \in [Threads -> [kind: Kinds \cup {"none"}, dirty: BOOLEAN,
                               untidy: BOOLEAN, head: Nat, sha: Histories,
                               pr: Nat]]
<1> DEFINE Locals == [kind: Kinds \cup {"none"}, dirty: BOOLEAN,
                      untidy: BOOLEAN, head: Nat, sha: Histories, pr: Nat]
<1>1. req \in [Threads -> Locals] /\ log \in Histories /\ canonical \in Nat
      /\ untidy \in BOOLEAN
  BY DEF IInv, TypeOK
<1>2. NoRequest \in Locals
  BY DEF NoRequest, Histories
<1>3. Finish(t) => req' \in [Threads -> Locals]
  BY <1>1, <1>2 DEF Finish
<1>4. CASE Finish(t)
  BY <1>3, <1>4
<1>5. CASE UNCHANGED req
  BY <1>1, <1>5
<1>6. CASE \/ \E k \in Kinds : req' = [req EXCEPT ![t].kind = k]
           \/ req' = [req EXCEPT ![t].dirty = (tree # "clean")]
           \/ req' = [req EXCEPT ![t].untidy = untidy]
           \/ req' = [req EXCEPT ![t].head = canonical]
           \/ req' = [req EXCEPT ![t].sha = log]
  <2>1. CASE \E k \in Kinds : req' = [req EXCEPT ![t].kind = k]
    BY <1>1, <2>1
  <2>2. CASE req' = [req EXCEPT ![t].dirty = (tree # "clean")]
    <3> DEFINE d == tree # "clean"
    <3>1. d \in BOOLEAN /\ req' = [req EXCEPT ![t].dirty = d]
      BY <2>2
    <3> HIDE DEF d
    <3> QED
      BY <1>1, <3>1
  <2>3. CASE req' = [req EXCEPT ![t].untidy = untidy]
    BY <1>1, <2>3
  <2>4. CASE req' = [req EXCEPT ![t].head = canonical]
    BY <1>1, <2>4
  <2>5. CASE req' = [req EXCEPT ![t].sha = log]
    BY <1>1, <2>5
  <2> QED
    BY <1>6, <2>1, <2>2, <2>3, <2>4, <2>5
<1>7. CASE /\ req' = [req EXCEPT ![t].sha = Append(log, "velox")]
           /\ log' = Append(log, "velox") /\ GitCommit
  <2>1. log' \in Histories
    BY <1>7, CommandTypes DEF IInv, PromotionDiscipline, Shared
  <2> QED
    BY <1>1, <1>7, <2>1
<1>8. CASE /\ Cardinality(matches) = 1
           /\ req' = [req EXCEPT ![t].pr = CHOOSE n \in matches : TRUE]
  <2>1. req' = [req EXCEPT ![t].pr = 1]
    BY <1>8, FindsTheFirst DEF IInv
  <2> QED
    BY <1>1, <2>1
<1>9. CASE Reading(t)
  BY <1>4, <1>5, <1>6, <1>8, <1>9
     DEF Reading, Promote, Dispose, Review, CanonicalHead, RemoteBase, Tip,
         Staged, Verify, Recheck, RemoteHead, Find, ReadBack, Identity, Fails,
         Check, _create_or_recover_commit, _find, Kinds
<1>10. CASE Commanding(t)
  BY <1>4, <1>5, <1>7, <1>10
     DEF Commanding, Add, Commit, Push, Create, Remove, Delete, GitCommit
<1>11. CASE record_promotion(t) \/ record_disposition(t)
  BY <1>4, <1>11 DEF record_promotion, record_disposition
<1> QED
  BY <1>9, <1>10, <1>11

(* Every step preserves the types.                                         *)
LEMMA TypesPreserved ==
  ASSUME IInv, [Next]_vars
  PROVE  TypeOK'
<1> USE DEF IInv
<1>0. Shared
  BY DEF PromotionDiscipline, Shared
<1>1. ASSUME NEW t \in Threads, Reading(t)
      PROVE  TypeOK'
  <2>1. UNCHANGED <<row, local, checkout, github, orphans, kept>>
    BY <1>1 DEF Reading, Promote, Dispose, Review, CanonicalHead, RemoteBase,
         Tip, Staged, Verify, Recheck, RemoteHead, Find, ReadBack, Identity,
         Fails, Check
  <2> QED
    BY <1>1, <2>1, ThreadTypes, LocalsTypes
       DEF TypeOK, local, checkout, github
<1>2. ASSUME NEW t \in Threads, Commanding(t)
      PROVE  TypeOK'
  <2>1. UNCHANGED <<row, checkout, orphans, kept>>
    BY <1>2 DEF Commanding, Add, Commit, Push, Create, Remove, Delete
  <2>2. \/ GitAdd \/ GitCommit \/ GitPush \/ PrCreate \/ WorktreeRemove
        \/ BranchDelete \/ UNCHANGED <<local, github>>
    BY <1>2 DEF Commanding, Add, Commit, Push, Create, Remove, Delete
  <2> QED
    BY <1>0, <1>2, <2>1, <2>2, CommandTypes, ThreadTypes, LocalsTypes
       DEF TypeOK, checkout
<1>3. ASSUME NEW t \in Threads, record_promotion(t)
      PROVE  TypeOK'
  <2>1. UNCHANGED <<local, checkout, github, orphans, kept>>
    BY <1>3 DEF record_promotion
  <2>2. req[t].sha \in Histories /\ req[t].pr \in Nat
    BY DEF TypeOK
  <2>3. row' \in [execution: {"succeeded", "failed"},
                  disposition: {"none", "keep", "discard"},
                  promotion: [sha: Histories, pr: Nat]]
    BY <1>3, <2>2 DEF record_promotion, TypeOK
  <2> QED
    BY <1>3, <2>1, <2>3, ThreadTypes, LocalsTypes
       DEF TypeOK, local, checkout, github
<1>4. ASSUME NEW t \in Threads, record_disposition(t)
      PROVE  TypeOK'
  <2>1. UNCHANGED <<local, checkout, github, orphans>>
    BY <1>4 DEF record_disposition
  <2>2. req[t].kind \in {"keep", "discard"}
    BY <1>4 DEF record_disposition, PromotionDiscipline, RequestLocals
  <2>3. row' \in [execution: {"succeeded", "failed"},
                  disposition: {"none", "keep", "discard"},
                  promotion: [sha: Histories, pr: Nat]]
    BY <1>4, <2>2 DEF record_disposition, TypeOK
  <2>4. kept' \in BOOLEAN
    BY <1>4 DEF record_disposition
  <2> QED
    BY <1>4, <2>1, <2>3, <2>4, ThreadTypes, LocalsTypes
       DEF TypeOK, local, checkout, github
<1>5. ASSUME NEW c \in Commands, OrphanRuns(c)
      PROVE  TypeOK'
  <2>1. \/ GitAdd \/ GitCommit \/ GitPush \/ PrCreate \/ WorktreeRemove
        \/ BranchDelete \/ UNCHANGED <<local, github>>
    BY <1>5 DEF OrphanRuns
  <2>2. UNCHANGED <<row, checkout, pc, req, kept>> /\ orphans' \subseteq orphans
    BY <1>5 DEF OrphanRuns
  <2> QED
    BY <1>0, <2>1, <2>2, CommandTypes DEF TypeOK, checkout
<1>6. CASE Crash
  <2>1. UNCHANGED <<row, local, checkout, github, kept>>
    BY <1>6 DEF Crash
  <2>2. orphans' \subseteq Commands
    BY <1>6, PromotionAssumption DEF Crash, TypeOK
  <2>3. /\ pc' \in [Threads -> Steps]
        /\ req' \in [Threads -> [kind: Kinds \cup {"none"}, dirty: BOOLEAN,
                          untidy: BOOLEAN, head: Nat, sha: Histories,
                          pr: Nat]]
    BY <1>6 DEF Crash, Steps, NoRequest, Histories
  <2> QED
    BY <2>1, <2>2, <2>3 DEF TypeOK, local, checkout, github
<1>7. CASE Environment
  <2>1. CASE BaseAdvances
    <3>a. base' \in Nat /\ merged' \in Nat
      BY <2>1 DEF BaseAdvances, TypeOK
    <3>b. \/ pulls' = pulls
          \/ \E n \in DOMAIN pulls : pulls' = [pulls EXCEPT ![n] = "merged"]
      BY <2>1 DEF BaseAdvances
    <3>c. pulls' \in Seq({"open", "merged", "closed"})
      <4>1. CASE pulls' = pulls
        BY <4>1 DEF TypeOK
      <4>2. CASE \E n \in DOMAIN pulls : pulls' = [pulls EXCEPT ![n] = "merged"]
        <5>1. PICK n \in DOMAIN pulls : pulls' = [pulls EXCEPT ![n] = "merged"]
          BY <4>2
        <5> QED
          BY <5>1 DEF TypeOK
      <4> QED
        BY <3>b, <4>1, <4>2
    <3>1. base' \in Nat /\ merged' \in Nat
          /\ pulls' \in Seq({"open", "merged", "closed"})
      BY <3>a, <3>c
    <3> QED
      BY <2>1, <3>1 DEF BaseAdvances, TypeOK, local, checkout
  <2>2. CASE PullCloses
    <3>1. pulls' \in Seq({"open", "merged", "closed"})
      BY <2>2 DEF PullCloses, TypeOK
    <3> QED
      BY <2>2, <3>1 DEF PullCloses, TypeOK, local, checkout
  <2>3. CASE CheckoutMoves
    BY <2>3 DEF CheckoutMoves, TypeOK, local, github
  <2> QED
    BY <1>7, <2>1, <2>2, <2>3 DEF Environment
<1>8. CASE UNCHANGED vars
  BY <1>8 DEF TypeOK, vars, local, checkout, github
<1> QED
  BY <1>1, <1>2, <1>3, <1>4, <1>5, <1>6, <1>7, <1>8
     DEF Next, HandlerStep, Requests, Failures, Reading, Commanding

(* The inductive step: one case per kind of step.                          *)
LEMMA DisciplinePreserved ==
  ASSUME IInv, [Next]_vars
  PROVE  PromotionDiscipline'
<1>1. CASE UNCHANGED vars
  BY <1>1 DEF IInv, vars, local, checkout, github, PromotionDiscipline,
       CommittedOnce, VerifiedBranch, PushVerified, RowPromotion, RequestLocals
<1> QED
  BY <1>1, ReadingKeepsDiscipline, CommandingKeepsDiscipline,
     RecordsKeepDiscipline, OrphanKeepsDiscipline, CrashKeepsDiscipline,
     EnvironmentKeepsDiscipline
     DEF Next, HandlerStep, Requests, Failures, Reading, Commanding

(* The invariant holds at the start and is kept by every step.             *)
LEMMA Invariance == Spec => []IInv
<1>1. Init => IInv
  <2> SUFFICES ASSUME Init PROVE IInv
    OBVIOUS
  <2>1. /\ pc \in [Threads -> Steps]
        /\ req \in [Threads -> [kind: Kinds \cup {"none"}, dirty: BOOLEAN,
                          untidy: BOOLEAN, head: Nat, sha: Histories,
                          pr: Nat]]
    BY DEF Init, Steps, NoRequest, Histories
  <2>2. NoPromotion \in [sha: Histories, pr: Nat]
    BY DEF NoPromotion, Histories
  <2>3. row \in [execution: {"succeeded", "failed"},
                 disposition: {"none", "keep", "discard"},
                 promotion: [sha: Histories, pr: Nat]]
    BY <2>2 DEF Init
  <2>4. log \in Histories /\ remote \in Histories
        /\ pulls \in Seq({"open", "merged", "closed"})
    BY DEF Init, Histories
  <2>5. TypeOK
    BY <2>1, <2>3, <2>4 DEF Init, TypeOK
  <2>6. PromotionDiscipline
    BY DEF Init, PromotionDiscipline, CommittedOnce, PushVerified,
           RowPromotion, RequestLocals, Promoting, Verified, Published
  <2> QED
    BY <2>5, <2>6 DEF IInv
<1>2. IInv /\ [Next]_vars => IInv'
  BY TypesPreserved, DisciplinePreserved DEF IInv
<1> QED
  BY <1>1, <1>2, PTL DEF Spec

(* The types and the discipline hold in every reachable state of every     *)
(* instance: the facts promote has established when it reaches a step stay *)
(* true until it takes it, although nothing is locked.                     *)
THEOREM PromotionDisciplineHolds == Spec => [](TypeOK /\ PromotionDiscipline)
<1>1. IInv => TypeOK /\ PromotionDiscipline
  BY DEF IInv
<1> QED
  BY <1>1, Invariance, PTL

(* One commit per work product, however promote is retried, overlapped or  *)
(* cut off (_create_or_recover_commit).                                    *)
THEOREM CommitsOnce == Spec => []OneCommit
<1>1. IInv => OneCommit
  BY DEF IInv, TypeOK, PromotionDiscipline, CommittedOnce, OneCommit
<1> QED
  BY <1>1, Invariance, PTL

(* Only kept work of a succeeded run reaches the remote, as VELOX's own    *)
(* commit (_verify_action, _verify_commit).                                *)
THEOREM PublishesOnlyKept == Spec => []OnlyKeptIsPublished
<1>1. IInv => OnlyKeptIsPublished
  BY DEF IInv, PromotionDiscipline, OnlyKeptIsPublished
<1> QED
  BY <1>1, Invariance, PTL

(* A row that says promoted names a commit on the remote and an existing   *)
(* pull request (promote, record_promotion).                               *)
THEOREM RecordsArePublished == Spec => []RecordedIsPublished
<1>1. IInv => RecordedIsPublished
  <2> SUFFICES ASSUME IInv, row.promotion # NoPromotion
               PROVE  row.promotion.sha = remote
                      /\ row.promotion.pr \in DOMAIN pulls
    BY DEF RecordedIsPublished
  <2>1. row.promotion.sha = remote /\ row.promotion.pr = 1 /\ pulls # <<>>
    BY DEF IInv, PromotionDiscipline, RowPromotion
  <2>2. 1 \in DOMAIN pulls
    BY <2>1 DEF IInv, TypeOK
  <2> QED
    BY <2>1, <2>2
<1> QED
  BY <1>1, Invariance, PTL

(* A recorded promotion never changes, also when two promote requests      *)
(* record one after the other (promote reads the row first, writes last).  *)
THEOREM PromotionsAreFinal == Spec => PromotionIsFinal
<1>1. IInv /\ IInv' /\ [Next]_vars =>
        [row.promotion # NoPromotion => row'.promotion = row.promotion]_vars
  <2> SUFFICES ASSUME IInv, IInv', [Next]_vars, row.promotion # NoPromotion
               PROVE  row'.promotion = row.promotion
    OBVIOUS
  <2>1. row.promotion = [sha |-> <<"velox">>, pr |-> 1]
    BY DEF IInv, PromotionDiscipline, RowPromotion
  <2>2. CASE \E t \in Threads : record_promotion(t)
    <3>1. PICK t \in Threads : record_promotion(t)
      BY <2>2
    <3>2. req[t].sha = <<"velox">> /\ req[t].pr = 1
      BY <3>1 DEF record_promotion, IInv, PromotionDiscipline, RequestLocals,
                  Verified
    <3> QED
      BY <2>1, <3>1, <3>2 DEF record_promotion, IInv, TypeOK
  <2>3. CASE \E t \in Threads : record_disposition(t)
    BY <2>3 DEF record_disposition, IInv, TypeOK
  <2>4. CASE UNCHANGED row
    BY <2>4
  <2>5. \/ \E t \in Threads : record_promotion(t) \/ record_disposition(t)
        \/ UNCHANGED row
    <3>1. ASSUME NEW t \in Threads, HandlerStep(t) \/ Requests(t)
          PROVE  record_promotion(t) \/ record_disposition(t) \/ UNCHANGED row
      BY <3>1 DEF HandlerStep, Requests, Promote, Dispose, Review,
           CanonicalHead, RemoteBase, Tip, Staged, Verify, Recheck, RemoteHead,
           Find, ReadBack, Identity, Check, Add, Commit, Push, Create, Remove,
           Delete
    <3> QED
      BY <3>1 DEF Next, Failures, Crash, Fails, OrphanRuns, Environment,
           BaseAdvances, PullCloses, CheckoutMoves, vars
  <2> QED
    BY <2>2, <2>3, <2>4, <2>5
<1> QED
  BY <1>1, Invariance, PTL DEF Spec, PromotionIsFinal

---------------------------------------------------------------------------
(* One request at a time, and no commit or pull request made by a command  *)
(* that outlived the server.                                               *)
OneAtATime == Overlapping = {} /\ Outliving \cap {"commit", "create"} = {}

(* The promotion commit, if there is one, is in the base branch.           *)
Landed == commits = 0 \/ merged # 0

(* What the request being served has found out still stands.               *)
Standing(t) ==
  /\ pc[t] = "create" => pulls = <<>>
  /\ pc[t] \in {"remove", "delete"} => Landed
  /\ pc[t] = "delete" => ~dir

SerialInv ==
  /\ \A t, u \in Threads : t # u => pc[t] = "idle" \/ pc[u] = "idle"
  /\ orphans \cap {"commit", "create"} = {}
  /\ "delete" \in orphans => ~dir /\ Landed
  /\ OnePullRequest /\ CommitsSurviveDiscard
  /\ \A t \in Threads : Standing(t)

(* A request starts when nobody else is served, and is served alone.       *)
LEMMA ServedAlone ==
  ASSUME IInv, OneAtATime, SerialInv, NEW t \in Threads,
         Reading(t) \/ Commanding(t) \/ record_promotion(t) \/ record_disposition(t)
  PROVE  \A u \in Threads \ {t} : pc[u] = "idle" /\ pc'[u] = "idle"
<1>1. \A u \in Threads \ {t} : pc'[u] = pc[u]
  BY DEF IInv, TypeOK, Reading, Promote, Dispose, Review, CanonicalHead, RemoteBase,
         Tip, Staged, Verify, Recheck, RemoteHead, Find, ReadBack, Identity,
         Fails, Check, Go, Finish, _create_or_recover_commit, _find,
         Commanding, Add, Commit, Push, Create, Remove, Delete,
         record_promotion, record_disposition
<1>2. CASE pc[t] = "idle"
  <2>1. Promote(t) \/ \E kind \in {"keep", "discard"} : Dispose(t, kind)
    BY <1>2 DEF Reading, Review, CanonicalHead, RemoteBase, Tip, Staged, Verify,
         Recheck, RemoteHead, Find, ReadBack, Identity, Fails, Check, Commanding, Add,
         Commit, Push, Create, Remove, Delete, record_promotion, record_disposition
  <2>2. \A u \in Threads : pc[u] = "idle"
    BY <2>1 DEF Promote, Dispose, MayStart, OneAtATime
  <2> QED BY <1>1, <2>2
<1>3. CASE pc[t] # "idle"
  BY <1>1, <1>3 DEF SerialInv
<1> QED BY <1>2, <1>3

(* What is left to show of a step of the request being served.             *)
LEMMA ServedStep ==
  ASSUME IInv, OneAtATime, SerialInv, NEW t \in Threads,
         Reading(t) \/ Commanding(t) \/ record_promotion(t) \/ record_disposition(t),
         orphans' = orphans, "delete" \in orphans => (~dir /\ Landed)',
         OnePullRequest', CommitsSurviveDiscard', Standing(t)'
  PROVE  SerialInv'
<1>1. \A u \in Threads \ {t} : pc[u] = "idle" /\ pc'[u] = "idle"
  BY ServedAlone
<1>2. \A u \in Threads : Standing(u)'
  BY <1>1 DEF Standing
<1>3. \A u, v \in Threads : u # v => pc'[u] = "idle" \/ pc'[v] = "idle"
  BY <1>1
<1> QED BY <1>2, <1>3 DEF SerialInv

(* A step that reads.                                                      *)
LEMMA ReadingKeepsSerial ==
  ASSUME IInv, OneAtATime, SerialInv, NEW t \in Threads,
         Reading(t) \/ record_promotion(t) \/ record_disposition(t)
  PROVE  SerialInv'
<1>1. /\ dir' = dir /\ branch' = branch /\ log' = log /\ commits' = commits
      /\ merged' = merged /\ pulls' = pulls /\ orphans' = orphans
  BY DEF Reading, Promote, Dispose, Review, CanonicalHead, RemoteBase, Tip,
         Staged, Verify, Recheck, RemoteHead, Find, ReadBack, Identity, Fails,
         Check, record_promotion, record_disposition, local, github
<1>2. OnePullRequest' /\ CommitsSurviveDiscard' /\ (Landed <=> Landed')
  BY <1>1 DEF SerialInv, OnePullRequest, CommitsSurviveDiscard, Landed
<1>3. pc'[t] = "create" => pulls = <<>>
  <2>1. ASSUME pc'[t] = "create" PROVE Find(t) /\ matches = {}
    BY <2>1 DEF IInv, TypeOK, Reading, Promote, Dispose, Review, CanonicalHead,
         RemoteBase, Tip, Staged, Verify, Recheck, RemoteHead, Find, ReadBack, Identity,
         Fails, Check, Go, Finish, _create_or_recover_commit, _find,
         record_promotion, record_disposition
  <2>2. matches = {} => pulls = <<>>
    <3>1. Len(pulls) \in Nat /\ matches = 1..Len(pulls)
      BY DEF IInv, TypeOK, matches
    <3>2. matches = {} => Len(pulls) = 0
      BY <3>1
    <3> QED BY <3>2 DEF IInv, TypeOK
  <2> QED BY <2>1, <2>2
<1>4. pc'[t] \in {"remove", "delete"} => pc'[t] = "remove" /\ Landed
  <2>1. ASSUME pc'[t] \in {"remove", "delete"} PROVE Identity(t) /\ discardable /\ pc'[t] = "remove"
    BY <2>1 DEF IInv, TypeOK, Reading, Promote, Dispose, Review, CanonicalHead,
         RemoteBase, Tip, Staged, Verify, Recheck, RemoteHead, Find, ReadBack, Identity,
         Fails, Check, Go, Finish, _create_or_recover_commit, _find,
         record_promotion, record_disposition
  <2>2. discardable => Landed
    BY DEF discardable, Contains, Landed, SerialInv, CommitsSurviveDiscard, IInv, TypeOK
  <2> QED BY <2>1, <2>2
<1>5. Standing(t)'
  BY <1>1, <1>2, <1>3, <1>4 DEF Standing
<1> QED BY <1>1, <1>2, <1>5, ServedStep DEF SerialInv

(* A step that runs a command.                                             *)
LEMMA CommandingKeepsSerial ==
  ASSUME IInv, OneAtATime, SerialInv, NEW t \in Threads, Commanding(t)
  PROVE  SerialInv'
<1>1. orphans' = orphans /\ Standing(t)
  BY DEF Commanding, Add, Commit, Push, Create, Remove, Delete, SerialInv
<1>2. /\ dir \in BOOLEAN /\ branch \in BOOLEAN /\ Len(pulls) \in Nat /\ commits \in Nat
      /\ pulls \in Seq({"open", "merged", "closed"}) /\ log \in Histories
  BY DEF IInv, TypeOK
<1>3. CASE Add(t) \/ Push(t)
  <2>1. /\ UNCHANGED <<dir, branch, log, commits, merged, pulls>>
        /\ pc'[t] \notin {"create", "remove", "delete"}
    BY <1>3 DEF Add, Push, GitAdd, GitPush, Go, Finish, IInv, TypeOK, local, github
  <2>2. OnePullRequest' /\ CommitsSurviveDiscard' /\ (Landed <=> Landed')
    BY <2>1 DEF SerialInv, OnePullRequest, CommitsSurviveDiscard, Landed
  <2>3. Standing(t)'
    BY <2>1 DEF Standing
  <2> QED BY <1>1, <2>1, <2>2, <2>3, ServedStep DEF SerialInv
<1>4. CASE Commit(t)
  <2>1. pc'[t] \notin {"create", "remove", "delete"}
    BY <1>4 DEF Commit, Go, Finish, IInv, TypeOK
  <2>2. Standing(t)'
    BY <2>1 DEF Standing
  <2>3. UNCHANGED <<dir, branch, merged, pulls>>
    BY <1>4 DEF Commit, GitCommit, local, github
  <2>4. \/ UNCHANGED <<log, commits>>
        \/ dir /\ branch /\ log' # <<>>
    <3>1. CASE GitCommit
      <4>1. dir /\ branch /\ log' = Append(log, "velox")
        BY <3>1 DEF GitCommit, CanCommit
      <4>2. Append(log, "velox") # <<>>
        BY <1>2 DEF Histories
      <4> QED BY <4>1, <4>2
    <3> QED BY <1>4, <3>1 DEF Commit, local
  <2>5. OnePullRequest' /\ CommitsSurviveDiscard'
    BY <2>3, <2>4 DEF SerialInv, OnePullRequest, CommitsSurviveDiscard
  <2>6. "delete" \in orphans => (~dir /\ Landed)'
    BY <2>3, <2>4 DEF SerialInv, Landed
  <2> QED BY <1>1, <2>2, <2>5, <2>6, ServedStep
<1>5. CASE Create(t)
  <2>1. /\ UNCHANGED <<dir, branch, log, commits, merged>> /\ pc[t] = "create"
        /\ pc'[t] \notin {"create", "remove", "delete"}
        /\ UNCHANGED pulls \/ pulls' = Append(pulls, "open")
    BY <1>5 DEF Create, PrCreate, Go, Finish, IInv, TypeOK, local, github
  <2>2. pulls = <<>>
    BY <1>1, <2>1 DEF Standing
  <2>3. Len(pulls') <= 1
    <3>1. Len(Append(pulls, "open")) = Len(pulls) + 1 /\ Len(pulls) = 0
      BY <1>2, <2>2
    <3>2. Len(pulls') = 0 \/ Len(pulls') = 1
      <4>1. CASE pulls' = pulls
        BY <3>1, <4>1
      <4>2. CASE pulls' = Append(pulls, "open")
        BY ONLY <3>1, <4>2
      <4>3. pulls' = pulls \/ pulls' = Append(pulls, "open")
        BY <2>1
      <4> QED BY <4>1, <4>2, <4>3
    <3>3. PICK n \in {0, 1} : n = Len(pulls')
      BY <3>2
    <3>4. n <= 1
      OBVIOUS
    <3> QED BY <3>3, <3>4, Zenon
  <2>4. OnePullRequest' /\ CommitsSurviveDiscard' /\ (Landed <=> Landed')
    BY <2>1, <2>3 DEF SerialInv, OnePullRequest, CommitsSurviveDiscard, Landed
  <2>5. Standing(t)'
    BY <2>1 DEF Standing
  <2> QED BY <1>1, <2>1, <2>4, <2>5, ServedStep DEF SerialInv
<1>6. CASE Remove(t)
  <2>1. /\ UNCHANGED <<branch, log, commits, merged, pulls>> /\ pc[t] = "remove"
        /\ pc'[t] = "delete" /\ dir' = FALSE
    BY <1>6 DEF Remove, WorktreeRemove, Go, IInv, TypeOK, github
  <2>2. Landed /\ Landed'
    BY <1>1, <2>1 DEF Standing, Landed
  <2>3. OnePullRequest' /\ CommitsSurviveDiscard'
    BY <2>1 DEF SerialInv, OnePullRequest, CommitsSurviveDiscard
  <2>4. Standing(t)'
    BY <2>1, <2>2 DEF Standing
  <2> QED BY <1>1, <2>1, <2>2, <2>3, <2>4, ServedStep
<1>7. CASE Delete(t)
  <2>1. /\ UNCHANGED <<dir, commits, merged, pulls>> /\ pc[t] = "delete"
        /\ pc'[t] \notin {"create", "remove", "delete"}
    BY <1>7 DEF Delete, BranchDelete, Go, Finish, IInv, TypeOK, github
  <2>2. Landed /\ Landed' /\ ~dir
    BY <1>1, <2>1 DEF Standing, Landed
  <2>3. OnePullRequest' /\ CommitsSurviveDiscard'
    BY <1>2, <2>1, <2>2 DEF SerialInv, OnePullRequest, CommitsSurviveDiscard, Landed
  <2>4. Standing(t)'
    BY <2>1 DEF Standing
  <2> QED BY <1>1, <2>1, <2>2, <2>3, <2>4, ServedStep
<1> QED BY <1>3, <1>4, <1>5, <1>6, <1>7 DEF Commanding

(* A command that outlived the server neither commits nor opens a pull     *)
(* request, and deletes only a branch that has landed.                     *)
LEMMA OrphanKeepsSerial ==
  ASSUME IInv, OneAtATime, SerialInv, NEW c \in Commands, OrphanRuns(c)
  PROVE  SerialInv'
<1>1. /\ UNCHANGED pc /\ orphans' \subseteq orphans /\ c \notin {"commit", "create"}
      /\ c \in orphans
  BY DEF OrphanRuns, SerialInv
<1>2. UNCHANGED <<commits, merged, pulls>>
  BY <1>1 DEF OrphanRuns, GitAdd, GitPush, WorktreeRemove, BranchDelete, local, github
<1>3. dir' = dir \/ dir' = FALSE
  BY <1>1 DEF OrphanRuns, GitAdd, GitPush, WorktreeRemove, BranchDelete, local, github
<1>4. UNCHANGED <<branch, log>> \/ c = "delete"
  BY <1>1 DEF OrphanRuns, GitAdd, GitPush, WorktreeRemove, BranchDelete, local, github
<1>5. Landed <=> Landed'
  BY <1>2 DEF Landed
<1>6. OnePullRequest'
  BY <1>2 DEF SerialInv, OnePullRequest
<1>7. CommitsSurviveDiscard'
  <2>1. CASE UNCHANGED <<branch, log>>
    BY <1>2, <2>1 DEF SerialInv, CommitsSurviveDiscard
  <2>2. CASE c = "delete"
    <3>1. Landed'
      BY <1>1, <1>5, <2>2 DEF SerialInv
    <3> QED BY <3>1 DEF Landed, CommitsSurviveDiscard
  <2> QED BY <1>4, <2>1, <2>2
<1>8. \A t \in Threads : Standing(t)'
  BY <1>1, <1>2, <1>3, <1>5 DEF SerialInv, Standing
<1>9. /\ orphans' \cap {"commit", "create"} = {}
      /\ "delete" \in orphans' => (~dir /\ Landed)'
      /\ \A t, u \in Threads : t # u => pc'[t] = "idle" \/ pc'[u] = "idle"
  BY <1>1, <1>3, <1>5 DEF SerialInv
<1> QED BY <1>6, <1>7, <1>8, <1>9 DEF SerialInv

(* A crash ends the request; the command in flight goes on.                *)
LEMMA CrashKeepsSerial ==
  ASSUME IInv, OneAtATime, SerialInv, Crash
  PROVE  SerialInv'
<1>1. UNCHANGED <<dir, branch, log, commits, merged, pulls>>
  BY DEF Crash, local, github
<1>2. \A t \in Threads : pc'[t] = "idle"
  BY DEF Crash
<1>3. OnePullRequest' /\ CommitsSurviveDiscard' /\ (Landed <=> Landed')
  BY <1>1 DEF SerialInv, OnePullRequest, CommitsSurviveDiscard, Landed
<1>4. orphans' \subseteq orphans \cup ({pc[t] : t \in Threads} \cap Outliving)
  BY DEF Crash
<1>5. orphans' \cap {"commit", "create"} = {}
  BY <1>4 DEF SerialInv, OneAtATime
<1>6. "delete" \in orphans' => (~dir /\ Landed)'
  BY <1>1, <1>3, <1>4 DEF SerialInv, Standing
<1>7. \A t \in Threads : Standing(t)'
  BY <1>2 DEF Standing
<1> QED BY <1>2, <1>3, <1>5, <1>6, <1>7 DEF SerialInv

(* Others merge or close the pull request: its number stays.               *)
LEMMA EnvironmentKeepsSerial ==
  ASSUME IInv, OneAtATime, SerialInv, Environment
  PROVE  SerialInv'
<1>1. UNCHANGED <<dir, branch, log, commits, pc, orphans>>
  BY DEF Environment, BaseAdvances, PullCloses, CheckoutMoves, local
<1>2. merged' = merged \/ merged' # 0
  BY DEF Environment, BaseAdvances, PullCloses, CheckoutMoves, github, IInv, TypeOK
<1>3. /\ pulls \in Seq({"open", "merged", "closed"})
      /\ \/ pulls' = pulls
         \/ \E n \in DOMAIN pulls : pulls' = [pulls EXCEPT ![n] = "merged"]
         \/ \E n \in DOMAIN pulls : pulls' = [pulls EXCEPT ![n] = "closed"]
  BY DEF Environment, BaseAdvances, PullCloses, CheckoutMoves, github, IInv, TypeOK
<1>4. Len(pulls') = Len(pulls) /\ (pulls = <<>> => pulls' = <<>>)
  BY <1>3
<1>5. (Landed => Landed') /\ CommitsSurviveDiscard' /\ OnePullRequest'
  BY <1>1, <1>2, <1>4 DEF Landed, SerialInv, CommitsSurviveDiscard, OnePullRequest
<1>6. \A t \in Threads : Standing(t)'
  BY <1>1, <1>4, <1>5 DEF SerialInv, Standing
<1> QED BY <1>1, <1>5, <1>6 DEF SerialInv

(* One step keeps the invariant of the requests served one at a time.      *)
LEMMA SerialPreserved ==
  ASSUME IInv, OneAtATime, SerialInv, [Next]_vars
  PROVE  SerialInv'
<1>1. CASE UNCHANGED vars
  BY <1>1 DEF vars, local, github, SerialInv, OnePullRequest, CommitsSurviveDiscard,
              Standing, Landed
<1> QED
  BY <1>1, ReadingKeepsSerial, CommandingKeepsSerial, OrphanKeepsSerial, CrashKeepsSerial,
     EnvironmentKeepsSerial
     DEF Next, HandlerStep, Requests, Failures, Reading, Commanding

(* Requests served one at a time, with no commit or pull request left to a *)
(* process that outlived the server.                                       *)
THEOREM ServedInTurn == OneAtATime => (Spec => []SerialInv)
<1> SUFFICES ASSUME OneAtATime PROVE Spec => []SerialInv
  OBVIOUS
<1>1. Init => SerialInv
  BY DEF Init, SerialInv, OnePullRequest, CommitsSurviveDiscard, Standing
<1>2. IInv /\ SerialInv /\ [Next]_vars => SerialInv'
  BY SerialPreserved
<1> QED BY <1>1, <1>2, Invariance, PTL DEF Spec

(* However often it is retried or crashes, and whoever closes or merges    *)
(* pull requests meanwhile, promote opens one (_find, _create).            *)
THEOREM OpensOnePull == OneAtATime => (Spec => []OnePullRequest)
<1>1. SerialInv => OnePullRequest
  BY DEF SerialInv
<1> QED BY <1>1, ServedInTurn, PTL

(* DISCARD never destroys a promotion commit that no base contains, also   *)
(* when its commands outlive the server (discard).                         *)
THEOREM DiscardSparesCommits == OneAtATime => (Spec => []CommitsSurviveDiscard)
<1>1. SerialInv => CommitsSurviveDiscard
  BY DEF SerialInv
<1> QED BY <1>1, ServedInTurn, PTL
=============================================================================
