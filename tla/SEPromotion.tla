---------------------------- MODULE SEPromotion ----------------------------
(***************************************************************************)
(* What happens to the work product of one finished Software Engineering   *)
(* Action: KEEP, DISCARD and PROMOTE requests on a pool of threads over    *)
(*   - the durable row,                                                    *)
(*   - the Action's worktree and branch, and the canonical checkout,       *)
(*   - the git remote and its pull requests.                               *)
(* Every command is a child process in a session of its own: a crash of    *)
(* the server leaves the one in flight running.                            *)
(***************************************************************************)
EXTENDS Naturals, Sequences, FiniteSets

CONSTANTS
  Threads,      \* threads of the server's request pool
  Overlapping,  \* request kinds sent while another request is being served
  Outliving,    \* commands that may outlive a crash of the server
  Closing,      \* whether pull requests may be closed without a merge
  MaxBase       \* bound: how often the remote base branch advances

Kinds == {"keep", "discard", "promote"}
Commands == {"add", "commit", "push", "create", "remove", "delete"}

ASSUME PromotionAssumption ==
  /\ Overlapping \subseteq Kinds
  /\ Outliving \subseteq Commands
  /\ Closing \in BOOLEAN
  /\ MaxBase \in Nat

VARIABLES
  row,        \* execution, disposition and promotion columns of the row
  dir,        \* the derived worktree exists and is registered
  tree,       \* its files: "dirty", "staged" or "clean"
  branch,     \* the derived local branch exists
  log,        \* its commits beyond the one the worktree was created from
  canonical,  \* HEAD of the canonical checkout, 0 when the worktree was made
  untidy,     \* the canonical checkout has uncommitted changes
  base,       \* the remote base branch
  merged,     \* first base that contains the promotion, 0 if none does
  remote,     \* commits of the branch on the remote, <<>> if it is not there
  pulls,      \* pull requests of the branch, in the order of their numbers
  orphans,    \* commands that outlived the server process
  pc, req,    \* where each thread is, and its locals
  kept,       \* history: KEEP has been recorded
  commits     \* history: promotion commits made

local == <<dir, tree, branch, log, commits>>
checkout == <<canonical, untidy>>
github == <<base, merged, remote, pulls>>
vars == <<row, local, checkout, github, orphans, pc, req, kept>>

NoPromotion == [sha |-> <<>>, pr |-> 0]

Steps == Commands \cup {"idle", "review", "head", "base", "tip", "staged",
           "verify", "recheck", "remote", "find", "readback", "record",
           "identity", "put"}

NoRequest == [kind |-> "none", dirty |-> FALSE, untidy |-> FALSE, head |-> 0,
              sha |-> <<>>, pr |-> 0]

(* The run is over.  It may have failed, changed nothing, or have left a   *)
(* commit of the worker's own.                                             *)
Init ==
  /\ row \in [execution: {"succeeded", "failed"}, disposition: {"none"},
              promotion: {NoPromotion}]
  /\ dir = TRUE /\ branch = TRUE
  /\ tree \in {"dirty", "clean"}
  /\ log \in {<<>>, <<"worker">>}
  /\ canonical = 0 /\ untidy = FALSE
  /\ base = 0 /\ merged = 0 /\ remote = <<>> /\ pulls = <<>>
  /\ orphans = {}
  /\ pc = [t \in Threads |-> "idle"]
  /\ req = [t \in Threads |-> NoRequest]
  /\ kept = FALSE /\ commits = 0

Go(t, step) == pc' = [pc EXCEPT ![t] = step]

Finish(t) ==
  /\ pc' = [pc EXCEPT ![t] = "idle"]
  /\ req' = [req EXCEPT ![t] = NoRequest]

(* A step that only reads: the handler goes on, or it refuses.             *)
Check(t, from, ok, to) ==
  /\ pc[t] = from
  /\ \/ ok /\ Go(t, to) /\ UNCHANGED req
     \/ ~ok /\ Finish(t)
  /\ UNCHANGED <<row, local, checkout, github, orphans, kept>>

MayStart(t, kind) ==
  /\ pc[t] = "idle"
  /\ kind \in Overlapping \/ \A u \in Threads : pc[u] = "idle"

(* The base b contains the promoted commits.                               *)
Contains(b) == merged # 0 /\ b >= merged

---------------------------------------------------------------------------
(* The commands: when they succeed, and what they do.                      *)

CanCommit_AllowEmpty == dir /\ branch
CanCommit == dir /\ branch /\ tree = "staged"

CanPush == branch /\ Len(remote) <= Len(log)

CanCreate ==
  /\ remote # <<>> /\ ~Contains(base)
  /\ \A n \in DOMAIN pulls : pulls[n] # "open"

GitAdd ==
  /\ tree' = IF dir /\ tree = "dirty" THEN "staged" ELSE tree
  /\ UNCHANGED <<dir, branch, log, commits, github>>

GitCommit ==
  /\ CanCommit
  /\ log' = Append(log, "velox")
  /\ tree' = "clean"
  /\ commits' = commits + 1
  /\ UNCHANGED <<dir, branch, github>>

GitPush ==
  /\ CanPush
  /\ remote' = log
  /\ UNCHANGED <<local, base, merged, pulls>>

PrCreate ==
  /\ CanCreate
  /\ pulls' = Append(pulls, "open")
  /\ UNCHANGED <<local, base, merged, remote>>

WorktreeRemove ==
  /\ dir' = FALSE
  /\ tree' = "clean"
  /\ UNCHANGED <<branch, log, commits, github>>

(* git refuses to delete a branch that is checked out.                     *)
BranchDelete ==
  /\ branch' = (branch /\ dir)
  /\ log' = IF branch /\ dir THEN log ELSE <<>>
  /\ UNCHANGED <<dir, tree, commits, github>>

---------------------------------------------------------------------------
(* POST /tasks/software-engineering/{id}/promote                           *)

_verify_action_Unkept(r) == r.execution = "succeeded"
_verify_action(r) == r.execution = "succeeded" /\ r.disposition = "keep"

(* A recorded promotion is returned as it is; nothing else happens.        *)
Promote(t) ==
  /\ MayStart(t, "promote")
  /\ _verify_action(row)
  /\ row.promotion = NoPromotion
  /\ Go(t, "review")
  /\ req' = [req EXCEPT ![t].kind = "promote"]
  /\ UNCHANGED <<row, local, checkout, github, orphans, kept>>

Review(t) ==
  /\ pc[t] = "review"
  /\ \/ /\ dir /\ ~untidy
        /\ Go(t, "head")
        /\ req' = [req EXCEPT ![t].dirty = (tree # "clean")]
     \/ ~(dir /\ ~untidy) /\ Finish(t)
  /\ UNCHANGED <<row, local, checkout, github, orphans, kept>>

(* The canonical checkout must be clean; its HEAD is the expected parent.  *)
CanonicalHead(t) ==
  /\ pc[t] = "head"
  /\ \/ /\ ~untidy
        /\ Go(t, "base")
        /\ req' = [req EXCEPT ![t].head = canonical]
     \/ untidy /\ Finish(t)
  /\ UNCHANGED <<row, local, checkout, github, orphans, kept>>

RemoteBase(t) == Check(t, "base", base = req[t].head, "tip")

(* Whether to create the commit or to recover one made before: dirty was   *)
(* read in Review, HEAD of the worktree now.                               *)
_create_or_recover_commit_CreatesOnly(t, new) ==
  \/ new /\ req[t].dirty /\ Go(t, "add") /\ UNCHANGED req
  \/ ~new /\ ~req[t].dirty /\ Finish(t)
_create_or_recover_commit(t, new) ==
  \/ new /\ req[t].dirty /\ Go(t, "add") /\ UNCHANGED req
  \/ /\ ~new /\ ~req[t].dirty
     /\ Go(t, "verify")
     /\ req' = [req EXCEPT ![t].sha = log]

Tip(t) ==
  LET new == log = <<>> /\ req[t].head = 0
      usable == dir /\ (new <=> req[t].dirty)
  IN /\ pc[t] = "tip"
     /\ \/ usable /\ _create_or_recover_commit(t, new)
        \/ ~usable /\ Finish(t)
     /\ UNCHANGED <<row, local, checkout, github, orphans, kept>>

Add(t) ==
  /\ pc[t] = "add"
  /\ GitAdd
  /\ Go(t, "staged")
  /\ UNCHANGED <<row, checkout, orphans, req, kept>>

Staged(t) == Check(t, "staged", dir /\ tree = "staged", "commit")

Commit(t) ==
  /\ pc[t] = "commit"
  /\ \/ /\ GitCommit
        /\ Go(t, "verify")
        /\ req' = [req EXCEPT ![t].sha = Append(log, "velox")]
     \/ ~CanCommit /\ Finish(t) /\ UNCHANGED <<local, github>>
  /\ UNCHANGED <<row, checkout, orphans, kept>>

(* Exactly one commit beyond the canonical HEAD, a child of it, carrying   *)
(* the trailer of the Action, on the branch, and nothing left over.        *)
_verify_commit_NoTrailer(head, sha) ==
  /\ ~Contains(head) /\ Len(sha) = 1
  /\ head = 0
  /\ branch /\ log = sha
  /\ dir /\ tree = "clean"
_verify_commit(head, sha) ==
  /\ ~Contains(head) /\ Len(sha) = 1
  /\ head = 0
  /\ sha[Len(sha)] = "velox"
  /\ branch /\ log = sha
  /\ dir /\ tree = "clean"

Verify(t) ==
  Check(t, "verify", _verify_commit(req[t].head, req[t].sha), "recheck")

Recheck(t) ==
  Check(t, "recheck", canonical = req[t].head /\ ~untidy, "push")

Push(t) ==
  /\ pc[t] = "push"
  /\ \/ GitPush /\ Go(t, "remote") /\ UNCHANGED req
     \/ ~CanPush /\ Finish(t) /\ UNCHANGED <<local, github>>
  /\ UNCHANGED <<row, checkout, orphans, kept>>

RemoteHead(t) == Check(t, "remote", remote = req[t].sha, "find")

(* The pull requests of the branch in any state.                           *)
matches_Open == {n \in DOMAIN pulls : pulls[n] = "open"}
matches == DOMAIN pulls

(* More than one match is an error; otherwise the identity found, if any.  *)
_find_First(t, missing) ==
  \/ /\ matches # {}
     /\ Go(t, "record")
     /\ req' = [req EXCEPT ![t].pr = CHOOSE n \in matches :
                                       \A k \in matches : k <= n]
  \/ matches = {} /\ missing
_find(t, missing) ==
  \/ /\ Cardinality(matches) = 1
     /\ Go(t, "record")
     /\ req' = [req EXCEPT ![t].pr = CHOOSE n \in matches : TRUE]
  \/ matches = {} /\ missing
  \/ Cardinality(matches) > 1 /\ Finish(t)

Find(t) ==
  /\ pc[t] = "find"
  /\ _find(t, Go(t, "create") /\ UNCHANGED req)
  /\ UNCHANGED <<row, local, checkout, github, orphans, kept>>

Create_Unchecked(t) ==
  /\ pc[t] = "create"
  /\ PrCreate \/ (~CanCreate /\ UNCHANGED <<local, github>>)
  /\ Go(t, "record")
  /\ req' = [req EXCEPT ![t].pr = Len(pulls) + 1]
  /\ UNCHANGED <<row, checkout, orphans, kept>>
Create(t) ==
  /\ pc[t] = "create"
  /\ \/ PrCreate /\ Go(t, "readback") /\ UNCHANGED req
     \/ ~CanCreate /\ Finish(t) /\ UNCHANGED <<local, github>>
  /\ UNCHANGED <<row, checkout, orphans, kept>>

ReadBack(t) ==
  /\ pc[t] = "readback"
  /\ _find(t, Finish(t))
  /\ UNCHANGED <<row, local, checkout, github, orphans, kept>>

record_promotion(t) ==
  /\ pc[t] = "record"
  /\ row' = [row EXCEPT !.promotion = [sha |-> req[t].sha, pr |-> req[t].pr]]
  /\ Finish(t)
  /\ UNCHANGED <<local, checkout, github, orphans, kept>>

---------------------------------------------------------------------------
(* POST /tasks/software-engineering/{id}/work-product/disposition          *)

Dispose(t, kind) ==
  /\ MayStart(t, kind)
  /\ Go(t, "identity")
  /\ req' = [req EXCEPT ![t].kind = kind]
  /\ UNCHANGED <<row, local, checkout, github, orphans, kept>>

(* DISCARD refuses a branch with commits the canonical HEAD lacks.         *)
discardable_Always == TRUE
discardable == Contains(canonical) \/ log = <<>>

Identity(t) ==
  /\ pc[t] = "identity"
  /\ \/ dir /\ req[t].kind = "keep" /\ Go(t, "put") /\ UNCHANGED req
     \/ /\ dir /\ req[t].kind = "discard" /\ discardable
        /\ Go(t, "remove")
        /\ req' = [req EXCEPT ![t].untidy = untidy]
     \/ /\ ~dir \/ (req[t].kind = "discard" /\ ~discardable)
        /\ Finish(t)
  /\ UNCHANGED <<row, local, checkout, github, orphans, kept>>

Remove(t) ==
  /\ pc[t] = "remove"
  /\ WorktreeRemove
  /\ Go(t, "delete")
  /\ UNCHANGED <<row, checkout, orphans, req, kept>>

(* The result is recorded only if nothing remains and the canonical status *)
(* is what it was.                                                         *)
Delete(t) ==
  /\ pc[t] = "delete"
  /\ BranchDelete
  /\ \/ ~branch' /\ untidy = req[t].untidy /\ Go(t, "put") /\ UNCHANGED req
     \/ (branch' \/ untidy # req[t].untidy) /\ Finish(t)
  /\ UNCHANGED <<row, checkout, orphans, kept>>

record_disposition(t) ==
  /\ pc[t] = "put"
  /\ row' = [row EXCEPT !.disposition = req[t].kind]
  /\ kept' = (kept \/ req[t].kind = "keep")
  /\ Finish(t)
  /\ UNCHANGED <<local, checkout, github, orphans>>

---------------------------------------------------------------------------
(* Failures, and everybody else.                                           *)

(* A command that fails, times out or answers nonsense, or a database      *)
(* error, ends the request.  One that fails after it has taken effect is   *)
(* the step itself followed by this one.                                   *)
Fails(t) ==
  /\ pc[t] # "idle"
  /\ Finish(t)
  /\ UNCHANGED <<row, local, checkout, github, orphans, kept>>

Crash ==
  /\ pc' = [t \in Threads |-> "idle"]
  /\ req' = [t \in Threads |-> NoRequest]
  /\ \E running \in SUBSET ({pc[t] : t \in Threads} \cap Outliving) :
       orphans' = orphans \cup running
  /\ UNCHANGED <<row, local, checkout, github, kept>>

OrphanRuns(c) ==
  /\ c \in orphans
  /\ orphans' = orphans \ {c}
  /\ \/ c = "add" /\ GitAdd
     \/ c = "commit" /\ GitCommit
     \/ c = "push" /\ GitPush
     \/ c = "create" /\ PrCreate
     \/ c = "remove" /\ WorktreeRemove
     \/ c = "delete" /\ BranchDelete
     \/ UNCHANGED <<local, github>>
  /\ UNCHANGED <<row, checkout, pc, req, kept>>

(* Others push to the base branch, merge or close the pull request.        *)
BaseAdvances ==
  /\ base < MaxBase
  /\ base' = base + 1
  /\ \/ UNCHANGED <<merged, pulls>>
     \/ \E n \in DOMAIN pulls :
          /\ pulls[n] = "open"
          /\ pulls' = [pulls EXCEPT ![n] = "merged"]
          /\ merged' = base + 1
  /\ UNCHANGED <<row, local, checkout, remote, orphans, pc, req, kept>>

PullCloses ==
  /\ Closing
  /\ \E n \in DOMAIN pulls :
       /\ pulls[n] = "open"
       /\ pulls' = [pulls EXCEPT ![n] = "closed"]
  /\ UNCHANGED <<row, local, checkout, base, merged, remote, orphans, pc, req,
                 kept>>

(* The operator works in the canonical checkout.                           *)
CheckoutMoves ==
  /\ \/ untidy' = ~untidy /\ UNCHANGED canonical
     \/ canonical' = base /\ canonical # base /\ UNCHANGED untidy
  /\ UNCHANGED <<row, local, github, orphans, pc, req, kept>>

HandlerStep(t) ==
  \/ Review(t) \/ CanonicalHead(t) \/ RemoteBase(t) \/ Tip(t)
  \/ Add(t) \/ Staged(t) \/ Commit(t) \/ Verify(t) \/ Recheck(t)
  \/ Push(t) \/ RemoteHead(t) \/ Find(t) \/ Create(t) \/ ReadBack(t)
  \/ record_promotion(t)
  \/ Identity(t) \/ Remove(t) \/ Delete(t) \/ record_disposition(t)

Requests(t) == Promote(t) \/ \E kind \in {"keep", "discard"} : Dispose(t, kind)

Failures == Crash \/ \E t \in Threads : Fails(t)
Environment == BaseAdvances \/ PullCloses \/ CheckoutMoves

Next ==
  \/ \E t \in Threads : HandlerStep(t) \/ Requests(t)
  \/ \E c \in Commands : OrphanRuns(c)
  \/ Failures
  \/ Environment

Spec == Init /\ [][Next]_vars

---------------------------------------------------------------------------
Histories == {<<>>, <<"worker">>, <<"velox">>, <<"worker", "velox">>}

TypeOK ==
  /\ row \in [execution: {"succeeded", "failed"},
              disposition: {"none", "keep", "discard"},
              promotion: [sha: Histories, pr: Nat]]
  /\ dir \in BOOLEAN /\ branch \in BOOLEAN /\ untidy \in BOOLEAN
  /\ tree \in {"dirty", "staged", "clean"}
  /\ log \in Histories /\ remote \in Histories
  /\ canonical \in Nat /\ base \in Nat /\ merged \in Nat /\ commits \in Nat
  /\ pulls \in Seq({"open", "merged", "closed"})
  /\ orphans \subseteq Commands
  /\ pc \in [Threads -> Steps]
  /\ req \in [Threads -> [kind: Kinds \cup {"none"}, dirty: BOOLEAN,
                          untidy: BOOLEAN, head: Nat, sha: Histories,
                          pr: Nat]]
  /\ kept \in BOOLEAN

(* The parts of the inductive invariant behind the properties below.       *)

(* Only a commit changes the branch, and it leaves nothing to commit.      *)
CommittedOnce ==
  /\ commits = 0 => log \in {<<>>, <<"worker">>}
  /\ commits # 0 => commits = 1 /\ tree = "clean"

Verified == {"recheck", "push", "remote", "find", "create", "readback",
             "record"}
Published == {"find", "create", "readback", "record"}
Promoting == Verified \cup {"review", "head", "base", "tip", "add", "staged",
                            "commit", "verify"}

(* Once a commit was verified, the branch holds it until it is deleted.    *)
VerifiedBranch == commits = 1 /\ (branch => log = <<"velox">>)

(* What a request has established when it reaches a step.                  *)
RequestLocals(t) ==
  /\ pc[t] \in Promoting => kept /\ row.execution = "succeeded"
  /\ pc[t] \in Verified => req[t].sha = <<"velox">> /\ VerifiedBranch
  /\ pc[t] \in Published => remote = <<"velox">>
  /\ pc[t] = "record" => req[t].pr = 1 /\ pulls # <<>>
  /\ pc[t] \in {"remove", "delete", "put"} =>
       req[t].kind \in {"keep", "discard"}

(* The branch goes to the remote after it was verified.                    *)
PushVerified ==
  "push" \in orphans => kept /\ row.execution = "succeeded" /\ VerifiedBranch

(* Every pull request found is the first: a second one makes _find refuse. *)
RowPromotion ==
  /\ row.disposition = "keep" => kept
  /\ \/ row.promotion = NoPromotion
     \/ /\ row.promotion = [sha |-> <<"velox">>, pr |-> 1]
        /\ remote = <<"velox">> /\ pulls # <<>>

PromotionDiscipline ==
  /\ CommittedOnce
  /\ remote # <<>> => kept /\ row.execution = "succeeded" /\ remote = <<"velox">>
  /\ remote # <<>> => VerifiedBranch
  /\ PushVerified
  /\ RowPromotion
  /\ \A t \in Threads : RequestLocals(t)

(* However often promote is retried, overlapped or cut off, VELOX commits  *)
(* the work product once: a later attempt finds nothing staged and         *)
(* recovers the commit (_create_or_recover_commit).                        *)
OneCommit == commits <= 1

(* Nothing reaches the remote unless the run succeeded and the operator    *)
(* kept its work product, and then it is VELOX's own commit, never one the *)
(* worker made (_verify_action, _verify_commit).                           *)
OnlyKeptIsPublished ==
  remote # <<>> =>
    /\ kept /\ row.execution = "succeeded"
    /\ remote = <<"velox">>

(* A row that says promoted names a commit that is on the remote and a     *)
(* pull request that exists (promote, record_promotion).                   *)
RecordedIsPublished ==
  row.promotion # NoPromotion =>
    row.promotion.sha = remote /\ row.promotion.pr \in DOMAIN pulls

(* A recorded promotion never changes, although a second promote may be    *)
(* past the check for one when the first records its own.  The second one  *)
(* does write the row again, with its own promotion_finished_at, which no  *)
(* decision reads as more than set or not set and the model leaves out.    *)
PromotionIsFinal ==
  [][row.promotion # NoPromotion => row'.promotion = row.promotion]_vars

(* One promotion opens one pull request, also when it was closed before    *)
(* the retry looked for it (_find lists every state).                      *)
OnePullRequest == Len(pulls) <= 1

(* DISCARD never destroys a promotion commit that the base branch does not *)
(* contain (work_product.py: "a branch that did gain commits is not        *)
(* discarded").                                                            *)
CommitsSurviveDiscard ==
  commits > 0 => merged # 0 \/ (branch /\ log # <<>>)
=============================================================================
