---------------------------- MODULE SERunState ----------------------------
(***************************************************************************)
(* The durable row of one Software Engineering Action and what each        *)
(* operation of SqliteSoftwareEngineeringRunRepository does to it, as      *)
(* operators from rows to rows.  A guard is the condition under which the  *)
(* operation does not raise; an update is the row its SQL leaves behind.   *)
(*                                                                         *)
(* Timestamps that only repeat that something happened (approved_at,       *)
(* claimed_at, ...) are dropped.  pending_objective is kept as "the text   *)
(* is there": every caller passes the same normalized text for one Action, *)
(* so _require_compatible_objective never refuses.  updated_at, the row's  *)
(* version, is modelled by the users of this module.                       *)
(***************************************************************************)

Approvals   == {"none", "awaiting", "approved", "rejected"}
Resolutions == {"none", "released", "abandoned"}
Results     == {"succeeded", "failed"}
  \* never "skipped": the delegator makes an Action only where its executor
  \* is registered, so no Action of this kind reaches the no-op fallback
Dispositions == {"keep", "discard"}

Row == [exists: BOOLEAN, objective: BOOLEAN, approval: Approvals,
        claim: BOOLEAN, started: BOOLEAN, resolution: Resolutions,
        execution: Results \cup {"none"},
        disposition: Dispositions \cup {"none"}]

NoRow == [exists |-> FALSE, objective |-> FALSE, approval |-> "none",
          claim |-> FALSE, started |-> FALSE, resolution |-> "none",
          execution |-> "none", disposition |-> "none"]

---------------------------------------------------------------------------
(***************************************************************************)
(* register_action reads the row (cur) and later writes it: an UPDATE when *)
(* the read saw a row, an INSERT otherwise.  The UPDATE stores the         *)
(* objective only if the READ saw none and overwrites approval_status      *)
(* whenever the caller passes one; an INSERT that finds a row in the       *)
(* meantime (IntegrityError) changes nothing.                              *)
(***************************************************************************)
register_action(row, cur, objective, approval) ==
  IF cur.exists
  THEN [row EXCEPT !.objective = @ \/ (objective /\ ~cur.objective),
                   !.approval  = IF approval = "none" THEN @ ELSE approval]
  ELSE IF row.exists
       THEN row
       ELSE [NoRow EXCEPT !.exists = TRUE, !.objective = objective,
                          !.approval = approval]

can_record_approval(row) == row.exists /\ row.approval # "rejected"

record_approval(row) ==
  [row EXCEPT !.objective = TRUE, !.approval = "approved"]

can_record_rejection(row) ==
  row.exists /\ ~row.claim /\ row.execution = "none"

(* Mutant: the objective text is kept.                                     *)
record_rejection_KeepsObjective(row) == [row EXCEPT !.approval = "rejected"]

record_rejection(row) ==
  [row EXCEPT !.objective = FALSE, !.approval = "rejected"]

(* Mutants: the WHERE clause forgets the approval, or the claim.           *)
can_claim_Unapproved(row) ==
  row.exists /\ row.execution = "none" /\ ~row.claim /\ row.objective

can_claim_Claimed(row) ==
  /\ row.exists
  /\ row.approval = "approved"
  /\ row.execution = "none"
  /\ row.objective

(* One BEGIN IMMEDIATE transaction: the guard and the update are atomic.   *)
can_claim(row) ==
  /\ row.exists
  /\ row.approval = "approved"
  /\ row.execution = "none"
  /\ ~row.claim
  /\ row.objective

(* Mutant: the claim already stamps execution_started_at.                  *)
claim_approved_Starts(row) ==
  [row EXCEPT !.claim = TRUE, !.started = TRUE, !.resolution = "none"]

claim_approved(row) == [row EXCEPT !.claim = TRUE, !.resolution = "none"]

can_record_execution_started(row) == row.claim /\ row.execution = "none"

record_execution_started(row) == [row EXCEPT !.started = TRUE]

(* The WHERE clauses of the two compare-and-set UPDATEs, less updated_at.  *)
can_release(row) ==
  /\ row.approval = "approved"
  /\ row.claim
  /\ ~row.started
  /\ row.execution = "none"

release_unstarted_claim(row) ==
  [row EXCEPT !.claim = FALSE, !.resolution = "released"]

(* Mutant: the WHERE clause of the release was copied.                     *)
can_abandon_Unstarted(row) == row.claim /\ ~row.started /\ row.execution = "none"

can_abandon(row) == row.claim /\ row.started /\ row.execution = "none"

(* Mutant: an abandon clears claimed_at as a release does.                 *)
abandon_started_claim_Clears(row) ==
  [row EXCEPT !.claim = FALSE, !.objective = FALSE, !.resolution = "abandoned"]

abandon_started_claim(row) ==
  [row EXCEPT !.objective = FALSE, !.resolution = "abandoned"]

record_execution(row, status) ==
  [row EXCEPT !.objective = FALSE, !.execution = status]

record_disposition(row, disposition) ==
  [row EXCEPT !.disposition = disposition]

---------------------------------------------------------------------------
(***************************************************************************)
(* What SoftwareEngineeringRunControlService reports about a row.          *)
(***************************************************************************)
retriable(row) ==
  /\ row.approval = "approved"
  /\ ~row.claim
  /\ row.execution = "none"
  /\ row.resolution # "abandoned"

(* Mutant: status still offers to abandon an abandoned run.                *)
reconciliation_options_Repeats(row) ==
  IF row.execution # "none" \/ ~row.claim
  THEN {}
  ELSE IF row.started THEN {"abandon"} ELSE {"release"}

reconciliation_options(row) ==
  IF row.execution # "none" \/ ~row.claim \/ row.resolution = "abandoned"
  THEN {}
  ELSE IF row.started THEN {"abandon"} ELSE {"release"}

require_releasable(row) ==
  /\ row.claim
  /\ ~row.started
  /\ row.execution = "none"
  /\ row.approval = "approved"

require_abandonable(row) ==
  /\ row.claim
  /\ row.started
  /\ row.execution = "none"
  /\ row.resolution # "abandoned"

(* recover_pending rebuilds an Action only from a row that still awaits    *)
(* approval, has no execution evidence and still holds its objective.      *)
recoverable(row) ==
  /\ row.exists
  /\ row.approval = "awaiting"
  /\ ~row.claim
  /\ row.execution = "none"
  /\ row.objective
===========================================================================
