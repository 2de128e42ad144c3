------------------------- MODULE MCRunStateSchema -------------------------
EXTENDS RunStateSchema

MCV2Additions == <<"pending_objective", "approval_status", "approved_at", "rejected_at",
                   "claim_id", "claimed_at", "execution_started_at">>
MCV3Additions == <<"claim_resolution", "claim_reconciled_at">>
===========================================================================
