------------------------ MODULE SEPromotionLiveness ------------------------
(***************************************************************************)
(* Promotion while crashes, command failures and changes of the canonical  *)
(* checkout happen any finite number of times.  stable records that the    *)
(* last of them is over; no handler knows when that is.                    *)
(***************************************************************************)
EXTENDS SEPromotion

VARIABLE stable

liveVars == <<vars, stable>>

Undisturbed ==
  \/ \E t \in Threads : HandlerStep(t) \/ Requests(t)
  \/ \E c \in Commands : OrphanRuns(c)
  \/ untidy /\ CheckoutMoves

LiveNext ==
  \/ Undisturbed /\ UNCHANGED stable
  \/ ~stable /\ (Failures \/ Environment) /\ UNCHANGED stable
  \/ ~stable /\ stable' = TRUE /\ UNCHANGED vars

(* The scheduler runs every thread, the operator tidies the checkout up    *)
(* and sends promote again whenever no request is being served.            *)
FairSpec ==
  /\ Init /\ stable = FALSE /\ [][LiveNext]_liveVars
  /\ WF_liveVars(~stable /\ stable' = TRUE /\ UNCHANGED vars)
  /\ WF_liveVars(untidy /\ CheckoutMoves /\ UNCHANGED stable)
  /\ \A t \in Threads : WF_liveVars(HandlerStep(t) /\ UNCHANGED stable)
  /\ SF_liveVars(\E t \in Threads : Promote(t) /\ UNCHANGED stable)

(* While the base branch stands still, a kept change is promoted in the    *)
(* end or discarded: whatever a failed attempt left behind (a staged tree, *)
(* a commit, a pushed branch, an unrecorded pull request), a retry picks   *)
(* it up (_create_or_recover_commit, publish).                             *)
PromotionCompletes ==
  /\ row.execution = "succeeded" /\ row.disposition = "keep"
  /\ dir /\ tree # "clean" /\ log = <<>>
  ~> row.promotion # NoPromotion \/ ~dir \/ row.disposition = "discard"
=============================================================================
