---------------------------- MODULE SELiveness ----------------------------
(***************************************************************************)
(* The control plane on a machine that crashes any finite number of times. *)
(* stable records that the last crash is over; the moment it comes is not  *)
(* known to any handler.                                                   *)
(***************************************************************************)
EXTENDS SEControlPlane

VARIABLE stable

liveVars == <<vars, stable>>

LiveInit == Init /\ stable = FALSE

StableNext ==
  \/ Running /\ UNCHANGED stable
  \/ ~stable /\ Crash /\ UNCHANGED stable
  \/ ~stable /\ stable' = TRUE /\ UNCHANGED vars

(* The operator keeps sending execute, and the reconciliation that status  *)
(* offers for the row.                                                     *)
OperatorActs(a) ==
  /\ SF_liveVars(\E t \in Threads : Execute(t, a) /\ UNCHANGED stable)
  /\ SF_liveVars(\E t \in Threads, kind \in {"release", "abandon"} :
                    Reconcile(t, kind, a) /\ UNCHANGED stable)

(* The scheduler runs every thread, a coding process ends by itself or by  *)
(* its timeout, and the crashes end.                                       *)
FairSpec ==
  /\ LiveInit /\ [][StableNext]_liveVars
  /\ WF_liveVars(~stable /\ stable' = TRUE /\ UNCHANGED vars)
  /\ \A t \in Threads : WF_liveVars(HandlerStep(t) /\ UNCHANGED stable)
  /\ \A a \in Actions : OperatorActs(a)

(* An approved action does not stay open or claimed for ever: crashes      *)
(* between claim, start and result leave a row from which execute and      *)
(* reconcile still reach a result or an abandonment.                       *)
ApprovedRunSettles ==
  \A a \in Actions :
    runs[a].approval = "approved" ~>
      runs[a].execution # "none" \/ runs[a].resolution = "abandoned"
===========================================================================
