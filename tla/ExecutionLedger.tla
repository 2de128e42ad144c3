-------------------------- MODULE ExecutionLedger --------------------------
(***************************************************************************)
(* What the Software Engineering control plane promises about one coding   *)
(* run per Action, without threads, handlers, memory or crashes:           *)
(*                                                                         *)
(*   open --> claimed --> started --> finished                             *)
(*     ^         |          |  ^          ^                                *)
(*     +---------+          +-> abandoned-+                                *)
(*                                                                         *)
(* A run is claimed only after an approval, a claim is given back only     *)
(* before the start, the coder is launched at most once and only after     *)
(* the start, an abandoned run is never opened again, and a result is      *)
(* final.                                                                  *)
(***************************************************************************)
EXTENDS Naturals

CONSTANT Actions

VARIABLES approved, phase, attempts

ledger == <<approved, phase, attempts>>

Phases == {"open", "claimed", "started", "abandoned", "finished"}

Init ==
  /\ approved = {}
  /\ phase = [a \in Actions |-> "open"]
  /\ attempts = [a \in Actions |-> 0]

Move(a, from, to) ==
  /\ phase[a] \in from
  /\ phase' = [phase EXCEPT ![a] = to]

Approve(a) ==
  /\ approved' = approved \cup {a}
  /\ UNCHANGED <<phase, attempts>>

Claim(a) ==
  /\ a \in approved
  /\ Move(a, {"open"}, "claimed")
  /\ UNCHANGED <<approved, attempts>>

Release(a) ==
  /\ Move(a, {"claimed"}, "open")
  /\ UNCHANGED <<approved, attempts>>

Start(a) ==
  /\ Move(a, {"claimed"}, "started")
  /\ UNCHANGED <<approved, attempts>>

Launch(a) ==
  /\ phase[a] \in {"started", "abandoned"}
  /\ attempts[a] = 0
  /\ attempts' = [attempts EXCEPT ![a] = 1]
  /\ UNCHANGED <<approved, phase>>

Abandon(a) ==
  /\ Move(a, {"started"}, "abandoned")
  /\ UNCHANGED <<approved, attempts>>

Conclude(a) ==
  /\ Move(a, {"started", "abandoned"}, "finished")
  /\ UNCHANGED <<approved, attempts>>

Next ==
  \E a \in Actions :
    \/ Approve(a) \/ Claim(a) \/ Release(a) \/ Start(a)
    \/ Launch(a) \/ Abandon(a) \/ Conclude(a)

Spec == Init /\ [][Next]_ledger
============================================================================
