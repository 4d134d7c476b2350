----------------------------- MODULE AuditTrail -----------------------------
(***************************************************************************)
(* What a chain promises about its audit trail, without a word about how:  *)
(* a request is refused outside and leaves no entry, or is let in and, no  *)
(* matter how its handler ends, leaves exactly one entry when it comes     *)
(* out.  The entry is settled later, in the background: saved, or lost     *)
(* with an error that is only reported to the operator's log.              *)
(* Chain and Protocols implement SafeSpec (GateProofs, ProtocolProofs)     *)
(* and, with their goroutines scheduled fairly, Spec (TrailLive in         *)
(* chain_live, TrailSpec in protocols).                                    *)
(***************************************************************************)
EXTENDS Sequences

CONSTANT Request

VARIABLES stage,     \* stage[r] : "outside", "inside" or "left"
          trail      \* trail[r] : the states of the entries r has left

vars == <<stage, trail>>

Init ==
    /\ stage = [r \in Request |-> "outside"]
    /\ trail = [r \in Request |-> << >>]

Refuse(r) ==
    /\ stage[r] = "outside"
    /\ stage' = [stage EXCEPT ![r] = "left"]
    /\ UNCHANGED trail

LetIn(r) ==
    /\ stage[r] = "outside"
    /\ stage' = [stage EXCEPT ![r] = "inside"]
    /\ UNCHANGED trail

Leave(r) ==
    /\ stage[r] = "inside"
    /\ stage' = [stage EXCEPT ![r] = "left"]
    /\ trail' = [trail EXCEPT ![r] = <<"pending">>]

Settle(r) ==
    /\ trail[r] = <<"pending">>
    /\ \E outcome \in {"saved", "lost"} :
          trail' = [trail EXCEPT ![r] = <<outcome>>]
    /\ UNCHANGED stage

Next == \E r \in Request : Refuse(r) \/ LetIn(r) \/ Leave(r) \/ Settle(r)

SafeSpec == Init /\ [][Next]_vars

Fairness ==
    \A r \in Request : /\ WF_vars(Refuse(r) \/ LetIn(r))
                       /\ WF_vars(Leave(r))
                       /\ WF_vars(Settle(r))

Spec == SafeSpec /\ Fairness
=============================================================================
