----------------------------- MODULE PowerBudget -----------------------------
(* What a PoE driver promises about the power source its ports share: a port *)
(* holds at most one grant, a grant is taken out of what is free in one      *)
(* indivisible step and only if it fits, and what a port gives back is       *)
(* exactly what it was granted, unless what is free can then no longer be    *)
(* counted.  The operator may declare anew how much is free, as one of       *)
(* Declared, and may declare less than nothing.                              *)
EXTENDS Integers

CONSTANTS
  Ports,
  Amounts,  \* what the number of what is free can be
  Declared

VARIABLES free, grant

vars == <<free, grant>>

Init ==
  /\ free \in Amounts
  /\ grant \in [Ports -> Nat]

Take(p) ==
  /\ grant[p] = 0
  /\ free' \in 0 .. free - 1
  /\ grant' = [grant EXCEPT ![p] = free - free']

GiveBack(p) ==
  /\ grant[p] > 0
  /\ free' \in Amounts
  /\ free + grant[p] \in Amounts => free' = free + grant[p]
  /\ grant' = [grant EXCEPT ![p] = 0]

Declare ==
  /\ free' \in Declared
  /\ UNCHANGED grant

Next == Declare \/ \E p \in Ports : Take(p) \/ GiveBack(p)

Spec == Init /\ [][Next]_vars
=============================================================================
