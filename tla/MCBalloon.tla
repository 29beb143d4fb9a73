----------------------------- MODULE MCBalloon -----------------------------
EXTENDS Balloon

Unset == [f \in Fields |-> 0]

(* The last one leaves two steps between the thresholds, and with either   *)
(* demand the guest can be below the one and above the other.              *)
MCInputs ==
    {[Unset EXCEPT !["max"] = 5, !["step"] = 2, !["poll"] = p] : p \in {1, 3}}
    \cup {Unset, [Unset EXCEPT !["min"] = 9],
          [Unset EXCEPT !["min"] = 1, !["grow"] = 1, !["reclaim"] = 3, !["step"] = 1,
                        !["poll"] = 2, !["holdoff"] = 5]}
=============================================================================
