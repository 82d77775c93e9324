---------------------------- MODULE MCBGScheduler ----------------------------
(* Two producers: p1 schedules a1 then a2, p2 b1 then b2.               *)
EXTENDS BGScheduler, TLC

CONSTANTS p1, p2, a1, a2, b1, b2

TasksMC == (p1 :> <<a1, a2>>) @@ (p2 :> <<b1, b2>>)
=============================================================================
