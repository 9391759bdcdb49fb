------------------------------ MODULE MCSocRun ------------------------------
(* A call at 4 into a loop of 16 and 20, or into the hang loop at 24.      *)
EXTENDS SocRun
MCFlow == 0 :> {4} @@ 4 :> {8, 16} @@ 8 :> {4} @@ 16 :> {20, 24} @@ 20 :> {16}
          @@ 24 :> {24}
Command(t, w, l, s) == [trace |-> t, watch |-> w, last |-> l, skew |-> 2, stop |-> s]
MCOptions == {Command(TRUE, Absent, FALSE, FALSE), Command(FALSE, 20, TRUE, FALSE),
              Command(FALSE, 20, FALSE, TRUE), Command(FALSE, 24, FALSE, FALSE)}
MCCauses == {"ecall", "page"}
=============================================================================
