------------------------------- MODULE MCGate -------------------------------
(* An instance of Gate for TLC: the rules of the code, thresholds lowered. *)
EXTENDS Gate, TLC

CONSTANTS r1, r2, r3, r4

Subject(kind, amount, new) == [kind |-> kind, amount |-> amount, newRecipient |-> new]

MCSubjectOf ==
    r1 :> Subject("transfer", 2, TRUE) @@ r2 :> Subject("transfer", 2, TRUE)
    @@ r3 :> Subject("topup", 9, FALSE) @@ r4 :> Subject("withdrawal", 9, FALSE)

\* VR-02, VR-03, VR-05, VR-07 and VR-08.
MCThreshold == <<1, 2, 1, 1, 12>>

MCModes == "VR-05" :> "monitor"
=============================================================================
