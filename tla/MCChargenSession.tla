------------------------ MODULE MCChargenSession -------------------------
(* The Drifter and two services; the last rung of a ladder pays a benefit. *)
EXTENDS ChargenSession, TLC

MCCareers == <<"Drifter", "Navy", "Army">>
MCExtraBenefits == (0 :> 0) @@ (1 :> 0) @@ (2 :> 1)
=============================================================================
