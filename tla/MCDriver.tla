------------------------------ MODULE MCDriver ------------------------------
(* Driver for TLC; the .cfg files give the constants their values. *)
EXTENDS Driver

MCLow == {1}
MCOther == {}
MCProbs == {1}
MCDurations == {0, 400}
MCWarmSizes == {0, 3}
=============================================================================
