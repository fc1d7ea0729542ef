----------------------------- MODULE MCGenerator -----------------------------
(* Generator for TLC; the .cfg files give the constants their values. *)
EXTENDS Generator

MCLow == {0, 4}
MCOther == {}
MCProbs == {0, 1, 3}
==============================================================================
