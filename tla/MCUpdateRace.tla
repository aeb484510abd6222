---------------------------- MODULE MCUpdateRace ----------------------------
(* Model values for checking UpdateRace with TLC. *)
EXTENDS UpdateRace

MCWatched == {"wifi", "cellular"}
MCStates == BOOLEAN
MCOn == {TRUE}
MCCalls == {<<TRUE, FALSE>>, <<TRUE, TRUE>>}

=============================================================================
