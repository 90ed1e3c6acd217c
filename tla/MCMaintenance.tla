--------------------------- MODULE MCMaintenance ---------------------------
(* One stored row among the pipeline, threading and the maintenance scripts. *)
EXTENDS Maintenance

const_Generated == {<<"report">>, <<"terse", "closer">>, <<"terse", "refusal">>}
=============================================================================
