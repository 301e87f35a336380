------------------------------- MODULE MCXbcast -------------------------------
(* Values for the model checking of Xbcast. *)
EXTENDS Xbcast

\* Two workers, three after the reload.
MCCounts == <<2, 3>>
=============================================================================
