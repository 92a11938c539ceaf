----------------------------- MODULE MCOfferFeed -----------------------------
(* One offer, a slot for the current socket and one for a socket that the   *)
(* hook or the server has not given up yet.  No symmetry: liveness.         *)
EXTENDS OfferFeed
=============================================================================
