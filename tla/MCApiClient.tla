----------------------------- MODULE MCApiClient -----------------------------
(* A login and two more calls: one refreshes, one waits, and the login       *)
(* stores its tokens meanwhile.  No symmetry: liveness.                      *)
EXTENDS ApiClient
=============================================================================
