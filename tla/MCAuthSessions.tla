---------------------------- MODULE MCAuthSessions ----------------------------
(***************************************************************************)
(* AuthSessions for TLC: two requests at a time, of two sessions.          *)
(***************************************************************************)
EXTENDS AuthSessionsInvariant, TLC

Symmetry == Permutations(Requests) \cup Permutations(Sessions)
=============================================================================
