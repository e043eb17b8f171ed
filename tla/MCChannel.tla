----------------------------- MODULE MCChannel -----------------------------
(***************************************************************************)
(* Channel for TLC: two subscribers of one group or of two, three events   *)
(* and two entries of the channel.                                         *)
(***************************************************************************)
EXTENDS ChannelInvariant, TLC

CONSTANTS a, b, c, g, h

\* a and b share a group, c is alone in its own.
MCGroupOf == [s \in Subs |-> IF s = c THEN h ELSE g]

\* Sound where a and b are both there and both may be cancelled.
Symmetry == Permutations({a, b})
=============================================================================
