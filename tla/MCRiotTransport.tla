--------------------------- MODULE MCRiotTransport ---------------------------
(***************************************************************************)
(* Instances of RiotTransport for TLC.                                     *)
(***************************************************************************)
EXTENDS RiotTransport, TLC

CONSTANTS c1, c2

(* An unreadable header, one that makes no sense, and one that does. *)
MCRetryAfters == {None, -1, 3}

CallerSymmetry == Permutations(Callers)
=============================================================================
