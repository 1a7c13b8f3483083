------------------------------ MODULE MCNetwork ------------------------------
(***************************************************************************)
(* Small instance of Network: two requests at a time, one address per      *)
(* transport, two keys.                                                    *)
(***************************************************************************)
EXTENDS Network, TLC

\* Two keys, like two handles, differ in nothing but their names.
MCSymmetry == Permutations(Handles) \cup Permutations(Keys)
=============================================================================
