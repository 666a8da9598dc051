----------------------------- MODULE MCHashset -----------------------------
(* BufferedHashset with values of some hashes, several of one hash. *)
EXTENDS BufferedHashset

CONSTANTS
    Single,  \* hashes only one value has
    Shared,  \* a hash several values have
    Twins    \* how many those are

MCValues == (Single \X {1}) \cup ({Shared} \X (1..Twins))
=============================================================================
