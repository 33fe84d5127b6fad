-------------------------- MODULE MCDirectMapCache --------------------------
(* Small instances of DirectMapCache for TLC. *)
EXTENDS DirectMapCache

\* A byte is 0, as in memory that was never written, or 1.
MCValues == {0, 1}

\* Of two lines of two bytes and two tags: both bytes of one block, a byte of
\* another that competes with it, and one in the other line.
MCUsed == {serialize_address(1, 0, 0), serialize_address(1, 0, 1),
           serialize_address(0, 0, 1), serialize_address(1, 1, 0)}
=============================================================================
