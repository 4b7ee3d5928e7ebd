------------------------------ MODULE MCLists -------------------------------
(* Lists of three rows, read one at a time.                                    *)
EXTENDS Lists

MCRows == 1 .. 3
=============================================================================
