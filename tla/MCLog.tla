------------------------------- MODULE MCLog --------------------------------
(* TLC instance of Log: two threads, three files, two lines to a file. *)
EXTENDS Log

CONSTANTS t1, t2

TwoThreads == {t1, t2}
=============================================================================
