------------------------------ MODULE MCServer ------------------------------
(***************************************************************************)
(* TLC instance of Server: a C producer, a C consumer and a Java client    *)
(* that does both, a message of length 0 among those that are put.  The    *)
(* table is filled in every way with three names: "a", "A" and "d", which  *)
(* shares their bucket, and one of six characters with a bucket of its own.*)
(* The server is started with one queue, added as "A" and asked for as "a",*)
(* or with none.                                                           *)
(***************************************************************************)
EXTENDS Server

CONSTANTS p1, c1, c2, m1, m2, q1, q2, q3

TwoConsumers == {c1, c2}
TwoProducers == {p1, c1}
OneJava == {c1}
TwoMessages == {m1, m2}
OneEmpty == {m2}
LowerA == <<97>>
UpperA == <<65>>
D == <<100>>
Six == <<113, 117, 69, 117, 101, 48>>
FourNames == {LowerA, UpperA, D, Six}
AskedName == {LowerA}
ThreeQueues == {q1, q2, q3}
OneWaitsForEver == [k \in {p1, c1, c2} |-> {IF k = c2 THEN "forever" ELSE "timed"}]

OneQueueOrNone == {EmptyTable, Inserted(EmptyTable, UpperA, q1)}
=============================================================================
