--------------------------- MODULE PriorityBuckets ---------------------------
(***************************************************************************)
(* The weighted round robin over priority buckets that queue-c uses twice: *)
(* for the messages of a queue (qc_msgchain.c) and for the putters waiting *)
(* on a full queue (qc_putters.c).  Both keep, per priority level, a FIFO  *)
(* list and a pop counter, and both pop with the same search.              *)
(*                                                                         *)
(* A chain is a record                                                     *)
(*   bucket   one FIFO sequence per priority       (bucket_sn + 1 is p)    *)
(*   popc     pops served by each bucket in its current turn (pop_counter) *)
(*   cursor   the bucket the next search starts at (cursor_bucketsn + 1)   *)
(*   count    msg_count, or putter_count                                   *)
(*                                                                         *)
(* The code's search is a loop with a goto.  Here it is stated in closed   *)
(* form; MCMsgChain translates the loop literally and checks that the two  *)
(* agree in every reachable state.                                         *)
(***************************************************************************)
EXTENDS Integers, Sequences

CONSTANT PriorityMax          \* priority_maxlevel, the number of buckets

ASSUME PriorityMaxAssumption == PriorityMax \in Nat \ {0}

Prios == 1..PriorityMax

Chains(S) == [bucket : [Prios -> Seq(S)],
              popc   : [Prios -> Nat],
              cursor : Prios,
              count  : Int]

EmptyChain == [bucket |-> [p \in Prios |-> <<>>],
               popc   |-> [p \in Prios |-> 0],
               cursor |-> 1,
               count  |-> 0]

Members(b) == UNION {{b.bucket[p][i] : i \in DOMAIN b.bucket[p]} : p \in Prios}

-----------------------------------------------------------------------------
(* Append x to the bucket of its priority and raise the cursor to it.      *)
(* (Definitions with a Mutant suffix are the same code with a plausible    *)
(* bug: each checked property is shown to fail under one of them.)         *)
CursorKeptMutant(b, p) == b.cursor
Raised(b, p) == IF p > b.cursor THEN p ELSE b.cursor

Pushed(b, p, x) ==
    [bucket |-> [b.bucket EXCEPT ![p] = Append(@, x)],
     popc   |-> b.popc,
     cursor |-> Raised(b, p),
     count  |-> b.count + 1]

-----------------------------------------------------------------------------
(* The pop search. *)

NonEmpty(b) == {p \in Prios : b.bucket[p] # <<>>}

Greatest(S) == {p \in S : \A q \in S : q <= p}      \* {} or a singleton
Least(S)    == {p \in S : \A q \in S : p <= q}

(* Locating the cursor: the highest nonempty bucket at or below it. *)
Tops(b) == Greatest({p \in NonEmpty(b) : p <= b.cursor})

(* A bucket may serve p pops in a turn (counter_max = bucket_sn + 1). *)
Ready(b, p) == b.popc[p] < p /\ b.bucket[p] # <<>>

(* Its turn is over, yet nothing is left in any other bucket. *)
Sole(b, p) == b.popc[p] >= p /\ Len(b.bucket[p]) = b.count

(* Going past a bucket whose turn is over starts a new turn for it; a      *)
(* bucket that is merely empty keeps its counter.                          *)
TurnsResetMutant(b, lo, hi) == b.popc
AllTurnsResetMutant(b, lo, hi) == [p \in Prios |-> 0]
TurnsReset(b, lo, hi) ==
    [p \in Prios |-> IF p \in lo..hi /\ b.popc[p] >= p THEN 0 ELSE b.popc[p]]

(* b with bucket p reduced to s by one element. *)
Shortened(b, p, s, popc, cursor) ==
    [bucket |-> [b.bucket EXCEPT ![p] = s],
     popc   |-> popc,
     cursor |-> cursor,
     count  |-> b.count - 1]

TakenFrom(b, p, top, popc) ==
    [item |-> Head(b.bucket[p]),
     rest |-> Shortened(b, p, Tail(b.bucket[p]), popc, top)]

(* The first bucket, from the cursor down, that may serve. *)
Servers(b, top) == Greatest({p \in 1..top : Ready(b, p) \/ Sole(b, p)})

DirectPops(b, top) ==
    {TakenFrom(b, p, top,
               LET passed == TurnsReset(b, p + 1, top)
               IN  IF Ready(b, p) THEN [passed EXCEPT ![p] = @ + 1] ELSE passed)
       : p \in Servers(b, top)}

(* No bucket may serve and the turn of bucket 1 is over: the search wraps  *)
(* around once, and the top bucket opens its new turn.                     *)
WrappedPops(b, top) ==
    IF Servers(b, top) = {} /\ b.popc[1] >= 1
    THEN {TakenFrom(b, top, top,
                    [TurnsReset(b, 1, PriorityMax) EXCEPT ![top] = @ + 1])}
    ELSE {}

(* The outcomes of a pop: one record, or none when the search runs below   *)
(* bucket 1 and the code's qc_assert(bucket_sn>=0) fails.                  *)
Pops(b) == UNION {DirectPops(b, top) \cup WrappedPops(b, top) : top \in Tops(b)}

-----------------------------------------------------------------------------
(* Unlinking an entry from the middle of bucket p: qc_list_removeentry. *)
Without(s, i) == SubSeq(s, 1, i - 1) \o SubSeq(s, i + 1, Len(s))

Removals(b, p, x) ==
    {Shortened(b, p, Without(b.bucket[p], i), b.popc, b.cursor)
       : i \in {j \in DOMAIN b.bucket[p] : b.bucket[p][j] = x}}

(* Making room on a full chain: the head of the lowest nonempty bucket is  *)
(* dropped.  Neither the cursor nor a pop counter moves.                   *)
Evictions(b) == {TakenFrom(b, p, b.cursor, b.popc) : p \in Least(NonEmpty(b))}
=============================================================================
