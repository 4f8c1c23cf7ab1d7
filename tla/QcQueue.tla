------------------------------ MODULE QcQueue ------------------------------
(***************************************************************************)
(* One queue of queue-c (qc_queue.c with qc_getters.c, qc_putters.c and the*)
(* tempList of qc_msgchain.c) shared by threads that put, get and force-put*)
(* concurrently.                                                           *)
(*                                                                         *)
(* A put that finds a getter waiting hands its message over through the    *)
(* tempList; one that finds the chain full waits as a QcPutter.  A get that*)
(* finds the chain empty waits as a QcGetter; one that pops a message      *)
(* admits a waiting putter's message into the room it made.  Waiting is a  *)
(* per-waiter condition variable and its condlock; QcGetter and QcPutter   *)
(* are reference counted, because the thread that pops one may still use it*)
(* after its owner has returned.                                           *)
(*                                                                         *)
(* A step is what one thread does between two points where another thread  *)
(* could tell the difference: acquiring quelock, acquiring a condlock,     *)
(* starting to wait, waking, dropping a reference.  The short internal     *)
(* locks (list locks, the putters' rwlock, the mutex of a reference count) *)
(* are taken and released within a step.                                   *)
(***************************************************************************)
EXTENDS PriorityBuckets, FiniteSets

CONSTANTS Putters, Getters, Forcers,  \* the threads that may make each call
          Messages,                   \* message objects, reused once out of use
          Prio,                       \* message -> priority
          Limit,                      \* the queue's limit
          Waiters,                    \* memory for QcGetter and QcPutter objects
          Waits,                      \* kinds of the msec argument, see below
          SpuriousWakeups,            \* whether a wait may return unprompted
          None

Threads == Putters \cup Getters \cup Forcers

(* "forever": msec < 0.  "timed": msec >= 0.  "carry": msec >= 0 whose      *)
(* fraction of a second, added to the clock's nanoseconds, reaches 10^9:    *)
(* qc_thread_condition_timedwait does not carry into the seconds, and       *)
(* pthread_cond_timedwait rejects the deadline.                             *)
WaitKinds == {"forever", "timed", "carry"}

ASSUME QcQueueAssumption ==
    /\ IsFiniteSet(Threads)
    /\ Limit \in Nat \ {0}
    /\ Prio \in [Messages -> Prios]
    /\ Waits \subseteq WaitKinds
    /\ SpuriousWakeups \in BOOLEAN
    /\ None \notin Threads \cup Messages \cup Waiters

VARIABLES
    quelock,      \* the thread that holds it, or None
    chain,        \* mesgesChain: the buckets of queued messages
    temp,         \* its tempList: messages handed to getters
    getters,      \* gettersList: waiting QcGetter objects, oldest first
    putters,      \* puttersChain: the buckets of waiting QcPutter objects
    waiter,       \* the QcGetter and QcPutter objects
    pc,           \* where each thread is in its call, or "idle"
    msg,          \* the message a thread puts, or has popped
    obj,          \* the waiter object a thread works on, its own or a popped one
    failed,       \* what stopped the process: an assertion, a freed object
    accepted,     \* history: messages whose put has reported success,
    refused,      \*   has reported a timeout,
    delivered     \*   messages a get returned or a force-put dropped

queueVars   == <<quelock, chain, temp, getters, putters>>
historyVars == <<accepted, refused, delivered>>
vars == <<quelock, chain, temp, getters, putters, waiter, pc, msg, obj, failed,
          accepted, refused, delivered>>

-----------------------------------------------------------------------------
(* Waiter objects. *)

Conds == {"none", "waiting", "signalled", "spurious", "expired"}

WaiterObjects ==
    [ref : Nat, condlock : Threads \cup {None}, cond : Conds, timedout : BOOLEAN,
     wait : WaitKinds, message : Messages \cup {None}]

Freed == [ref |-> 0, condlock |-> None, cond |-> "none", timedout |-> FALSE,
          wait |-> "forever", message |-> None]

(* Created by thread t, which takes its condlock at once. *)
Created(t, kind, m) ==
    [Freed EXCEPT !.ref = 1, !.condlock = t, !.wait = kind, !.message = m]

(* A getter has no message of its own: it takes one from the tempList. *)
GetterCreated(t, kind) == Created(t, kind, None)

Listed == {getters[i] : i \in DOMAIN getters} \cup Members(putters)

(* Memory an allocation may return.  An object freed while still listed is *)
(* not reused, so that touching it can be seen.                            *)
Available == {w \in Waiters : waiter[w].ref = 0} \ Listed

(* Definitions with a Mutant suffix are the same code with a plausible bug:*)
(* each property below is checked to fail under one of them.               *)

(* qc_getterslist_create, qc_putterschain_create and qc_getterslist_push. *)
EmptyGetters == <<>>
EmptyPutters == EmptyChain
GetterListed(w) == Append(getters, w)

(* ref_count++, by the thread that pops a waiter from its list. *)
ReferencedMutant(w) == waiter
Referenced(w) == [waiter EXCEPT ![w].ref = @ + 1]

(* qc_getter_destroy and qc_putter_destroy: ref_count--, free at zero. *)
Dropped(o) == IF o.ref = 1 THEN Freed ELSE [o EXCEPT !.ref = @ - 1]
Unref(w)   == [waiter EXCEPT ![w] = Dropped(@)]

(* A waiter signalled by the thread that holds its condlock, which then    *)
(* releases it.  A signal wakes a waiter that still waits, else is lost.   *)
Unlocked(o) == [o EXCEPT !.condlock = None]
Prompted(o) == IF o.cond = "waiting" THEN [o EXCEPT !.cond = "signalled"] ELSE o

SignalForgottenMutant(o) == Unlocked(o)
CondlockKeptMutant(o) == Prompted(o)
Signalled(o) == Unlocked(Prompted(o))

(* The owner begins to wait, which releases the condlock. *)
Asleep(o) == Unlocked([o EXCEPT !.cond = "waiting"])

(* The owner releases the condlock and drops its reference. *)
Left(w) == [waiter EXCEPT ![w] = Dropped(Unlocked(@))]

-----------------------------------------------------------------------------
(* Messages: a caller may put one again when the queue no longer has it.   *)

Queued == Members(chain) \cup {temp[i] : i \in DOMAIN temp}

Reusable(m) ==
    /\ m \notin Queued
    /\ \A t \in Threads : msg[t] # m
    /\ m \in accepted => m \in delivered

Forgotten(m) == /\ accepted'  = accepted \ {m}
                /\ refused'   = refused \ {m}
                /\ delivered' = delivered \ {m}

At(t, where) == failed = "none" /\ pc[t] = where

GoTo(t, where) == pc' = [pc EXCEPT ![t] = where]

(* The tests that decide a call's course, under quelock: a getter to serve,*)
(* room in the chain (msgcount == limit is "overloaded"), a putter to admit*)
NoGetterListedMutant == TRUE
NoGetterListed == getters = <<>>
ChainFullMutant == FALSE
ChainFull == chain.count = Limit
NoPutterListedMutant == TRUE
NoPutterListed == putters.count = 0

(* ... and under a popped waiter's condlock: its owner has given up. *)
AbandonedMutant(w) == FALSE
Abandoned(w) == waiter[w].timedout

(* Giving a message to a getter through the tempList, and taking one. *)
TempGivenMutant(m) == <<m>>
TempGiven(m) == Append(temp, m)
TempTakenMutant == temp
TempTaken == Tail(temp)

QuelockUnlockMutant == UNCHANGED quelock
QuelockUnlock == quelock' = None

Idle(t) == /\ pc'  = [pc EXCEPT ![t] = "idle"]
           /\ msg' = [msg EXCEPT ![t] = None]
           /\ obj' = [obj EXCEPT ![t] = None]

PutReturns(t) == /\ Idle(t)
                 /\ accepted' = accepted \cup {msg[t]}
                 /\ UNCHANGED <<refused, delivered>>

GetReturns(t, m) == /\ Idle(t)
                    /\ delivered' = delivered \cup {m}
                    /\ UNCHANGED <<accepted, refused>>

Fails(why) ==
    /\ failed' = why
    /\ UNCHANGED <<queueVars, waiter, pc, msg, obj, historyVars>>

-----------------------------------------------------------------------------
Init == /\ quelock = None
        /\ chain = EmptyChain
        /\ temp = <<>>
        /\ getters = EmptyGetters
        /\ putters = EmptyPutters
        /\ waiter = [w \in Waiters |-> Freed]
        /\ pc = [t \in Threads |-> "idle"]
        /\ msg = [t \in Threads |-> None]
        /\ obj = [t \in Threads |-> None]
        /\ failed = "none"
        /\ accepted = {} /\ refused = {} /\ delivered = {}

-----------------------------------------------------------------------------
(* qc_queue_msgput. *)

PutCall(t, m) ==
    /\ At(t, "idle") /\ t \in Putters
    /\ Reusable(m)
    /\ Forgotten(m)
    /\ msg' = [msg EXCEPT ![t] = m]
    /\ GoTo(t, "put_loop")
    /\ UNCHANGED <<queueVars, waiter, obj, failed>>

(* put_loop with a getter waiting: pop it and go for its condlock, keeping *)
(* quelock meanwhile.                                                      *)
PutPopsGetter(t) ==
    /\ At(t, "put_loop")
    /\ quelock = None
    /\ ~NoGetterListed
    /\ LET w == Head(getters)
       IN  \/ /\ waiter[w].ref = 0
              /\ Fails("freed")
           \/ /\ waiter[w].ref > 0
              /\ quelock' = t
              /\ getters' = Tail(getters)
              /\ waiter' = Referenced(w)
              /\ obj' = [obj EXCEPT ![t] = w]
              /\ GoTo(t, "lock_getter")
              /\ UNCHANGED <<chain, temp, putters, msg, failed, historyVars>>

(* put_loop with room in the chain. *)
PutPushes(t) ==
    /\ At(t, "put_loop")
    /\ quelock = None
    /\ NoGetterListed
    /\ ~ChainFull
    /\ chain' = Pushed(chain, Prio[msg[t]], msg[t])
    /\ PutReturns(t)
    /\ UNCHANGED <<quelock, temp, getters, putters, waiter, failed>>

(* put_loop with the chain full: list a putter, its condlock held. *)
PutListsPutter(t) ==
    /\ At(t, "put_loop")
    /\ quelock = None
    /\ NoGetterListed
    /\ ChainFull
    /\ \E w \in Available, kind \in Waits :
          /\ waiter' = [waiter EXCEPT ![w] = Created(t, kind, msg[t])]
          /\ putters' = Pushed(putters, Prio[msg[t]], w)
          /\ obj' = [obj EXCEPT ![t] = w]
    /\ GoTo(t, "put_sleep")
    /\ UNCHANGED <<quelock, chain, temp, getters, msg, failed, historyVars>>

(* With the getter's condlock, quelock is given up; a getter that timed    *)
(* out meanwhile is let go and the put starts over.                        *)
PutLocksGetter(t) ==
    /\ At(t, "lock_getter")
    /\ waiter[obj[t]].condlock = None
    /\ QuelockUnlock
    /\ \/ /\ Abandoned(obj[t])
          /\ GoTo(t, "skip_getter")
          /\ UNCHANGED waiter
       \/ /\ ~Abandoned(obj[t])
          /\ GoTo(t, "hand_over")
          /\ waiter' = [waiter EXCEPT ![obj[t]].condlock = t]
    /\ UNCHANGED <<chain, temp, getters, putters, msg, obj, failed, historyVars>>

(* qc_msgchain_puttemp, the signal and the release of the condlock. *)
PutHandsOver(t) ==
    /\ At(t, "hand_over")
    /\ temp' = TempGiven(msg[t])
    /\ waiter' = [waiter EXCEPT ![obj[t]] = Signalled(@)]
    /\ GoTo(t, "drop_getter")
    /\ UNCHANGED <<quelock, chain, getters, putters, msg, obj, failed, historyVars>>

(* qc_getter_destroy by the thread that popped the getter. *)
PutDropsGetter(t) ==
    /\ At(t, "drop_getter") \/ At(t, "skip_getter")
    /\ waiter' = Unref(obj[t])
    /\ \/ /\ pc[t] = "drop_getter"
          /\ PutReturns(t)
       \/ /\ pc[t] = "skip_getter"
          /\ GoTo(t, "put_loop")
          /\ obj' = [obj EXCEPT ![t] = None]
          /\ UNCHANGED <<msg, historyVars>>
    /\ UNCHANGED <<queueVars, failed>>

(* A wait begins by releasing the condlock.  A deadline that was not       *)
(* carried is rejected instead: the wait returns -1, the condlock kept.    *)
Sleeps(t, where) ==
    /\ waiter[obj[t]].wait # "carry"
    /\ waiter' = [waiter EXCEPT ![obj[t]] = Asleep(@)]
    /\ GoTo(t, where)
    /\ UNCHANGED <<msg, obj, historyVars>>

DeadlineRejected(t) == waiter[obj[t]].wait = "carry"

(* Returning from a wait takes the condlock back. *)
Awake(t, how) == /\ waiter[obj[t]].cond \in how
                 /\ waiter[obj[t]].condlock = None

(* Any return of the wait but QC_TIMEOUT means success to a putter. *)
PutLeaves(t) == waiter' = Left(obj[t]) /\ PutReturns(t)

PutSleeps(t) ==
    /\ At(t, "put_sleep")
    /\ \/ Sleeps(t, "put_wait")
       \/ DeadlineRejected(t) /\ PutLeaves(t)
    /\ UNCHANGED <<queueVars, failed>>

PutWakes(t) ==
    /\ At(t, "put_wait")
    /\ Awake(t, {"signalled", "spurious"})
    /\ PutLeaves(t)
    /\ UNCHANGED <<queueVars, failed>>

(* QC_TIMEOUT: is_timedout is set under the condlock, which is released. *)
TimesOut(t, where) ==
    /\ Awake(t, {"expired"})
    /\ waiter' = [waiter EXCEPT ![obj[t]].timedout = TRUE]
    /\ GoTo(t, where)
    /\ UNCHANGED <<queueVars, msg, obj, failed, historyVars>>

PutTimesOut(t) == At(t, "put_wait") /\ TimesOut(t, "put_expired")

(* qc_putterschain_remove: nothing to do when a getter has popped it. *)
UnlistPutter(w) ==
    \/ /\ w \in Members(putters)
       /\ putters' \in Removals(putters, Prio[waiter[w].message], w)
    \/ w \notin Members(putters) /\ UNCHANGED putters

(* Unlist the putter, drop it, report QC_TIMEOUT. *)
PutGivesUp(t) ==
    /\ At(t, "put_expired")
    /\ UnlistPutter(obj[t])
    /\ waiter' = Unref(obj[t])
    /\ refused' = refused \cup {msg[t]}
    /\ Idle(t)
    /\ UNCHANGED <<quelock, chain, temp, getters, failed, accepted, delivered>>

-----------------------------------------------------------------------------
(* qc_queue_msgget. *)

(* Nothing queued: list a getter, its condlock held. *)
GetListsGetter(t) ==
    /\ At(t, "idle") /\ t \in Getters
    /\ quelock = None
    /\ chain.count = 0
    /\ \E w \in Available, kind \in Waits :
          /\ waiter' = [waiter EXCEPT ![w] = GetterCreated(t, kind)]
          /\ getters' = GetterListed(w)
          /\ obj' = [obj EXCEPT ![t] = w]
    /\ GoTo(t, "get_sleep")
    /\ UNCHANGED <<quelock, chain, temp, putters, msg, failed, historyVars>>

(* The wait is over and not by a timeout: the getter takes whatever is at  *)
(* the head of the tempList, which qc_assert(message) says is not empty.   *)
GetLeaves(t) ==
    \/ /\ temp # <<>>
       /\ temp' = TempTaken
       /\ waiter' = Left(obj[t])
       /\ GetReturns(t, Head(temp))
       /\ UNCHANGED <<quelock, chain, getters, putters, failed>>
    \/ /\ temp = <<>>
       /\ Fails("get")

GetSleeps(t) ==
    /\ At(t, "get_sleep")
    /\ \/ Sleeps(t, "get_wait") /\ UNCHANGED <<queueVars, failed>>
       \/ DeadlineRejected(t) /\ GetLeaves(t)

GetWakes(t) ==
    /\ At(t, "get_wait")
    /\ Awake(t, {"signalled", "spurious"})
    /\ GetLeaves(t)

GetTimesOut(t) == At(t, "get_wait") /\ TimesOut(t, "get_expired")

(* qc_getterslist_remove: nothing to do when a putter has popped it. *)
UnlistGetterMutant(w) == UNCHANGED getters
UnlistGetter(w) ==
    \/ \E i \in DOMAIN getters : getters[i] = w /\ getters' = Without(getters, i)
    \/ (\A i \in DOMAIN getters : getters[i] # w) /\ UNCHANGED getters

(* Unlist the getter, drop it, report QC_TIMEOUT. *)
GetGivesUp(t) ==
    /\ At(t, "get_expired")
    /\ UnlistGetter(obj[t])
    /\ waiter' = Unref(obj[t])
    /\ Idle(t)
    /\ UNCHANGED <<quelock, chain, temp, putters, failed, historyVars>>

(* Something queued: pop it, and keep quelock to refill the chain. *)
GetPops(t) ==
    /\ At(t, "idle") /\ t \in Getters
    /\ quelock = None
    /\ chain.count # 0
    /\ \/ \E r \in Pops(chain) :
             /\ chain' = r.rest
             /\ msg' = [msg EXCEPT ![t] = r.item]
             /\ quelock' = t
             /\ GoTo(t, "refill")
             /\ UNCHANGED <<temp, getters, putters, waiter, obj, failed, historyVars>>
       \/ Pops(chain) = {} /\ Fails("pop")

(* pop_loop with no putter waiting. *)
GetEnds(t) ==
    /\ At(t, "refill")
    /\ NoPutterListed
    /\ QuelockUnlock
    /\ GetReturns(t, msg[t])
    /\ UNCHANGED <<chain, temp, getters, putters, waiter, failed>>

(* pop_loop: pop a waiting putter and go for its condlock. *)
GetPopsPutter(t) ==
    /\ At(t, "refill")
    /\ ~NoPutterListed
    /\ \/ \E r \in Pops(putters) :
             \/ waiter[r.item].ref = 0 /\ Fails("freed")
             \/ /\ waiter[r.item].ref > 0
                /\ putters' = r.rest
                /\ waiter' = Referenced(r.item)
                /\ obj' = [obj EXCEPT ![t] = r.item]
                /\ GoTo(t, "lock_putter")
                /\ UNCHANGED <<quelock, chain, temp, getters, msg, failed, historyVars>>
       \/ Pops(putters) = {} /\ Fails("pop_putter")

(* Admit the putter's message into the chain and wake it, unless it timed  *)
(* out; qc_msgchain_pushmsg asserts that there is room.                    *)
GetLocksPutter(t) ==
    /\ At(t, "lock_putter")
    /\ waiter[obj[t]].condlock = None
    /\ \/ /\ Abandoned(obj[t])
          /\ GoTo(t, "skip_putter")
          /\ UNCHANGED <<queueVars, waiter, msg, obj, failed, historyVars>>
       \/ /\ ~Abandoned(obj[t])
          /\ chain.count < Limit
          /\ LET m == waiter[obj[t]].message IN chain' = Pushed(chain, Prio[m], m)
          /\ waiter' = [waiter EXCEPT ![obj[t]] = Signalled(@)]
          /\ GoTo(t, "drop_putter")
          /\ UNCHANGED <<quelock, temp, getters, putters, msg, obj, failed, historyVars>>
       \/ /\ ~Abandoned(obj[t])
          /\ chain.count >= Limit
          /\ Fails("push")

(* qc_putter_destroy by the thread that popped the putter. *)
GetDropsPutter(t) ==
    /\ At(t, "drop_putter") \/ At(t, "skip_putter")
    /\ waiter' = Unref(obj[t])
    /\ \/ /\ pc[t] = "drop_putter"
          /\ QuelockUnlock
          /\ GetReturns(t, msg[t])
       \/ /\ pc[t] = "skip_putter"
          /\ GoTo(t, "refill")
          /\ obj' = [obj EXCEPT ![t] = None]
          /\ UNCHANGED <<quelock, msg, historyVars>>
    /\ UNCHANGED <<chain, temp, getters, putters, failed>>

-----------------------------------------------------------------------------
(* qc_queue_forceput: into the chain, dropping a message if it is full;    *)
(* neither waiting getters nor waiting putters are looked at.              *)
ForcePut(t, m) ==
    /\ At(t, "idle") /\ t \in Forcers
    /\ Reusable(m)
    /\ quelock = None
    /\ \/ /\ chain.count < Limit
          /\ chain' = Pushed(chain, Prio[m], m)
          /\ accepted' = accepted \cup {m}
          /\ delivered' = delivered \ {m}
       \/ /\ chain.count >= Limit
          /\ \E r \in Evictions(chain) :
                /\ chain' = Pushed(r.rest, Prio[m], m)
                /\ accepted' = accepted \cup {m}
                /\ delivered' = (delivered \ {m}) \cup {r.item}
    /\ refused' = refused \ {m}
    /\ UNCHANGED <<quelock, temp, getters, putters, waiter, pc, msg, obj, failed>>

-----------------------------------------------------------------------------
(* The condition variable's side of a wait. *)

(* The deadline passes: the thread leaves the wait set, and has yet to get *)
(* its condlock back.                                                      *)
Expires(t) ==
    /\ At(t, "put_wait") \/ At(t, "get_wait")
    /\ waiter[obj[t]].cond = "waiting" /\ waiter[obj[t]].wait = "timed"
    /\ waiter' = [waiter EXCEPT ![obj[t]].cond = "expired"]
    /\ UNCHANGED <<queueVars, pc, msg, obj, failed, historyVars>>

WakesUnprompted(t) ==
    /\ SpuriousWakeups
    /\ At(t, "put_wait") \/ At(t, "get_wait")
    /\ waiter[obj[t]].cond = "waiting"
    /\ waiter' = [waiter EXCEPT ![obj[t]].cond = "spurious"]
    /\ UNCHANGED <<queueVars, pc, msg, obj, failed, historyVars>>

-----------------------------------------------------------------------------
(* Steps a thread takes inside a call; new calls are the caller's choice. *)
PutStep(t) == \/ PutPopsGetter(t) \/ PutPushes(t) \/ PutListsPutter(t)
              \/ PutLocksGetter(t) \/ PutHandsOver(t) \/ PutDropsGetter(t)
              \/ PutSleeps(t) \/ PutWakes(t) \/ PutTimesOut(t) \/ PutGivesUp(t)

GetStep(t) == \/ GetSleeps(t) \/ GetWakes(t) \/ GetTimesOut(t) \/ GetGivesUp(t)
              \/ GetEnds(t) \/ GetPopsPutter(t) \/ GetLocksPutter(t) \/ GetDropsPutter(t)

GetCall(t) == GetListsGetter(t) \/ GetPops(t)

Step(t) == \/ \E m \in Messages : PutCall(t, m) \/ ForcePut(t, m)
           \/ PutStep(t) \/ GetCall(t) \/ GetStep(t)
           \/ Expires(t) \/ WakesUnprompted(t)

Next == \E t \in Threads : Step(t)

Spec == Init /\ [][Next]_vars

(* Threads inside a call keep running, a timed wait's deadline passes, and *)
(* consumers call qc_queue_msgget again, as the test's and the server's    *)
(* loops do.  Nothing makes anybody put, and no lock is assumed fair.      *)
Fairness == \A t \in Threads :
    /\ WF_vars(PutStep(t))
    /\ WF_vars(GetStep(t))
    /\ WF_vars(GetCall(t))
    /\ WF_vars(Expires(t))

FairSpec == Spec /\ Fairness

-----------------------------------------------------------------------------
PutLocations == {"put_loop", "lock_getter", "hand_over", "drop_getter", "skip_getter",
                 "put_sleep", "put_wait", "put_expired"}
RefillLocations == {"refill", "lock_putter", "skip_putter", "drop_putter"}
GetLocations == RefillLocations \cup {"get_sleep", "get_wait", "get_expired"}

TypeOK ==
    /\ quelock \in Threads \cup {None}
    /\ chain \in Chains(Messages)
    /\ temp \in Seq(Messages)
    /\ getters \in Seq(Waiters)
    /\ putters \in Chains(Waiters)
    /\ waiter \in [Waiters -> WaiterObjects]
    /\ pc \in [Threads -> {"idle"} \cup PutLocations \cup GetLocations]
    /\ msg \in [Threads -> Messages \cup {None}]
    /\ obj \in [Threads -> Waiters \cup {None}]
    /\ failed \in {"none", "freed", "get", "pop", "pop_putter", "push"}
    /\ accepted \in SUBSET Messages
    /\ refused \in SUBSET Messages
    /\ delivered \in SUBSET Messages

-----------------------------------------------------------------------------
(* Safety. *)

(* The chain never holds more than the limit; while a get still owes the   *)
(* chain a refill there is room, so the refill's push cannot fail.         *)
LimitKept ==
    /\ chain.count \in 0..Limit
    /\ \A t \in Threads :
          pc[t] \in {"refill", "lock_putter", "skip_putter"} => chain.count < Limit

(* Without force-puts, a getter is listed only while the chain is empty:   *)
(* no getter sleeps on a queue that has a message for it.                  *)
GettersWaitOnEmpty == getters # <<>> => chain.count = 0

(* A putter is listed only while the chain is full, or while the get that  *)
(* made room is still admitting putters.                                   *)
PuttersWaitOnFull ==
    putters.count > 0 => \/ chain.count = Limit
                         \/ quelock # None /\ pc[quelock] \in RefillLocations

(* No assertion of the queue fails, no freed waiter is reached, and none   *)
(* is listed, where the next pop would reach it.                           *)
NeverFails == failed = "none" /\ \A w \in Listed : waiter[w].ref > 0

(* A waiter object is freed exactly when the last thread working on it has *)
(* let go: its references are the threads that hold a pointer to it.       *)
ReferencesCounted ==
    \A w \in Waiters : waiter[w].ref = Cardinality({t \in Threads : obj[t] = w})

(* Waking a getter and giving it a message are two steps on two objects:   *)
(* the tempList always has a message for every getter that was signalled.  *)
SignalledGetters ==
    {t \in Threads : pc[t] = "get_wait" /\ waiter[obj[t]].cond = "signalled"}
SignalBacked == Len(temp) >= Cardinality(SignalledGetters)

(* ... and when no wait ends early, never one that no getter will take.    *)
HandoffReachesGetter == Len(temp) = Cardinality(SignalledGetters)

(* Where a message can be: positions in the chain and the tempList, threads*)
(* about to return it from a get.                                          *)
InHand(m)  == {t \in Threads : pc[t] \in RefillLocations /\ msg[t] = m}
InTemp(m)  == {i \in DOMAIN temp : temp[i] = m}
InChain(m) == {at \in Prios \X (1..Limit) : /\ at[2] \in DOMAIN chain.bucket[at[1]]
                                           /\ chain.bucket[at[1]][at[2]] = m}
Copies(m)  == Cardinality(InHand(m)) + Cardinality(InTemp(m)) + Cardinality(InChain(m))

(* A message whose put succeeded is in one place until it is delivered, and*)
(* in none afterwards: never lost, never delivered twice.                  *)
ExactlyOnce == \A m \in Messages :
    /\ Copies(m) <= 1
    /\ m \in delivered => Copies(m) = 0
    /\ m \in accepted \ delivered => Copies(m) = 1

(* A put that reported a timeout left nothing in the queue.  This does not *)
(* hold of timed waits: a getter may admit the message between the deadline*)
(* and the putter's return (see README), so that no passing run checks it. *)
RefusedMeansAbsent == \A m \in refused : Copies(m) = 0 /\ m \notin delivered

-----------------------------------------------------------------------------
(* Liveness. *)

(* No cycle of quelock and condlocks: whoever holds quelock gives it up,   *)
(* unless the process aborts first.                                        *)
QuelockReleased == \A t \in Threads : quelock = t ~> quelock # t \/ failed # "none"

(* A waiter that was signalled, timed out or woken unprompted, or that has *)
(* a deadline, gets its condlock back and its call returns, whoever else   *)
(* runs.                                                                   *)
Returning(t) == /\ pc[t] \in {"put_wait", "get_wait"}
                /\ waiter[obj[t]].cond # "waiting" \/ waiter[obj[t]].wait = "timed"
WaitersReturn == \A t \in Threads : Returning(t) ~> pc[t] = "idle" \/ failed # "none"

(* As long as consumers keep getting, a putter that waits is admitted, even*)
(* at the lowest priority.                                                 *)
PutterAdmitted == \A t \in Putters : pc[t] = "put_wait" ~> pc[t] = "idle"

(* A message handed over or queued is delivered, or dropped for a force-put*)
(* - or stays behind beside a sleeping getter, where only a force-put can  *)
(* leave it (GettersWaitOnEmpty says so of queues without).                *)
EventuallyDelivered == \A m \in Messages :
    m \in accepted ~> m \in delivered \/ (getters # <<>> /\ chain.count > 0)
=============================================================================
