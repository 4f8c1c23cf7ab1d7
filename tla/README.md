# Verification of queue-c

queue-c is a C library of message queues: bounded, prioritised queues with timed waits
inside a process, a table of named queues, a socket server and client for them, a queue
in shared memory between processes, and files of persisted messages. This directory
holds TLA+ models of its core, TLC configurations that check them on small instances,
and proofs, checked by TLAPS, of what matters most for every size. Paths below are
relative to the source root; `qc_mq/` etc. are under `src/`.

    tlc -config MCQcQueue_timed.cfg MCQcQueue        (any run of PROJECT.json)
    tlapm QcQueueProofs.tla

## The system

| Component | Files | State | Operations | Hard part |
|---|---|---|---|---|
| message | qc_mq/qc_message.c | buffer, priority (any int >= 0) | create, set priority, release | ownership: who may free it |
| message chain | qc_mq/qc_msgchain.c | a FIFO list and pop counter per priority, cursor, count, limit, `tempList` | push, pop, forcepush, puttemp, gettemp | the weighted round robin and its `goto` loop |
| waiting getters | qc_mq/qc_getters.c | list of reference-counted QcGetter | create, push, pop, remove, destroy | an object used by two threads |
| waiting putters | qc_mq/qc_putters.c | a prioritised chain of reference-counted QcPutter, with the same search as messages | the same | the same |
| queue | qc_mq/qc_queue.c | quelock and the three above | msgput, msgget, forceput, msgcount, destroy | threads, timeouts, hand-over |
| thread primitives | qc_rt/qc_thread.c | mutexes, condlocks, conditions, rwlocks | lock, wait, timed wait, signal | the deadline arithmetic, spurious wakeups |
| lists | qc_rt/qc_list.c | linked list; index list over fixed cells | push, pop, remove | the static list lives in shared memory |
| pools and queues | qc_rt/qc_utils.c | NumPool, NBlockQue, BlockQue | put, get | boundary ids, a wait without a loop |
| hash table | qc_rt/qc_hash.c | buckets of entries | insert, find, delete | duplicates, return codes |
| queue system | qc_qsys/ | hash table of named queues | create, find, delete a queue; put and get by name | changes without the table's lock |
| server, client | qc_net/ | listening and worker threads, one queue system; one socket per client | put and get requests and replies | lost replies, re-put of an unsent message |
| shared-memory queue | qc_shq/, qc_rt/qc_sem.c, qc_rt/qc_shm.c | slots, a free and a used static list, two semaphores | push and pull in two phases each | processes that die between phases |
| persistence | qc_psist/ | a file of fixed records, a pool of record ids | append, remove, load | crash between writes, id reuse, a full pool at every opening |
| log, errors | qc_rt/qc_log.c, qc_error.c, qc_file.c | files, one mutex | log, roll | a failing file logged under its own mutex |
| Windows variants | qc_rt/*_win.c | the same interfaces | | not compiled on POSIX |

Interaction. `qc_queue.c` serialises everything on one mutex, `quelock`. A put that
finds a getter waiting pops it, takes the getter's *condlock* while it still holds
quelock, gives up quelock, appends its message to the tempList and signals. A put that
finds the chain full lists a QcPutter that carries its message and waits on it. A get
that finds the chain empty lists a QcGetter and waits; one that finds a message pops it
and, before it releases quelock, admits one waiting putter's message and signals that
putter. Timeouts, unlisting by the owner and popping by another thread race; reference
counts decide who frees a waiter. The queue system finds queues by name and calls them;
the server's worker threads call the queue system for each request; the client talks to
the server over one socket. The shared-memory queue and persistence are separate
libraries, persistence loading its records into a queue with msgput.

What makes each correct: the chain serves every level and never loses or invents a
message, and its search always ends at one; the queue keeps its limit, never lets a
getter sleep beside a message or a putter beside room, delivers an accepted message
once, never reaches a freed waiter, and never blocks for ever; a name is answered with
the queue added to it last; a reply that was not sent leaves its message in the queue;
the shared-memory queue's slots are in exactly one place and its semaphore counts them;
a stored message stays whole until it is removed, or until a later session's appends come
to its record. The places where each can go wrong are
listed, line by line, as hazards in PROJECT.json.

## Modules

| Module | Models | Proofs |
|---|---|---|
| PriorityBuckets | the data of a prioritised chain: push, the pop search, removal, eviction (qc_msgchain.c and qc_putters.c share it) | ListProofs |
| MsgChain | one message chain under quelock: push, pop, force-push as the queue calls them, with history of who is passed by | MsgChainProofs |
| LinkedList | the linked list of qc_list.c, link by link, its cursor included | |
| MCMsgChain | instances, the literal `try_loop` of the code, and the linked list compared with sequences | |
| QcQueue | the queue shared by threads: put, get, force-put, waiting, timing out | QcQueueProofs |
| MCQcQueue | instances | |
| QueueTable | the table of named queues: hash, comparison, insertion, search, deletion, enumeration (qc_hash.c) | ServerProofs |
| QueueSystem | the queue system over it: adding, deleting and destroying named queues | ServerProofs |
| Server | EXTENDS QueueSystem: clients, connections, worker threads, over an abstract queue | ServerProofs |
| MCServer | instance | |
| StaticList | the list over an array of cells of qc_list.c, link by link | ListProofs |
| SharedFifo | abstract: a bounded FIFO whose room is reserved and given back | |
| ShmQueue | one shared-memory queue used by processes; implements SharedFifo | ShmQueueProofs |
| MCShmQueue | instances; every static-list operation compared with its sequence operation | |
| ShmSetup | making, attaching to and removing the shared memory and its semaphores; its layout | ShmSetupProofs |
| MCShmSetup | instance | |
| Psist | the record file and the id pool (NumPool over StaticList) through appends, removals, loads, crashes, any number of sessions | PsistProofs |
| MCPsist | instance | |
| Log | the log's mutex, its file's offset and the roll of its files, through failures and restarts | LogProofs |
| MCLog | instance | |

**PriorityBuckets.** `bucket[p]` is the list of bucket_sn `p - 1`, `popc[p]` its
pop_counter, `cursor` is cursor_bucketsn + 1. The code searches with a loop and a `goto`
that restarts it once. `Pops` says the same without a loop, as a set with the one
outcome, or empty when `qc_assert(bucket_sn>=0)` fails: find the highest nonempty bucket
at or below the cursor; from there down, the first bucket that has turns left and a
message, or that holds all the messages there are; failing that, if bucket 1 is out of
turns, wrap around once. Buckets passed whose turn is over get a new one.
`MCMsgChain!LoopPops` is the loop as written and `SearchMatchesLoop` compares the two in
every reachable state.

**MsgChain.** The calls are atomic, because the queue makes them under quelock.
`bypassed[p]` is a history variable: pops of other levels since p was served or empty.

**QcQueue.** The program counter of each thread names the place in its call:

| pc | Code |
|---|---|
| `put_loop` | qc_queue.c:135, about to take quelock |
| `lock_getter` | :142, holds quelock, waits for the popped getter's condlock |
| `hand_over` | :152, holds the condlock |
| `drop_getter`, `skip_getter` | :158 and :147, about to drop the reference |
| `put_sleep`, `put_wait`, `put_expired` | :177 before and in the wait; :185 after QC_TIMEOUT |
| `get_sleep`, `get_wait`, `get_expired` | :233 and :245, the same of a get |
| `refill`, `lock_putter` | :259 and :263, holds quelock |
| `drop_putter`, `skip_putter` | :275 and :266, about to drop the reference |

A waiter object has its `ref`, who holds its `condlock`, `timedout`, the kind of wait
its owner asked for, and `cond`: whether the owner is in the wait set ("waiting") or has
left it ("signalled", "expired", "spurious") and still has to get the condlock back. The
step from the second to the third is where the races are. Steps are split where another
thread could see the difference; the list locks and the reference count's mutex are leaf
locks, taken and released within a step. `failed` records an assertion that failed
(`qc_assert` aborts) or a freed waiter that was reached; nothing happens after it.
`accepted`, `refused` and `delivered` are history. Message objects are reused when the
queue no longer has them. Msec arguments come in three kinds: for ever, timed, and
"carry": timed with a fraction of a second that reaches a full second when added to the
clock, for which `qc_thread_condition_timedwait` builds an invalid deadline. Expiry may
come at any moment of a timed wait, which covers every length including zero.

**LinkedList.** Entries are numbers, `next`, `prev` and `data` functions of them, `cur`
the cursor. Each operation changes the links in the order and under the tests of its C
function. `Lists(l, s, at)` says that following the links either way gives the sequence
s and that the cursor is at position `at`.

**QueueTable, QueueSystem.** A name is its bytes. `Sums` is the loop of qc_hashstring
over them, its two sums after each character, a recursive function; `HashOf` folds the
last ones into a bucket number and `HashString` applies it to the name in lower case.
`SameName` is strcasecmp. A cursor is cur_bucket_no and the place in that bucket's list,
which stands for cur_entry. A bucket is
its list of entries, the newest first: adding does not look for an older queue of the
same name, which a deletion brings back. `DeleteReport` is the inverted return value of
`qc_qmng_delqueue`. `bound` is history. Names are passed as pointers and kept by the
table; the model takes the application to keep the strings, as the demo and the tests
do. The table is changed only before the server is started, as in every caller: the code
takes no lock.

**Server.** One record per connection, named by its client: the client's place in its
loop, the elements sent in each direction (one for each send call), and the worker
thread. A worker goes `receive`, `put` or `get`, `reply`, `data` and back; `reput` is
the put that follows a failed send (qc_server.c:193-199), after which the worker ends
whatever came of it. A client may close or die at any point: some first part of what it
sent still arrives, nothing more arrives at it, and sends to it may fail or seem to
succeed. The queue under a name is an abstract one: what QcQueue shows of qc_queue.c,
with the deviations that the findings below name, so `GetAdmitsExpired` is a put that
times out and is queued, and `PutHandsOver` may give a message to a getter that has just
timed out. Facts of the code which the model keeps:

- every message the server puts has priority 1 (qc_message_create; the request's
  msg_prioriy is read and not used), so the abstract queue is a FIFO;
- a message of length 0 is delivered without a data part; the C client then calls
  qc_tcp_recvall for no bytes, takes its result 0 for a closed connection and
  disconnects (qc_client.c:190-194); QcClient.java returns the empty message, but
  refuses to send one;
- the worker of a put whose reply fails ends, and its message stays queued;
- a failed request ends the loops of the clients, a timeout does not;
- qc_queuesrv_stop does nothing to a running server: its test is the wrong way round.

**StaticList.** A list is a record of head, tail, num and the links of every cell. Each
operation changes the links as its C function does, tests included and missing: nothing
checks that a cell being added is not listed already. `Represents(l, s)` says that l's
links are those of the sequence s, and `ListOperationsMatch` compares each operation,
also those without callers, with its meaning on sequences in every list the
shared-memory queue reaches.

**ShmQueue.** A push takes a slot from the free list (`PushBegins`), writes the slot's
length field without the lock (`PushMarks`), lets the caller write the message
(`Writes`) and adds the slot to the used list, posting sem_que before it releases
sem_lst (`PushEnds`). A pull waits for sem_que (`PullEnters`, `PullTimesOut`;
`PullRejected` is a timed wait whose deadline has a whole second or more in its
nanoseconds, which qc_sem_wait does not carry and the system may reject with a token
there or not), takes the head of the used list (`PullTakes`), reads without the lock
(`PullReads`) and gives the slot back (`PullEnds`). Each critical section under sem_lst
is one step: no other process can see inside it. A process that dies takes no further
step, which every behaviour without fairness for it includes; its slot stays away, its
token is not returned. `slot` keeps whose length and whose bytes a slot has, so a
message read with another's length is no message. The refinement maps the FIFO's queue
to the used list followed along its links, and the FIFO's room to the slots held by
processes.

**Psist.** The file is an array of records: the flag, whose length and priority, whose
bytes. An append takes an id (`TakesId`), writes the bytes (`AppendWritesBody`) and then
the info that marks the record used (`AppendWritesInfo`); a crash falls between any two
of these, and either write may fail (`AppendFailsAtOnce`, as for an empty message, and
`AppendFails`), after which the id is lost to the session. The fetch's test for its end
and the cursor arithmetic are `EndOfFetch` and `FetchedId`. As in the test, one thread
uses the store, and it loads with no copy of a stored message left in memory.

Every opening builds a pool with all the ids, those of used records included
(qc_psist.c:66), and an append looks at no record before it writes to it
(qc_psist.c:85-94, qc_psist_file.c:222-237). So the first appends of a session overwrite
what earlier ones stored: test/test_psist.c appends a thousand messages to a file that
nothing removes, and from its second run on hits those of the run before. The model does
the same in every session, and the properties say what the code still promises then.
Four histories serve them: `fate` (what became of each message: "new" when stored by
this session, "old" by an earlier one, "hit" when an append began to write over its
record), `takes` (the ids taken in this session), `loaded`, and `strayed`. Take number n
of a session can hit record n and no other, and a message the session itself stored
never; a record that was hit but whose info was not yet written loads as the older
message with the newer one's bytes, so nothing is claimed of the bytes of a "hit" one.

A message keeps the id it was loaded with. When an append then takes its record, its id
is the newer message's, and removing it (qc_psist.c:107-111) clears the newer record and
puts the id into the pool, which can then hold it twice. Such a session has `strayed`:
its own messages are claimed no more than "hit" ones are, but those of earlier sessions
keep all that is said of them. It takes a load, an append and a removal of what was
loaded before that append; an application that appends only while it holds nothing
loaded does not stray.

**ShmSetup.** `qc_shqmem_create` makes a new memory under the old name and, queue by
queue, writes the header's fields and makes its two semaphores anew, each in two steps
(unlink, create). `Advance` moves to the next of these steps; the daemon may die or be
interrupted between any two. An attach maps whatever has the name, walks the headers by
`next_offset`, and opens the semaphores one after the other. Nothing tells it whether
the memory is finished (nobody reads P_Shmem.status), so `late` marks the attaches that
came after. One that comes before may meet a header of zeros (`astray`: the offset 0
leads back to the start of the memory), or take an old semaphore. A failed attach
destroys, rather than closes, the first semaphore: its name is gone. The sizes
(`CalcShmSize`, `QueSize`, `Offset`) are those of calc_shmsize and of shm_queue_init,
the addresses those push and pull compute.

**Log.** A file is the sequence of its lines. Each file operation is a step that works
or fails; the process may die between any two. The offset starts at 0 whatever the file
holds. A write that fails returns -1, which is added to the offset. A roll that fails
leaves `_logf` NULL: nothing is logged from then on. With rollnum 1 the loop is not
entered and file_1 is overwritten each time.

Definitions named `...Mutant` are plausible bugs. Each checked property is known to fail
under at least one of them (PROJECT.json, "mutants").

## Runs

| Run | Instance | Shows |
|---|---|---|
| chain | 3 levels, 6 messages (one of priority 0), limit 3, fair | SearchMatchesLoop: the closed form is the loop; ChainCoherent; BypassBounded: a nonempty level waits for at most 22, 7 and 1 pops of others; EventuallyServed; LinkedListMatches |
| forever | 2 putters, 1 getter, 1 force-putter, 3 messages, limit 1, no timeouts, fair | TypeOK, LimitKept, HandoffReachesGetter, ExactlyOnce, PutterAdmitted, EventuallyDelivered |
| timed | 2 putters, 2 getters, 3 messages, 3 waiter objects, limit 1, all waits timed | GettersWaitOnEmpty, PuttersWaitOnFull, ReferencesCounted, SignalBacked, NeverFails, ExactlyOnce |
| any_live | 1 putter, 1 getter, limit 1, waits of all kinds, spurious wakeups, fair | QuelockReleased, WaitersReturn |
| net | a C producer, a C consumer, a Java client that does both, 2 messages (one empty), a queue of 1; 4 names and 3 queues in 3 buckets; fair workers | AtMostOnce, LossBounded, StreamsInStep, TimedRequestAnswered, WorkerEnds; TableMatches, DestroyedOnce |
| shm_fifo | 2 pushers, 2 pullers, 3 slots, 2 messages, fair pullers | SlotsPartition, TokensMatch, ListOperationsMatch, ImplementsFifo, EventuallyPulled |
| shm_setup | 2 attaching processes, 2 starts of the daemon with one or two queues | AttachMatches, LayoutFits |
| psist_reload | 4 records, 3 messages, a queue of 2, any number of sessions | StoredDurably, OverwritesInOrder, IdsTrue, LoadMissesLastOnly |
| log | 2 threads, 3 files of 2 lines, 9 lines, 3 starts, 2 failures, fair | SuffixKept, SizeBounded, MutexReleased |

Bounds. Three levels are the fewest for which the search can pass a bucket whose turn is
over and come to an empty one below it; two levels with messages of both are enough for
the queue, whose threads do not depend on the search. The bypass bounds are exact for
these weights and do not change with a limit of 4; the history stops counting at
BypassCap = 23, above all of them. Limit 1 makes every put after the first wait. Two
threads of each role are the fewest for which a waiter popped by one thread, its owner
and a third thread that pops the next waiter are all at work; with several timed getters
one can steal another's hand-over. Three waiter objects for four threads suffice: a call
that must wait while none is free waits for one, which memory does not make it do, but a
fourth sleeper only repeats what the third does, and an owner that returns and comes
back while another thread still holds its old object takes another. any_live has one
object per thread. A message may be put again after it left the queue, so the histories
are unbounded in length. Three slots give the static list a head, a middle and a tail,
and one slot fewer than the processes makes both the empty and the exhausted list happen
with every process at work. In net, "a", "A" and "d" fall into one bucket and a name of
six characters, whose hash takes two pieces, into another; each of two messages meets a
queue with room for one, and three clients are the fewest for a put, a get and a
hand-over to race. The server is started with one queue or none. In shm_setup the second
start meets everything the first may have left; the sizes stand for those of the code's
structures, and only sums of them matter. In log the ninth line comes after four rolls,
of which the third and fourth remove a file, and three starts leave a file written by
several sessions. Four records leave the fetch two that are neither first nor last, and
a queue of two makes a load fail half way; messages come back once they are out, so the
pool runs round and runs out, and of three one can be old, one new and one being
appended. `takes` stops one above the number of records: no take after that is a turn
of any record.

Fairness. Threads inside a call keep running (WF of PutStep and GetStep per thread), a
timed wait's deadline passes (WF of Expires), and consumers call msgget again, as the
loops of test/test_mq.c:71-91 and of the server's workers do (WF of GetCall per thread,
and of PopMsg). In the shared-memory queue only pullers are fair: a consumer that pulled
one message as test/test_shqget.c:52-66 does, or found none in time, is followed by
another pull; pushers may stop anywhere. Some pull finds a token again and again, if there
is one again and again (SF of PullEnters for some puller): whether a deadline is rejected
depends on the fraction of the second at the call, which is not the unlucky one for every
call of every consumer for ever. In the server, its threads keep running and
clients waiting for an answer take it (WF of WorkerStep and ClientStep per connection);
nobody has to connect or call. In the log, threads inside a call go on (WF) and a thread
that waits for the log's mutex gets it in the end (SF of Locks): it is held only for the
length of a write or a roll. No put is ever required, and no lock is assumed to be fair
but the log's: a thread may be overtaken at quelock as long as others keep taking it.

Runs that find the code at odds with its own assertions and comments:

| Run | Finding |
|---|---|
| chain_three | with three levels, ordinary pushes and pops reach a chain with a message whose search runs below bucket 1: `qc_assert(bucket_sn>=0)` fails (qc_msgchain.c:195). The bucket whose turn is over was passed, an empty one below it still has turns, so the search does not wrap around. |
| stranded | a put may hand over to a getter whose deadline has passed but which has not yet got its condlock back to say so: the put reports success, the get a timeout, and the message stays in the tempList until some other getter is woken; the check at qc_queue.c:145 is meant to catch this |
| deadline | the nanoseconds of a deadline are not carried (qc_thread.c:365), the wait returns -1 at once, and a get takes that for a hand-over: `qc_assert(message)` fails (qc_queue.c:240) |

What holds nevertheless with timeouts is what the run timed shows: never fewer messages
in the tempList than signalled getters, no freed object reached, no accepted message
lost or doubled (a stranded one counts as being in the tempList).

One more disagreement is stated by `RefusedMeansAbsent` of QcQueue, which no run lists:
a put may report QC_TIMEOUT (qc_queue.c:183-191) although a get admitted its message
between the deadline and the putter's return, so that a caller that retries has it
queued twice. MCQcQueue_stranded.cfg with `Putters <- TwoPutters` and `INVARIANT
RefusedMeansAbsent` shows it; the comment at qc_queue.c:187 takes a timed-out putter for
an "un-popped" one.

Met while modelling, outside these runs: `qc_qmng_delqueue` reports success and failure
the wrong way round (qc_qmanager.c:87 against qc_hash.c:254, in the model as
DeleteReport); the reply's head is sent in host byte order after the request's was
converted (qc_server.c:109), which no client reads; a client whose send fails returns
without setting err (qc_client.c:92), so that the loop of test_sock.c:69-90 may go on
for ever on the code of an earlier timeout; the server's list of worker threads only
grows, and a worker does not close its socket.

## Proofs

Every theorem holds for any values of the constants that meet the module's assumption
(`QcQueueAssumption`, `PriorityMaxAssumption`, `MsgChainAssumption`,
`ShmQueueAssumption`, `PsistAssumption`, `QueueTableAssumption`, `ServerAssumption`,
`FramesAssumption`, `LogAssumption`, `ShmSetupAssumption`), which TLC evaluates on the
instances. They ask for what the code asks for: limits and sizes of at least one,
finitely many threads or clients, names of bytes other than zero, at least one queue in
a shared memory; and that the model's values can be told apart: a `None` that is no
message, a message that is no head or reply, an `Absent` that is no file. Further
hypotheses are in the table.

| Theorem | States | Hypothesis |
|---|---|---|
| **QcQueueProofs** | | |
| TypeCorrect | `[]TypeOK` | |
| LimitHolds | `[]LimitKept`: the limit, and room for every refill | |
| ReferencesHold | `[]ReferencesCounted`: reference counts are exact | |
| PuttersWaitOnlyOnFull | `[]PuttersWaitOnFull` | |
| GettersWaitOnlyOnEmpty | `[]GettersWaitOnEmpty` | `Forcers = {}` |
| WaitersStand | `[]Sleepers`: a listed waiter has an owner that waits | ExactWaits |
| SignalsAreBacked | `[]SignalBacked`: a message for every signalled getter | ExactWaits |
| MessagesArePlaced | `[]Placement`: a message is in one place, in one position | ExactWaits |
| MessagesArePassedOnce | `[]ExactlyOnce` | ExactWaits |
| OnlyPopsFail | no assertion fails but that of the pop search | ExactWaits |
| NothingFails | `[]NeverFails` | ExactWaits, FewLevels(Used) |
| HandoversReachGetters | `[]HandoffReachesGetter` | ForeverOnly |
| **MsgChainProofs** | | |
| Coherent | `[]ChainCoherent`: what the search relies on without looking | |
| FewPrioritiesNeverAbort | `[]PopNeverAborts` | FewLevels(Used) |
| **ShmQueueProofs** | | |
| SlotsArePartitioned | `[]SlotsPartition`: a slot is in one place | |
| TokensAreMessages | `[]TokensMatch`: the semaphore counts the used list | |
| Implementation | `ImplementsFifo`: ShmQueue refines SharedFifo | |
| **PsistProofs** | | |
| StoredInFile | `[]StoredDurably`, between the two writes of an append too, in every session | |
| IdsAreTrue | `[]IdsTrue` | |
| LoadMissesNoOther | `[]LoadMissesLastOnly` | |
| OverwritesAreInOrder | `OverwritesInOrder`, an action property | |
| **ServerProofs** | | |
| TableAnswers, DestroyedOnceEach | `[]TableMatches`, `[]DestroyedOnce` of TableSpec, the queue system by itself | |
| ServerTyped | `[]TypeOK` | |
| ServerTableAnswers, ServerDestroysOnce | the same of Spec, with the server over it | |
| ConnectionsHold | `[]Connected`: what client, bytes and worker of a connection can be in together | |
| ConnectionsInStep | `[]StreamsInStep`: a reply is that to the client's own request | |
| ServerInvariant | `[]SInv` | |
| ServerAtMostOnce | `[]AtMostOnce` | |
| ServerLossBounded | `[]LossBounded` | |
| **LogProofs** | | |
| LogPhases | `[]PhaseInv`: who has the mutex and what a roll in progress has done | |
| SessionsStayBounded | `[]SizeBounded` | |
| LogsInOrder | `[]OrderInv` | |
| LatestLinesKept | `[]SuffixKept` | |
| **ShmSetupProofs** | | |
| SetupInvariant | `[]SetupInv`: what a creation in progress or finished has written, and who follows it | |
| LayoutAlwaysFits | `[]LayoutFits` | |
| AttachersMatch | `[]AttachMatches` | |

**The hypotheses.** `ExactWaits` says that a wait ends only by its signal or at a
deadline that pthread_cond_timedwait accepts: `~SpuriousWakeups` and no wait of kind
"carry". Without it the theorems are false, as the run deadline shows: a get that wakes
for neither reason takes an empty tempList for a hand-over and aborts. The runs timed,
forever and stranded are instances of it. `ForeverOnly` allows no deadline at all, as
HandoffReachesGetter fails with one (stranded). `FewLevels(Used)` says that messages
have at most one priority besides the lowest, in a chain of any number of levels. That
is how the repository uses its queues: they have 3 or 10 levels, but each program gives
all its messages one priority (10 in test_mq.c:56, otherwise the 1 of
qc_message_create). It also covers every chain of two levels. With two other priorities
the search can abort (chain_three). With a force-put GettersWaitOnEmpty does
not hold, because qc_queue_forceput looks at no waiting getter.

**The queue: IInv of QcQueueProofs.** None of the invariants is inductive by itself;
IInv adds:

- *Control*: which locations hold quelock and which have a waiter object and a message.
  A refill's claim to room rests on quelock keeping other threads out.
- *CountersTrue*: `msg_count` and `putter_count` are the sums of the bucket lengths. The
  code tests the counters but changes the lists; "no putter is listed" is read off
  putter_count. It rests on ListProofs: each chain operation keeps the sum in
  step and returns a chain.
- *RefillAdmitsOne*: a get that took a message out of the chain has room for exactly the
  message it admits.
- *PuttersCarryMessages*: a popped putter that was not abandoned carries a message with
  a priority, so its push is well typed.

Reference counts are proved by counting: each step adds one thread to, or removes one
from, the set of threads that hold the object, and changes `ref` by as much.

**The queue: what threads owe each other.** A waiter object is used by
its owner, by whoever popped it and by the lists, under three locks. *Sleepers* says how
they agree: an object has one owner (*OneOwner*); the owner's location tells the
object's condlock, flags and message (*OwnersStand*); a popped object is off the lists
(*PoppersStand*); and a listed one, listed once, has an owner that waits and was not
signalled (*GettersListed*, *PuttersListed*). The steps of a thread are first shown to
be one of fifteen `Moves` by what they do to waiters and lists, and Sleepers is then
preserved by each move, so that the actions are taken apart once. SignalBacked
follows by counting: a step that signals a getter first adds to the tempList, a getter
leaves the wait with its message, and an expiry turns none that is signalled.

*Placement* does the same for messages: the chain, the tempList and the hand of a
refilling get are disjoint and without repetition (*Apart*); a putter about to be
admitted has not left (*PopperAdmits*); a thread that still carries its message has it
nowhere in the queue, and one whose put will report success has given it (*Puts*);
delivered messages are out, accepted ones in or delivered. The steps are mapped to six
`Flows` (stay, be brought, enter, be reported, be delivered, be forced). ExactlyOnce
counts the copies of each message from it. OnlyPopsFail collects what each assertion in
the code needs of these invariants. For waits without a deadline *HandedOnce* adds that
between pop and signal a getter belongs to one putter and still waits.

**The chain (ListProofs, MsgChainProofs).** `Kept` says of a chain that its
count is that of its entries (*Counted*), that none is listed twice (*NoneTwice*), and
that no list above the cursor has a message and no turn is overdrawn (*Ruled*). Each
operation keeps it: push, pop, removal, eviction. `WhenPopAborts` says what a chain must
look like for `qc_assert(bucket_sn>=0)` to fail: bucket 1 empty and with its turn not
begun, messages in two other buckets. Levels fill only by pushes of their priority
(*LevelsUsed*), so it takes messages of two priorities above the lowest.

**The shared-memory queue (ListProofs, ShmQueueProofs).** A well-formed list has
exactly one order that its links stand for (`OneOrder`); adding at the tail appends to
it, taking the head leaves its tail. IInv adds to the runs' invariants that both lists
are well-formed (*ListsIntact*), what is in hand at each location (*SlotsInHand*), that
lists and hands are apart and lose nothing (*SlotsApart*, *NoSlotLost*), and what has
been written of a message (*MessagesKept*). No fairness and no locking order is assumed:
a process may stop for ever at any point. The refinement is a step simulation: the
initial states map to the FIFO's, and each action to a FIFO step or a stutter.

**The store (PsistProofs).** IInv relates what the code never compares: the flags in the
file, the ids in the pool, the ids messages carry. Used records are of messages in the
file, one each, and hold their bytes unless they are "hit" (*RecordsNamed,
OneRecordEach, EveryStored*); messages in memory know their records, or lead to no
earlier session's (*HeldKnown, QueuedKnown*); an append in progress has a record to
itself or one that it hit (*AppendApart*); a load has queued all it has passed
(*LoadSoFar, LoadedAll*). Of the pool two things are known. In any session its links run
through takes, takes + 1, ... up to some last id and then through ids of no earlier
session's message (*OldInFirstRound*, kept by `RoundTaken` and `RoundPut`): putting back
an id that is still listed cuts the list there. If the session has not strayed, the pool
moreover is a sequence without repetition that has none of the session's own messages
(*GivenOnce*, kept by `OrderTaken` and `OrderPut`). Putting to the tail the id that is
the tail already would close the list on itself; it does not happen, because the only
used record at the tail is the last one (*TailUnused*), which no load reaches
(*NotOfLast*): the fetch that stops one record early is what keeps the pool whole.

**The table (ServerProofs).** `Intact` relates the buckets to the history of what
was added: every entry is in its name's bucket and is one that was added, every one that
was added has an entry, and of two of one name the newer comes first. So a lookup, which
takes the first entry that matches, finds the newest, and a deletion uncovers the one
before. That names equal but for case share a bucket is `BucketOfName`, by the loop of
the hash applied to the folded name.
`PassedIs` says that what has been destroyed is what the cursor has passed, each once.
The server's own steps leave the table alone, so the same invariant serves TableSpec and
Spec.

**The server (ServerProofs).** `StreamsInStep` looks at the moment a client reads; what
makes it true is the whole of a connection. *Connected* gives, for each place of the
client, what may be on the way in either direction and where the worker may be: at most
one request is about, a worker that puts or gets does so for the request of the type its
client waits for, a reply that promises data is followed by the data or by the worker's
sending it. The parts are *WorkerStands*, *ToServerStands* and *ToClientStands*; closing
and dying, which cut what is on the way anywhere, keep them because they also move the
client to a place that reads nothing. *Running* says that connections come after the
start, from which on nobody enumerates the table.

`AtMostOnce` needs to know where messages are, over all connections at once.
*MessagesApart* says it of sets: the chains, the tempLists, the connections' cargoes
(in a request, in a worker's hand, in a reply or as data on the way) and the delivered
ones are pairwise disjoint, no two connections share one, and what a client is still
asking to put is not accepted yet. Each action is shown to be one of few movements of a
message between these sets. `LossBounded` then counts: a message is *Gone* when it was
accepted and is in none of them, and *LossCounted* says that the gone ones are no more
than the consumers that are *Spent*, closed with nothing left that could be lost. An
action that loses a message, such as a close with a reply on its way, makes the consumer
it was going to spent.

**The log (LogProofs).** *PhaseInv* follows the mutex: one thread is inside, at most, and
its place tells whether the log is open and which file names are free (*Rolling*): a
rename overwrites a file only when rollnum is 1, where that is what drops the oldest. *SizeInv* adds that the bytes a session has put into
file 0 are those its offset counts, but for what failed writes took off (*BytesCounted*),
and that lines carry the numbers of sessions there have been (*Dated*); `Sized` bounds
every file, as a rolled file was at the limit or just above when it was closed.
*OrderInv* is about order: *HoldAfter* says that there is a line number x such that the
files, from the oldest to file 0, hold exactly the lines after x up to the last one
written, each file ending where the next begins. It allows gaps between the files'
numbers, which a roll cut short leaves behind. Removing the oldest moves x forward,
renaming moves none. How far x may be is a matter of sessions without failures
(*InOrder*): all rolled files are full, and the one gap is the one the roll in progress
moves down, so that when a file is dropped all others are there (`FullFilesHold`).
Finally `OnDisk`, a recursive concatenation, is shown to be the lines after x.

**The shared memory (ShmSetupProofs).** The offsets of shm_queue_init and the sum of
calc_shmsize are recursive functions of the configuration; that the recursion defines
what it should is `SumsExist`, and that both come to the same is shown by the smallest
queue at which they would not (`SizesAgree`). Each queue's regions lie between its offset
and the next (`QueRegionsFit`), the offsets grow, so regions of two queues are apart
(`LayoutIsSound`). The sizes of the structures stay parameters: nothing depends on their
values. *SetupInv* describes the daemon's progress: the queues before the present one are
whole, of the present one the steps before the present step are done (*Progress*, over
`SetupOrder`); a semaphore's name leads to the present start's semaphore or, after an
attacher's failure or an unlink, to none. A finished creation is whole for good, and until
the next start no other semaphores appear (*Finished*). *Following* places each attacher:
one that mapped a finished memory never goes astray. It uses LayoutIsSound, as the daemon
gives up a creation when the two sizes differ.

Where an argument needs "the first such place" (the first entry of a name, the value of
a sum) it takes the least natural number with a property (`LeastNatural`), as the
induction rules of the library are beyond the provers. The last steps of all theorems
are propositional temporal logic.

**Only model-checked**, and why:

- SearchMatchesLoop, that the closed form of the search is the code's loop, and
  LinkedListMatches: recursive operators, and an induction over data.
- ListOperationsMatch: of the static list, adding at the tail and taking the head, which
  the shared-memory queue uses, are proved (TailAdded, HeadTaken); insertion and removal
  inside, which have no caller, and the clearing loop, an induction, are not.
- BypassBounded: its bounds are numbers for three levels.
- all liveness, which is out of the prover's reach: PutterAdmitted, EventuallyDelivered,
  QuelockReleased, WaitersReturn, EventuallyServed, EventuallyPulled,
  TimedRequestAnswered, WorkerEnds, MutexReleased.

## Not modelled

- destroying a queue: no caller in the repository destroys one in use; msgcount, a read
  whose value decides nothing; allocation failures.
- the order of equal-priority threads at a mutex, rwlocks, thread creation.
- message buffers and their ownership: no property tells their contents apart.
- a process that dies inside a critical section of the shared-memory queue, which blocks
  every other: the semaphore is not robust. Parsing the configuration. A mapping or a
  semaphore that cannot be made.
- changing the table of a running server, which no caller does; stopping a server, which
  the code does not do to a running one; byte orders, and the socket's options.
- NBlockQue, BlockQue and UnitPool of qc_utils.c: nothing calls them, so there is no use
  of them to be faithful to. The peeks of the static list and qc_hashbin likewise.
- the text and levels of log lines; the file operations the log and the store do not
  use.
- messages longer than msgbuff_size, whose bytes qc_psist_file.c:224 would write into the
  records that follow: no caller in the repository appends one.
- disk errors a write reports as -1: qc_psist_file.c compares the result, a size_t, with
  `<= 0`, so they pass for success.
- everything listed in PROJECT.json with status not_modelled.

## What could be added

- For the message chain: that each operation of LinkedList keeps `Lists`, which needs no
  recursion, as ListProofs does for the static list; and insertion and removal inside a
  static list.
- The waits of kind "carry" and spurious wakeups in the theorems of QcQueue, should the
  code loop on its conditions: ExactWaits could then be dropped.
- A refinement of the queue that Server abstracts by QcQueue. It is stated in words above,
  because QcQueue's calls end in outcomes (an abort, a stranded message) that the abstract
  queue only has in part.
