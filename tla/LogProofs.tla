------------------------------ MODULE LogProofs -----------------------------
(***************************************************************************)
(* Proofs about Log, for any threads, number of files, limit and length of *)
(* a line: the files hold the latest lines in their order, only the oldest *)
(* are dropped and in a session without failures no more than a file's     *)
(* worth of what rollnum stands for; and a session's lines in a file stay  *)
(* below the limit and one line.                                           *)
(***************************************************************************)
EXTENDS Log, ListProofs

Places == {"down", "idle", "lock", "write", "unlock", "close", "roll", "open", "stuck"}
Inside == {"write", "unlock", "close", "roll", "open", "stuck"}

LogTyped ==
    /\ files \in [Indexes -> Seq(Line) \cup {Absent}]
    /\ logf \in BOOLEAN /\ curoffset \in Int /\ mutex \in Threads \cup {NoThread}
    /\ pc \in [Threads -> Places] /\ roll \in 0..(RollNum - 1)
    /\ session \in Nat /\ written \in Nat /\ failures \in Nat

(* The thread inside has the mutex; threads are down together, and then    *)
(* the log is not open.                                                    *)
OneInside  == \A t \in Threads : pc[t] \in Inside => mutex = t
UpTogether == \A t, u \in Threads : pc[t] = "down" => pc[u] = "down"
DownClosed == logf => \A t \in Threads : pc[t] # "down"

(* What a thread that closes and rolls the files has of them. *)
AtPlace(t) ==
    /\ pc[t] = "close" => logf /\ FileLimit <= curoffset /\ curoffset < FileLimit + LineLen
    /\ pc[t] \in {"roll", "open"} => ~logf
    /\ pc[t] = "roll" => files[0] # Absent /\ (roll < RollNum - 1 => files[roll + 1] = Absent)
    /\ pc[t] = "open" => files[0] = Absent
Rolling == \A t \in Threads : AtPlace(t)

Opened == logf => /\ files[0] # Absent
                  /\ \/ curoffset < FileLimit
                     \/ \E t \in Threads : pc[t] \in {"close", "stuck"}

Unstarted == session = 0 => /\ written = 0 /\ ~logf
                            /\ \A i \in Indexes : files[i] = Absent
                            /\ \A t \in Threads : pc[t] = "down"

PhaseInv == LogTyped /\ OneInside /\ UpTogether /\ DownClosed /\ Rolling /\ Opened /\ Unstarted

-----------------------------------------------------------------------------
(* The phases of a roll. *)

LEMMA Constants ==
    /\ RollNum \in Nat /\ RollNum >= 1 /\ Oldest \in Nat /\ Oldest >= 1
    /\ RollNum - 1 <= Oldest /\ (RollNum > 1 => Oldest = RollNum - 1)
    /\ Indexes = 0..Oldest /\ 0 \in Indexes /\ 1 \in Indexes
    /\ FileLimit \in Nat /\ FileLimit >= 1 /\ LineLen \in Nat /\ LineLen >= 1
    /\ NoThread \notin Threads /\ Absent \notin Seq(Line) /\ <<>> \in Seq(Line)
  BY LogAssumption DEF Oldest, Indexes

LEMMA OpensFile ==
    ASSUME LogTyped, Opens
    PROVE  files' \in [Indexes -> Seq(Line) \cup {Absent}] /\ (logf' => files'[0] # Absent)
<1>1. files \in [Indexes -> Seq(Line) \cup {Absent}] /\ 0 \in Indexes /\ <<>> \in Seq(Line) /\ <<>> # Absent
  BY Constants DEF LogTyped
<1>2. \/ files' = [files EXCEPT ![0] = IF files[0] = Absent THEN <<>> ELSE files[0]]
      \/ files' = files /\ ~logf'
  BY <1>1 DEF Opens
<1> QED
  BY <1>1, <1>2

LEMMA StartsUpPhase ==
    ASSUME PhaseInv, StartsUp
    PROVE  PhaseInv'
<1>1. /\ pc' = [t \in Threads |-> "idle"] /\ curoffset' = 0 /\ mutex' = NoThread
      /\ session' = session + 1 /\ written' = written /\ roll' = roll
      /\ failures' \in {failures, failures + 1} /\ logf' \in BOOLEAN
      /\ files' \in [Indexes -> Seq(Line) \cup {Absent}] /\ (logf' => files'[0] # Absent)
  BY OpensFile DEF PhaseInv, StartsUp, Opens, Works, Fails
<1>2. LogTyped'
  BY <1>1, Constants DEF PhaseInv, LogTyped, Places
<1>3. (OneInside /\ UpTogether /\ DownClosed /\ Unstarted)'
  BY <1>1 DEF PhaseInv, LogTyped, OneInside, UpTogether, DownClosed, Unstarted, Inside
<1>4. (Rolling /\ Opened)'
  BY <1>1, Constants DEF Rolling, AtPlace, Opened
<1> QED
  BY <1>2, <1>3, <1>4 DEF PhaseInv

LEMMA DiesPhase ==
    ASSUME PhaseInv, Dies
    PROVE  PhaseInv'
  BY Constants DEF PhaseInv, Dies, LogTyped, OneInside, UpTogether, DownClosed,
     Rolling, AtPlace, Opened, Unstarted, Places, Inside, fileVars

LEMMA LogsPhase ==
    ASSUME PhaseInv, NEW t \in Threads, Logs(t)
    PROVE  PhaseInv'
  BY Constants DEF PhaseInv, Logs, Goes, LogTyped, OneInside, UpTogether, DownClosed,
     Rolling, AtPlace, Opened, Unstarted, Places, Inside, fileVars

LEMMA LocksPhase ==
    ASSUME PhaseInv, NEW t \in Threads, Locks(t)
    PROVE  PhaseInv'
  BY Constants DEF PhaseInv, Locks, Goes, LogTyped, OneInside, UpTogether, DownClosed,
     Rolling, AtPlace, Opened, Unstarted, Places, Inside, fileVars

LEMMA WritesLinePhase ==
    ASSUME PhaseInv, NEW t \in Threads, WritesLine(t)
    PROVE  PhaseInv'
<1>1. /\ pc[t] = "write" /\ logf /\ logf' = logf /\ mutex' = mutex /\ roll' = roll /\ session' = session
      /\ pc' = [pc EXCEPT ![t] = IF RollDue(curoffset') THEN "close" ELSE "unlock"]
  BY DEF WritesLine, Goes
<1>2. \A u \in Threads \ {t} : pc[u] \notin Inside
  BY <1>1 DEF PhaseInv, OneInside, Inside
<1>3. files[0] \in Seq(Line) /\ curoffset < FileLimit /\ session # 0
  BY <1>1, <1>2, Constants DEF PhaseInv, Opened, LogTyped, Inside, Unstarted
<1>4. /\ files' \in [Indexes -> Seq(Line) \cup {Absent}] /\ files'[0] # Absent
      /\ written' \in Nat /\ failures' \in Nat /\ curoffset' \in Int /\ curoffset' < FileLimit + LineLen
  <2>1. CASE UNCHANGED fileVars /\ Fails /\ curoffset' = curoffset - 1
    BY <1>3, <2>1, Constants DEF PhaseInv, LogTyped, fileVars, Fails
  <2>2. CASE /\ Works /\ written' = written + 1 /\ Appended([no |-> written', session |-> session])
             /\ curoffset' = curoffset + LineLen
    <3>1. [no |-> written', session |-> session] \in Line
      BY <2>2 DEF PhaseInv, LogTyped, Line
    <3>2. Append(files[0], [no |-> written', session |-> session]) \in Seq(Line)
      BY <1>3, <3>1
    <3>3. files \in [Indexes -> Seq(Line) \cup {Absent}] /\ written \in Nat /\ failures \in Nat /\ curoffset \in Int
      BY DEF PhaseInv, LogTyped
    <3> DEFINE a == Append(files[0], [no |-> written', session |-> session])
    <3>4. files' = [files EXCEPT ![0] = a]
      BY <2>2, <3>3 DEF Appended
    <3>5. a \in Seq(Line) /\ a # Absent
      BY <3>2, Constants
    <3> HIDE DEF a
    <3>6. files' \in [Indexes -> Seq(Line) \cup {Absent}] /\ files'[0] # Absent
      BY <3>3, <3>4, <3>5, Constants
    <3> QED
      BY <1>3, <2>2, <3>3, <3>6, Constants DEF Works
  <2> QED
    BY <2>1, <2>2 DEF WritesLine
<1>5. pc'[t] = (IF FileLimit <= curoffset' THEN "close" ELSE "unlock") /\ \A u \in Threads \ {t} : pc'[u] = pc[u]
  BY <1>1, <1>4, Constants DEF RollDue, PhaseInv, LogTyped
<1>6. LogTyped'
  BY <1>1, <1>4 DEF PhaseInv, LogTyped, Places
<1>7. (OneInside /\ UpTogether /\ DownClosed /\ Unstarted)'
  BY <1>1, <1>3, <1>5 DEF PhaseInv, OneInside, UpTogether, DownClosed, Unstarted, Inside
<1>8. (Rolling /\ Opened)'
  BY <1>1, <1>2, <1>4, <1>5, Constants DEF Rolling, AtPlace, Opened, Inside
<1> QED
  BY <1>6, <1>7, <1>8 DEF PhaseInv

LEMMA FindsClosedPhase ==
    ASSUME PhaseInv, NEW t \in Threads, FindsClosed(t)
    PROVE  PhaseInv'
  BY Constants DEF PhaseInv, FindsClosed, Goes, LogTyped, OneInside, UpTogether, DownClosed,
     Rolling, AtPlace, Opened, Unstarted, Places, Inside, fileVars

LEMMA UnlocksPhase ==
    ASSUME PhaseInv, NEW t \in Threads, Unlocks(t)
    PROVE  PhaseInv'
  BY Constants DEF PhaseInv, Unlocks, Goes, LogTyped, OneInside, UpTogether, DownClosed,
     Rolling, AtPlace, Opened, Unstarted, Places, Inside, fileVars

LEMMA ClosesPhase ==
    ASSUME PhaseInv, NEW t \in Threads, Closes(t)
    PROVE  PhaseInv'
  BY Constants DEF PhaseInv, Closes, Works, Fails, LogfAfterClose, AfterError, Goes, LogTyped, OneInside, UpTogether, DownClosed,
     Rolling, AtPlace, Opened, Unstarted, Places, Inside, fileVars

(* A turn of the loop leaves no file i. *)
Turned(f, g, i) == \/ f[i] = Absent /\ g = f
                   \/ f[i] # Absent /\ i = RollNum - 1 /\ g = [f EXCEPT ![i] = Absent]
                   \/ f[i] # Absent /\ i # RollNum - 1 /\ g = [f EXCEPT ![i] = Absent, ![i + 1] = f[i]]

LEMMA RollsOnePhase ==
    ASSUME PhaseInv, NEW t \in Threads, RollsOne(t)
    PROVE  PhaseInv'
<1>1. /\ pc[t] = "roll" /\ roll > 0 /\ roll' = roll - 1 /\ ~logf /\ logf' = logf /\ mutex' = mutex
      /\ session' = session /\ written' = written /\ curoffset' = curoffset /\ session # 0
      /\ failures' \in {failures, failures + 1}
      /\ \/ /\ pc' = [pc EXCEPT ![t] = "roll"]
            /\ Turned(files, files', roll)
         \/ pc' = [pc EXCEPT ![t] = "unlock"] /\ files' = files
  BY DEF PhaseInv, Rolling, AtPlace, Unstarted, RollsOne, Works, Fails, Exists, IsOldest, Removed, Renamed,
         AfterError, Goes, Turned
<1>2. \A u \in Threads \ {t} : pc[u] \notin Inside
  BY <1>1 DEF PhaseInv, OneInside, Inside
<1>3. files[0] # Absent /\ roll \in 1..(RollNum - 1) /\ roll \in Indexes \ {0}
  BY <1>1, Constants DEF PhaseInv, Rolling, AtPlace, LogTyped
<1>4. /\ files' \in [Indexes -> Seq(Line) \cup {Absent}]
      /\ pc'[t] = "roll" => files'[roll] = Absent /\ files'[0] # Absent
  BY <1>1, <1>3, Constants DEF PhaseInv, LogTyped, Turned
<1>5. pc'[t] \in {"roll", "unlock"} /\ \A u \in Threads \ {t} : pc'[u] = pc[u]
  BY <1>1 DEF PhaseInv, LogTyped
<1>6. LogTyped'
  <2>1. roll' \in 0..(RollNum - 1)
    BY <1>1, <1>3, Constants
  <2> QED
    BY <1>1, <1>4, <2>1 DEF PhaseInv, LogTyped, Places
<1>7. (OneInside /\ UpTogether /\ DownClosed /\ Unstarted)'
  BY <1>1, <1>5 DEF PhaseInv, OneInside, UpTogether, DownClosed, Unstarted, Inside
<1>8. (Rolling /\ Opened)'
  <2>1. roll' + 1 = roll
    BY <1>1, <1>3
  <2> QED
    BY <1>1, <1>2, <1>4, <1>5, <2>1 DEF Rolling, AtPlace, Opened, Inside
<1> QED
  BY <1>6, <1>7, <1>8 DEF PhaseInv

LEMMA RollsLastPhase ==
    ASSUME PhaseInv, NEW t \in Threads, RollsLast(t)
    PROVE  PhaseInv'
<1>1. /\ pc[t] = "roll" /\ roll = 0 /\ roll' = roll /\ ~logf /\ logf' = logf /\ mutex' = mutex
      /\ session' = session /\ written' = written /\ curoffset' = curoffset /\ session # 0
      /\ failures' \in {failures, failures + 1}
      /\ \/ pc' = [pc EXCEPT ![t] = "open"] /\ files' = [files EXCEPT ![0] = Absent, ![1] = files[0]]
         \/ pc' = [pc EXCEPT ![t] = "unlock"] /\ files' = files
  BY DEF PhaseInv, Rolling, AtPlace, Unstarted, RollsLast, Works, Fails, Renamed, AfterError, Goes
<1>2. \A u \in Threads \ {t} : pc[u] \notin Inside
  BY <1>1 DEF PhaseInv, OneInside, Inside
<1>3. files' \in [Indexes -> Seq(Line) \cup {Absent}] /\ (pc'[t] = "open" => files'[0] = Absent)
  BY <1>1, Constants DEF PhaseInv, LogTyped
<1>4. pc'[t] \in {"open", "unlock"} /\ \A u \in Threads \ {t} : pc'[u] = pc[u]
  BY <1>1 DEF PhaseInv, LogTyped
<1>5. LogTyped'
  BY <1>1, <1>3 DEF PhaseInv, LogTyped, Places
<1>6. (OneInside /\ UpTogether /\ DownClosed /\ Unstarted)'
  BY <1>1, <1>4 DEF PhaseInv, OneInside, UpTogether, DownClosed, Unstarted, Inside
<1>7. (Rolling /\ Opened)'
  BY <1>1, <1>2, <1>3, <1>4 DEF Rolling, AtPlace, Opened, Inside
<1> QED
  BY <1>5, <1>6, <1>7 DEF PhaseInv

LEMMA ReopensPhase ==
    ASSUME PhaseInv, NEW t \in Threads, Reopens(t)
    PROVE  PhaseInv'
<1>1. /\ pc[t] = "open" /\ roll' = roll /\ mutex' = mutex /\ curoffset' = 0
      /\ session' = session /\ written' = written /\ session # 0
      /\ failures' \in {failures, failures + 1} /\ logf' \in BOOLEAN
      /\ pc' = [pc EXCEPT ![t] = "unlock"]
  BY DEF PhaseInv, Unstarted, Reopens, Opens, Works, Fails, Goes
<1>2. \A u \in Threads \ {t} : pc[u] \notin Inside
  BY <1>1 DEF PhaseInv, OneInside, Inside
<1>3. files' \in [Indexes -> Seq(Line) \cup {Absent}] /\ (logf' => files'[0] # Absent)
  BY OpensFile DEF PhaseInv, Reopens
<1>4. pc'[t] = "unlock" /\ \A u \in Threads \ {t} : pc'[u] = pc[u]
  BY <1>1 DEF PhaseInv, LogTyped
<1>5. LogTyped'
  BY <1>1, <1>3, Constants DEF PhaseInv, LogTyped, Places
<1>6. (OneInside /\ UpTogether /\ DownClosed /\ Unstarted)'
  BY <1>1, <1>4 DEF PhaseInv, OneInside, UpTogether, DownClosed, Unstarted, Inside
<1>7. (Rolling /\ Opened)'
  BY <1>1, <1>2, <1>3, <1>4, Constants DEF Rolling, AtPlace, Opened, Inside
<1> QED
  BY <1>5, <1>6, <1>7 DEF PhaseInv

(* PhaseInv: the thread that rolls the files has the mutex and knows which *)
(* of them are there, whatever fails in _rollfiles or dies with it.        *)
THEOREM LogPhases == Spec => []PhaseInv
<1>1. Init => PhaseInv
  BY Constants DEF Init, PhaseInv, LogTyped, OneInside, UpTogether, DownClosed, Rolling, AtPlace, Opened, Unstarted, Places, Inside
<1>2. PhaseInv /\ [Next]_vars => PhaseInv'
  <2> SUFFICES ASSUME PhaseInv, [Next]_vars
               PROVE  PhaseInv'
    OBVIOUS
  <2>1. CASE StartsUp
    BY <2>1, StartsUpPhase
  <2>2. CASE Dies
    BY <2>2, DiesPhase
  <2>3. ASSUME NEW t \in Threads, Logs(t) \/ ThreadStep(t)
        PROVE  PhaseInv'
    BY <2>3, LogsPhase, LocksPhase, WritesLinePhase, FindsClosedPhase, UnlocksPhase, ClosesPhase,
       RollsOnePhase, RollsLastPhase, ReopensPhase DEF ThreadStep
  <2>4. CASE UNCHANGED vars
    BY <2>4 DEF vars, fileVars, PhaseInv, LogTyped, OneInside, UpTogether, DownClosed, Rolling, AtPlace, Opened, Unstarted
  <2> QED
    BY <2>1, <2>2, <2>3, <2>4 DEF Next
<1> QED
  BY <1>1, <1>2, PTL DEF Spec

-----------------------------------------------------------------------------
(* What a session adds to a file. *)

Of(f, s)   == {n \in DOMAIN f : f[n].session = s}
Size(f, s) == LineLen * Cardinality(Of(f, s))

LEMMA Times ==
    ASSUME NEW a \in Nat, NEW b \in Nat
    PROVE  a * 0 = 0 /\ a * b \in Nat /\ a * (b + 1) = a * b + a
  OBVIOUS

LEMMA SizeTyped ==
    ASSUME NEW f \in Seq(Line), NEW s
    PROVE  IsFiniteSet(Of(f, s)) /\ Size(f, s) \in Nat
<1>1. DOMAIN f = 1..Len(f) /\ Len(f) \in Nat
  OBVIOUS
<1>2. IsFiniteSet(Of(f, s))
  <2>1. IsFiniteSet(1..Len(f))
    BY <1>1, FS_Interval
  <2>2. Of(f, s) \subseteq 1..Len(f)
    BY <1>1 DEF Of
  <2> QED
    BY <2>1, <2>2, FS_Subset
<1>3. Cardinality(Of(f, s)) \in Nat
  BY <1>2, FS_CardinalityType
<1> QED
  BY <1>2, <1>3, Times, Constants DEF Size

LEMMA SizeOfNone ==
    ASSUME NEW f \in Seq(Line), NEW s, \A n \in DOMAIN f : f[n].session # s
    PROVE  Size(f, s) = 0
<1>1. Of(f, s) = {}
  BY DEF Of
<1> QED
  BY <1>1, FS_EmptySet, Times, Constants DEF Size

LEMMA SizeOfAppended ==
    ASSUME NEW f \in Seq(Line), NEW l \in Line, NEW s
    PROVE  Size(Append(f, l), s) = IF l.session = s THEN Size(f, s) + LineLen ELSE Size(f, s)
<1> DEFINE g == Append(f, l)
           n == Len(f) + 1
<1>1. /\ DOMAIN f = 1..Len(f) /\ DOMAIN g = 1..n /\ n \notin DOMAIN f /\ DOMAIN g = DOMAIN f \cup {n}
      /\ g[n] = l /\ \A i \in DOMAIN f : g[i] = f[i]
  OBVIOUS
<1>2. Of(g, s) = IF l.session = s THEN Of(f, s) \cup {n} ELSE Of(f, s)
  BY <1>1 DEF Of
<1>3. n \notin Of(f, s)
  BY <1>1 DEF Of
<1>4. Cardinality(Of(f, s)) \in Nat /\ Cardinality(Of(f, s) \cup {n}) = Cardinality(Of(f, s)) + 1
  BY <1>3, SizeTyped, FS_AddElement, FS_CardinalityType
<1> QED
  BY <1>2, <1>4, Times, Constants DEF Size

BytesCounted == logf => Size(files[0], session) <= curoffset + failures
Dated   == \A i \in Indexes : files[i] # Absent => \A n \in DOMAIN files[i] : files[i][n].session <= session
Sized   == \A i \in Indexes : files[i] # Absent =>
               \A s \in 1..session : Size(files[i], s) < FileLimit + LineLen + failures

(* A step that leaves the files in number and content, whatever it renames.*)
LEMMA SizesKept ==
    ASSUME PhaseInv, Dated, Sized, session' = session, failures' \in {failures, failures + 1},
           \A i \in Indexes : files'[i] # Absent => \/ \E j \in Indexes : files[j] # Absent /\ files'[i] = files[j]
                                                    \/ files'[i] = <<>>
    PROVE  (Dated /\ Sized)'
<1>1. LogTyped
  BY DEF PhaseInv
<1>2. Dated'
  BY <1>1 DEF Dated
<1>3. ASSUME NEW i \in Indexes, files'[i] # Absent, NEW s \in 1..session
      PROVE  Size(files'[i], s) < FileLimit + LineLen + failures'
  <2>1. CASE files'[i] = <<>>
    <3>1. Size(<<>>, s) = 0
      <4>1. <<>> \in Seq(Line) /\ \A n \in DOMAIN <<>> : <<>>[n].session # s
        OBVIOUS
      <4> QED
        BY ONLY <4>1, SizeOfNone
    <3> QED
      BY <1>1, <2>1, <3>1, Constants DEF LogTyped
  <2>2. ASSUME NEW j \in Indexes, files[j] # Absent, files'[i] = files[j]
        PROVE  Size(files'[i], s) < FileLimit + LineLen + failures'
    <3>1. files[j] \in Seq(Line)
      BY <1>1, <2>2 DEF LogTyped
    <3>2. Size(files[j], s) \in Nat
      BY <3>1, SizeTyped
    <3>3. Size(files[j], s) < FileLimit + LineLen + failures
      BY <2>2 DEF Sized
    <3>4. failures \in Nat /\ failures <= failures'
      BY <1>1 DEF LogTyped
    <3> QED
      BY <2>2, <3>2, <3>3, <3>4, Constants
  <2> QED
    BY <1>3, <2>1, <2>2
<1> QED
  BY <1>2, <1>3 DEF Sized

SizeInv == BytesCounted /\ Dated /\ Sized

LEMMA StartsUpSizes ==
    ASSUME PhaseInv, PhaseInv', SizeInv, StartsUp
    PROVE  SizeInv'
<1>1. LogTyped /\ LogTyped'
  BY DEF PhaseInv
<1>2. /\ session' = session + 1 /\ curoffset' = 0 /\ failures' \in Nat /\ failures <= failures'
      /\ (files' = files \/ files' = [files EXCEPT ![0] = IF @ = Absent THEN <<>> ELSE @])
  BY <1>1 DEF StartsUp, Opens, Works, Fails, LogTyped
<1>3. \A i \in Indexes : files'[i] = files[i] \/ (files[i] = Absent /\ files'[i] = <<>>)
  BY <1>1, <1>2 DEF LogTyped
<1>4. Dated' /\ \A i \in Indexes : files'[i] # Absent => \A n \in DOMAIN files'[i] : files'[i][n].session # session'
  <2> SUFFICES ASSUME NEW i \in Indexes, files'[i] # Absent, NEW n \in DOMAIN files'[i]
               PROVE  files'[i][n].session <= session' /\ files'[i][n].session # session'
    BY DEF Dated
  <2>1. files'[i] = files[i] /\ files[i] # Absent
    BY <1>3
  <2>2. files[i] \in Seq(Line)
    BY <1>1, <2>1 DEF LogTyped
  <2>3. files[i][n].session \in Nat
    <3>1. files[i][n] \in Line
      BY <2>1, <2>2
    <3> QED
      BY <3>1 DEF Line
  <2>4. files[i][n].session <= session
    BY <2>1 DEF SizeInv, Dated
  <2> QED
    BY <1>1, <1>2, <2>1, <2>3, <2>4 DEF LogTyped
<1>5. \A i \in Indexes : files'[i] # Absent => Size(files'[i], session') = 0
  <2> SUFFICES ASSUME NEW i \in Indexes, files'[i] # Absent
               PROVE  Size(files'[i], session') = 0
    OBVIOUS
  <2>1. files'[i] \in Seq(Line)
    BY <1>1 DEF LogTyped
  <2>2. \A n \in DOMAIN files'[i] : files'[i][n].session # session'
    BY <1>4
  <2> QED
    BY ONLY <2>1, <2>2, SizeOfNone
<1>6. BytesCounted'
  <2>1. logf' => files'[0] # Absent
    BY DEF PhaseInv, Opened
  <2> QED
    BY <1>2, <1>5, <2>1, Constants DEF BytesCounted
<1>7. ASSUME NEW i \in Indexes, files'[i] # Absent, NEW s \in 1..session'
      PROVE  Size(files'[i], s) < FileLimit + LineLen + failures'
  <2>1. CASE s = session'
    BY <1>2, <1>5, <1>7, <2>1, Constants
  <2>2. CASE s # session'
    <3>1. s \in 1..session
      BY <1>1, <1>2, <2>2 DEF LogTyped
    <3>2. CASE files'[i] = files[i] /\ files[i] # Absent
      <4>1. files[i] \in Seq(Line)
        BY <1>1, <3>2 DEF LogTyped
      <4>2. Size(files[i], s) \in Nat
        BY <4>1, SizeTyped
      <4>3. Size(files[i], s) < FileLimit + LineLen + failures
        BY <3>1, <3>2 DEF SizeInv, Sized
      <4> QED
        BY <1>1, <1>2, <3>2, <4>2, <4>3, Constants DEF LogTyped
    <3>3. CASE files'[i] = <<>>
      <4>1. Size(<<>>, s) = 0
        <5>1. <<>> \in Seq(Line) /\ \A n \in DOMAIN <<>> : <<>>[n].session # s
          OBVIOUS
        <5> QED
          BY ONLY <5>1, SizeOfNone
      <4> QED
        BY <1>2, <3>3, <4>1, Constants
    <3> QED
      BY <1>3, <1>7, <3>2, <3>3
  <2> QED
    BY <2>1, <2>2
<1> QED
  BY <1>4, <1>6, <1>7 DEF SizeInv, Sized

LEMMA WritesLineSizes ==
    ASSUME PhaseInv, PhaseInv', SizeInv, NEW t \in Threads, WritesLine(t)
    PROVE  SizeInv'
<1>1. LogTyped /\ LogTyped'
  BY DEF PhaseInv
<1>2. logf /\ session' = session /\ files[0] # Absent
  BY DEF WritesLine, PhaseInv, Opened
<1>3. files[0] \in Seq(Line) /\ Size(files[0], session) \in Nat /\ Size(files[0], session) <= curoffset + failures
  <2>1. files[0] \in Seq(Line)
    BY <1>1, <1>2, Constants DEF LogTyped
  <2> QED
    BY <1>2, <2>1, SizeTyped DEF SizeInv, BytesCounted
<1>4. CASE files' = files /\ failures' = failures + 1 /\ curoffset' = curoffset - 1
  <2>1. BytesCounted'
    BY <1>1, <1>2, <1>3, <1>4 DEF BytesCounted, LogTyped
  <2>2. (Dated /\ Sized)'
    BY <1>2, <1>4, SizesKept DEF SizeInv
  <2> QED
    BY <2>1, <2>2 DEF SizeInv
<1>5. ASSUME NEW l, l = [no |-> written + 1, session |-> session],
             files' = [files EXCEPT ![0] = Append(files[0], l)],
             failures' = failures, curoffset' = curoffset + LineLen, written' = written + 1
      PROVE  SizeInv'
  <2>1. l \in Line /\ l.session = session
    BY <1>1, <1>5 DEF LogTyped, Line
  <2>2. files'[0] = Append(files[0], l) /\ \A i \in Indexes \ {0} : files'[i] = files[i]
    BY <1>1, <1>5, Constants DEF LogTyped
  <2>3. \A s : Size(files'[0], s) = IF session = s THEN Size(files[0], s) + LineLen ELSE Size(files[0], s)
    BY <1>3, <2>1, <2>2, SizeOfAppended
  <2>4. BytesCounted' /\ Size(files'[0], session) < FileLimit + LineLen + failures'
    <3>1. Size(files'[0], session) <= curoffset' + failures'
      BY <1>1, <1>3, <1>5, <2>3, Constants DEF LogTyped
    <3>2. curoffset' < FileLimit + LineLen
      <4>1. pc[t] = "write" /\ mutex = t
        BY DEF WritesLine, PhaseInv, OneInside, Inside
      <4>2. \A u \in Threads : pc[u] \notin {"close", "stuck"}
        BY <4>1 DEF PhaseInv, OneInside, Inside
      <4>3. curoffset < FileLimit
        BY <1>2, <4>2 DEF PhaseInv, Opened
      <4> QED
        BY <1>1, <1>5, <4>3, Constants DEF LogTyped
    <3>3. Size(files'[0], session) \in Int
      BY <1>3, <2>3, Constants
    <3> QED
      BY <1>1, <1>2, <3>1, <3>2, <3>3, Constants DEF BytesCounted, LogTyped
  <2>5. Dated'
    <3> SUFFICES ASSUME NEW i \in Indexes, files'[i] # Absent, NEW n \in DOMAIN files'[i]
                 PROVE  files'[i][n].session <= session
      BY <1>2 DEF Dated
    <3>1. CASE i # 0
      BY <2>2, <3>1 DEF SizeInv, Dated
    <3>2. CASE i = 0
      <4>1. n \in DOMAIN files[0] => files'[0][n] = files[0][n]
        BY <1>3, <2>1, <2>2
      <4>2. n \notin DOMAIN files[0] => files'[0][n] = l
        BY <1>3, <2>1, <2>2, <3>2
      <4>3. n \in DOMAIN files[0] => files[0][n].session <= session
        BY <1>2, Constants DEF SizeInv, Dated
      <4> QED
        BY <1>1, <2>1, <3>2, <4>1, <4>2, <4>3 DEF LogTyped
    <3> QED
      BY <3>1, <3>2
  <2>6. Sized'
    <3> SUFFICES ASSUME NEW i \in Indexes, files'[i] # Absent, NEW s \in 1..session
                 PROVE  Size(files'[i], s) < FileLimit + LineLen + failures'
      BY <1>2 DEF Sized
    <3>1. CASE i # 0
      BY <1>5, <2>2, <3>1 DEF SizeInv, Sized
    <3>2. CASE i = 0 /\ s # session
      BY <1>2, <1>5, <2>3, <3>2, Constants DEF SizeInv, Sized
    <3>3. CASE i = 0 /\ s = session
      BY <2>4, <3>3
    <3> QED
      BY <3>1, <3>2, <3>3
  <2> QED
    BY <2>4, <2>5, <2>6 DEF SizeInv
<1> QED
  <2>1. \/ files' = files /\ failures' = failures + 1 /\ curoffset' = curoffset - 1
        \/ /\ files' = [files EXCEPT ![0] = Append(files[0], [no |-> written + 1, session |-> session])]
           /\ failures' = failures /\ curoffset' = curoffset + LineLen /\ written' = written + 1
    BY <1>1, Constants DEF WritesLine, Works, Fails, Appended, fileVars, LogTyped
  <2> QED
    BY <1>4, <1>5, <2>1

LEMMA ReopensSizes ==
    ASSUME PhaseInv, PhaseInv', SizeInv, NEW t \in Threads, Reopens(t)
    PROVE  SizeInv'
<1>1. LogTyped /\ LogTyped' /\ files[0] = Absent
  BY DEF PhaseInv, Rolling, AtPlace, Reopens
<1>2. /\ session' = session /\ curoffset' = 0 /\ failures' \in {failures, failures + 1}
      /\ \/ logf' /\ files' = [files EXCEPT ![0] = <<>>]
         \/ ~logf' /\ files' = files
  BY <1>1, Constants DEF Reopens, Opens, Works, Fails, LogTyped
<1>3. (Dated /\ Sized)'
  <2>1. \A i \in Indexes : files'[i] # Absent => \/ \E j \in Indexes : files[j] # Absent /\ files'[i] = files[j]
                                                 \/ files'[i] = <<>>
    BY <1>1, <1>2 DEF LogTyped
  <2> QED
    BY ONLY <1>2, <2>1, PhaseInv, SizeInv, SizesKept DEF SizeInv
<1>4. BytesCounted'
  <2>1. Size(<<>>, session) = 0
    <3>1. <<>> \in Seq(Line) /\ \A n \in DOMAIN <<>> : <<>>[n].session # session
      OBVIOUS
    <3> QED
      BY ONLY <3>1, SizeOfNone
  <2>2. logf' => files'[0] = <<>>
    BY <1>1, <1>2, Constants DEF LogTyped
  <2> QED
    BY <1>1, <1>2, <2>1, <2>2 DEF BytesCounted, LogTyped
<1> QED
  BY <1>3, <1>4 DEF SizeInv

LEMMA RollsSizes ==
    ASSUME PhaseInv, PhaseInv', SizeInv, NEW t \in Threads, RollsOne(t) \/ RollsLast(t)
    PROVE  SizeInv'
<1>1. LogTyped /\ LogTyped' /\ ~logf /\ ~logf'
  BY DEF PhaseInv, Rolling, AtPlace, RollsOne, RollsLast
<1>2. /\ session' = session /\ failures' \in {failures, failures + 1}
      /\ \/ files' = files
         \/ \E i \in Indexes : files' = [files EXCEPT ![i] = Absent]
         \/ \E i, j \in Indexes : files' = [files EXCEPT ![i] = Absent, ![j] = files[i]]
  <2>1. roll \in Indexes /\ (~IsOldest(roll) => roll + 1 \in Indexes)
    BY <1>1, Constants DEF LogTyped, IsOldest
  <2>2. CASE RollsOne(t)
    BY <2>1, <2>2 DEF RollsOne, Works, Fails, Exists, Removed, Renamed
  <2>3. CASE RollsLast(t)
    BY <2>3, Constants DEF RollsLast, Works, Fails, Renamed
  <2> QED
    BY <2>2, <2>3
<1>3. \A i \in Indexes : files'[i] # Absent => \/ \E j \in Indexes : files[j] # Absent /\ files'[i] = files[j]
                                               \/ files'[i] = <<>>
  <2>1. files \in [Indexes -> Seq(Line) \cup {Absent}]
    BY <1>1 DEF LogTyped
  <2>2. CASE files' = files
    BY <2>2
  <2>3. ASSUME NEW k \in Indexes, files' = [files EXCEPT ![k] = Absent]
        PROVE  \A i \in Indexes : files'[i] # Absent => files[i] # Absent /\ files'[i] = files[i]
    BY <2>1, <2>3
  <2>4. ASSUME NEW k \in Indexes, NEW l \in Indexes, files' = [files EXCEPT ![k] = Absent, ![l] = files[k]]
        PROVE  \A i \in Indexes : files'[i] # Absent => \/ files[i] # Absent /\ files'[i] = files[i]
                                                        \/ files[k] # Absent /\ files'[i] = files[k]
    BY <2>1, <2>4
  <2> QED
    BY <1>2, <2>2, <2>3, <2>4
<1>4. (Dated /\ Sized)'
  BY ONLY <1>2, <1>3, PhaseInv, SizeInv, SizesKept DEF SizeInv
<1> QED
  BY <1>1, <1>4 DEF SizeInv, BytesCounted

(* SizeBounded: a session adds less than the limit and one line to a file, *)
(* but for what failed writes have put _curoffset back by (_qc_log_write). *)
THEOREM SessionsStayBounded == Spec => []SizeBounded
<1>1. Init => SizeInv
  BY Constants DEF Init, SizeInv, BytesCounted, Dated, Sized
<1>2. PhaseInv /\ PhaseInv' /\ SizeInv /\ [Next]_vars => SizeInv'
  <2> SUFFICES ASSUME PhaseInv, PhaseInv', SizeInv, [Next]_vars
               PROVE  SizeInv'
    OBVIOUS
  <2>1. CASE StartsUp
    BY <2>1, StartsUpSizes
  <2>2. ASSUME NEW t \in Threads, Logs(t) \/ ThreadStep(t)
        PROVE  SizeInv'
    <3>1. CASE Logs(t) \/ Locks(t) \/ FindsClosed(t) \/ Unlocks(t)
      BY <3>1 DEF Logs, Locks, FindsClosed, Unlocks, fileVars, SizeInv, BytesCounted, Dated, Sized
    <3>2. CASE Closes(t)
      <4>1. /\ files' = files /\ session' = session /\ failures' \in {failures, failures + 1}
            /\ curoffset' = curoffset /\ (~logf' \/ logf' = logf)
        BY <3>2 DEF Closes, Works, Fails, LogfAfterClose, fileVars
      <4>2. \A i \in Indexes : files'[i] # Absent => \/ \E j \in Indexes : files[j] # Absent /\ files'[i] = files[j]
                                                     \/ files'[i] = <<>>
        BY <4>1
      <4>3. (Dated /\ Sized)'
        BY ONLY <4>1, <4>2, PhaseInv, SizeInv, SizesKept DEF SizeInv
      <4>4. BytesCounted'
        <5>1. logf' => Size(files[0], session) \in Nat /\ Size(files[0], session) <= curoffset + failures
          BY <4>1, SizeTyped, Constants DEF PhaseInv, LogTyped, Opened, SizeInv, BytesCounted
        <5> QED
          BY <4>1, <5>1 DEF BytesCounted, PhaseInv, LogTyped
      <4> QED
        BY <4>3, <4>4 DEF SizeInv
    <3> QED
      BY <2>2, <3>1, <3>2, WritesLineSizes, ReopensSizes, RollsSizes DEF ThreadStep
  <2>3. CASE Dies
    BY <2>3 DEF Dies, fileVars, SizeInv, BytesCounted, Dated, Sized
  <2>4. CASE UNCHANGED vars
    BY <2>4 DEF vars, fileVars, SizeInv, BytesCounted, Dated, Sized
  <2> QED
    BY <2>1, <2>2, <2>3, <2>4 DEF Next
<1>3. SizeInv => SizeBounded
  BY DEF SizeInv, Sized, SizeBounded, Bytes, Size, Of
<1> QED
  BY <1>1, <1>2, <1>3, LogPhases, PTL DEF Spec

-----------------------------------------------------------------------------
(* The numbers of the lines in the files.  File i ends with line e[i], and *)
(* the lines up to e[Oldest + 1] are no longer there.                      *)

LinesOf(f, i) == IF f[i] = Absent THEN <<>> ELSE f[i]

Ends == [0..(Oldest + 1) -> Nat]

Numbered(f, w, e) ==
    /\ e[0] = w
    /\ \A i \in Indexes : /\ e[i] = e[i + 1] + Len(LinesOf(f, i))
                          /\ \A n \in 1..Len(LinesOf(f, i)) : LinesOf(f, i)[n].no = e[i + 1] + n

Files == [Indexes -> Seq(Line) \cup {Absent}]

LEMMA LinesTyped ==
    ASSUME NEW f \in Files, NEW i \in Indexes
    PROVE  LinesOf(f, i) \in Seq(Line) /\ Len(LinesOf(f, i)) \in Nat /\ Len(<<>>) = 0
  BY DEF LinesOf, Files

LEMMA IndexesNext ==
    /\ Indexes \subseteq 0..(Oldest + 1) /\ Indexes \subseteq Nat
    /\ \A i \in Indexes : i + 1 \in 0..(Oldest + 1) /\ i + 1 # i /\ i + 1 # 0
    /\ \A i \in Indexes : i # Oldest => i + 1 \in Indexes
    /\ \A i, j \in Indexes : i + 1 = j + 1 => i = j
    /\ Oldest \in Indexes /\ Oldest + 1 \notin Indexes /\ Oldest + 1 \in 0..(Oldest + 1)
    /\ 0 \in Indexes /\ 0 # Oldest
  BY Constants

LEMMA CreatedNumbered ==
    ASSUME NEW f \in Files, NEW w \in Nat, NEW e \in Ends, Numbered(f, w, e), f[0] = Absent
    PROVE  Numbered([f EXCEPT ![0] = <<>>], w, e)
<1> DEFINE g == [f EXCEPT ![0] = <<>>]
<1>1. \A i \in Indexes : LinesOf(g, i) = LinesOf(f, i)
  BY DEF LinesOf, Files
<1> QED
  BY <1>1 DEF Numbered

LEMMA AppendedNumbered ==
    ASSUME NEW f \in Files, NEW w \in Nat, NEW e \in Ends, Numbered(f, w, e), f[0] # Absent,
           NEW l \in Line, l.no = w + 1
    PROVE  /\ [e EXCEPT ![0] = w + 1] \in Ends
           /\ Numbered([f EXCEPT ![0] = Append(f[0], l)], w + 1, [e EXCEPT ![0] = w + 1])
<1> DEFINE g == [f EXCEPT ![0] = Append(f[0], l)]
           d == [e EXCEPT ![0] = w + 1]
<1>1. f[0] \in Seq(Line) /\ LinesOf(f, 0) = f[0] /\ 0 \in Indexes
  BY Constants DEF Files, LinesOf
<1>2. d \in Ends /\ d[0] = w + 1 /\ \A i \in Indexes : d[i + 1] = e[i + 1] /\ (i # 0 => d[i] = e[i])
  BY IndexesNext DEF Ends
<1>3. \A i \in Indexes \ {0} : LinesOf(g, i) = LinesOf(f, i)
  BY DEF Files, LinesOf
<1>4. LinesOf(g, 0) = Append(f[0], l)
  <2>1. g[0] = Append(f[0], l)
    BY <1>1 DEF Files
  <2>2. Append(f[0], l) \in Seq(Line)
    BY <1>1
  <2> QED
    BY <2>1, <2>2, Constants DEF LinesOf
<1>5. e[0] = w /\ e[0] = e[1] + Len(f[0]) /\ e[1] \in Nat /\ \A n \in 1..Len(f[0]) : f[0][n].no = e[1] + n
  <2>1. 0 + 1 = 1 /\ e[1] \in Nat
    BY Constants DEF Ends
  <2> QED
    BY <1>1, <2>1 DEF Numbered
<1>6. /\ Len(Append(f[0], l)) = Len(f[0]) + 1
      /\ \A n \in 1..(Len(f[0]) + 1) : Append(f[0], l)[n] = IF n = Len(f[0]) + 1 THEN l ELSE f[0][n]
  BY <1>1
<1>7. d[0] = d[1] + Len(Append(f[0], l)) /\ d[1] = e[1]
  <2>1. d[1] = e[1]
    BY <1>1, <1>2
  <2> QED
    BY <1>1, <1>2, <1>5, <1>6, <2>1
<1>8. \A n \in 1..Len(Append(f[0], l)) : Append(f[0], l)[n].no = d[1] + n
  BY <1>1, <1>5, <1>6, <1>7
<1> HIDE DEF g, d
<1>9. Numbered(g, w + 1, d)
  <2> SUFFICES ASSUME NEW i \in Indexes
               PROVE  /\ d[i] = d[i + 1] + Len(LinesOf(g, i))
                      /\ \A n \in 1..Len(LinesOf(g, i)) : LinesOf(g, i)[n].no = d[i + 1] + n
    BY <1>2 DEF Numbered
  <2>1. CASE i = 0
    <3>1. d[i] = d[0] /\ d[i + 1] = d[1] /\ LinesOf(g, i) = Append(f[0], l)
      BY <1>4, <2>1
    <3> QED
      BY <1>7, <1>8, <3>1
  <2>2. CASE i # 0
    <3>1. d[i] = e[i] /\ d[i + 1] = e[i + 1] /\ LinesOf(g, i) = LinesOf(f, i)
      BY <1>2, <1>3, <2>2
    <3> QED
      BY <3>1 DEF Numbered
  <2> QED
    BY <2>1, <2>2
<1> QED
  BY <1>2, <1>9 DEF g, d

(* File i, whose successor's place is free, becomes file i + 1. *)
LEMMA RenamedNumbered ==
    ASSUME NEW f \in Files, NEW w \in Nat, NEW e \in Ends, Numbered(f, w, e),
           NEW i \in Indexes, i # Oldest, f[i + 1] = Absent
    PROVE  /\ [e EXCEPT ![i + 1] = e[i]] \in Ends
           /\ Numbered([f EXCEPT ![i] = Absent, ![i + 1] = f[i]], w, [e EXCEPT ![i + 1] = e[i]])
<1> DEFINE g == [f EXCEPT ![i] = Absent, ![i + 1] = f[i]]
           d == [e EXCEPT ![i + 1] = e[i]]
           k == i + 1
<1>1. k \in Indexes /\ k # i /\ k # 0 /\ k + 1 # k /\ k + 1 # i /\ e[i] \in Nat /\ k + 1 \in 0..(Oldest + 1)
  BY IndexesNext DEF Ends
<1>2. d \in Ends /\ d[0] = e[0] /\ d[k] = e[i] /\ \A j \in 0..(Oldest + 1) : j # k => d[j] = e[j]
  BY <1>1, Constants DEF Ends
<1>3. LinesOf(g, i) = <<>> /\ LinesOf(g, k) = LinesOf(f, i) /\ LinesOf(f, k) = <<>>
  BY <1>1 DEF Files, LinesOf
<1>4. \A j \in Indexes : j # i /\ j # k => LinesOf(g, j) = LinesOf(f, j)
  BY DEF Files, LinesOf
<1>5. e[i] = e[k] + Len(LinesOf(f, i)) /\ \A n \in 1..Len(LinesOf(f, i)) : LinesOf(f, i)[n].no = e[k] + n
  BY DEF Numbered
<1>6. e[k] = e[k + 1]
  <2>1. e[k] = e[k + 1] + Len(<<>>) /\ Len(<<>>) = 0
    BY <1>1, <1>3, LinesTyped DEF Numbered
  <2>2. e[k + 1] \in Nat
    BY <1>1 DEF Ends
  <2> QED
    BY <2>1, <2>2
<1> HIDE DEF g, d
<1>7. Numbered(g, w, d)
  <2> SUFFICES ASSUME NEW j \in Indexes
               PROVE  /\ d[j] = d[j + 1] + Len(LinesOf(g, j))
                      /\ \A n \in 1..Len(LinesOf(g, j)) : LinesOf(g, j)[n].no = d[j + 1] + n
    BY <1>2 DEF Numbered
  <2>1. CASE j = i
    <3>1. d[i] = e[i] /\ d[i + 1] = e[i] /\ Len(<<>>) = 0 /\ e[i] \in Nat
      BY <1>1, <1>2, IndexesNext
    <3> QED
      BY <1>3, <2>1, <3>1
  <2>2. CASE j = k
    <3>1. d[k] = e[i] /\ d[k + 1] = e[k]
      BY <1>1, <1>2, <1>6
    <3> QED
      BY <1>3, <1>5, <2>2, <3>1
  <2>3. CASE j # i /\ j # k
    <3>1. j + 1 # k /\ j \in 0..(Oldest + 1) /\ j + 1 \in 0..(Oldest + 1)
      BY <2>3, IndexesNext
    <3>2. d[j] = e[j] /\ d[j + 1] = e[j + 1] /\ LinesOf(g, j) = LinesOf(f, j)
      BY <1>2, <1>4, <2>3, <3>1
    <3> QED
      BY <3>2 DEF Numbered
  <2> QED
    BY <2>1, <2>2, <2>3
<1> QED
  BY <1>2, <1>7 DEF g, d

(* The oldest file is removed. *)
LEMMA RemovedNumbered ==
    ASSUME NEW f \in Files, NEW w \in Nat, NEW e \in Ends, Numbered(f, w, e)
    PROVE  /\ [e EXCEPT ![Oldest + 1] = e[Oldest]] \in Ends
           /\ Numbered([f EXCEPT ![Oldest] = Absent], w, [e EXCEPT ![Oldest + 1] = e[Oldest]])
<1> DEFINE g == [f EXCEPT ![Oldest] = Absent]
           d == [e EXCEPT ![Oldest + 1] = e[Oldest]]
<1>1. Oldest \in Indexes /\ Oldest \in Nat /\ e[Oldest] \in Nat
  BY Constants, IndexesNext DEF Ends
<1>2. d \in Ends /\ d[0] = e[0] /\ d[Oldest + 1] = e[Oldest] /\ \A j \in Indexes : d[j] = e[j]
  BY <1>1, Constants, IndexesNext DEF Ends
<1>3. LinesOf(g, Oldest) = <<>> /\ \A j \in Indexes : j # Oldest => LinesOf(g, j) = LinesOf(f, j)
  BY <1>1 DEF Files, LinesOf
<1> HIDE DEF g, d
<1>4. Numbered(g, w, d)
  <2> SUFFICES ASSUME NEW j \in Indexes
               PROVE  /\ d[j] = d[j + 1] + Len(LinesOf(g, j))
                      /\ \A n \in 1..Len(LinesOf(g, j)) : LinesOf(g, j)[n].no = d[j + 1] + n
    BY <1>2 DEF Numbered
  <2>1. CASE j = Oldest
    <3>1. d[j] = e[Oldest] /\ d[j + 1] = e[Oldest] /\ Len(<<>>) = 0
      BY <1>2, <2>1
    <3> QED
      BY <1>1, <1>3, <2>1, <3>1
  <2>2. CASE j # Oldest
    <3>1. d[j] = e[j] /\ d[j + 1] = e[j + 1] /\ LinesOf(g, j) = LinesOf(f, j)
      BY <1>2, <1>3, <2>2, IndexesNext
    <3> QED
      BY <3>1 DEF Numbered
  <2> QED
    BY <2>1, <2>2
<1> QED
  BY <1>2, <1>4 DEF g, d

(* The files hold the lines after line x up to line w. *)
HoldAfter(f, w, x) == \E e \in Ends : Numbered(f, w, e) /\ e[Oldest + 1] = x

LEMMA CreatedHolds ==
    ASSUME NEW f \in Files, NEW w \in Nat, NEW x \in Nat, HoldAfter(f, w, x), f[0] = Absent
    PROVE  HoldAfter([f EXCEPT ![0] = <<>>], w, x)
  BY CreatedNumbered DEF HoldAfter

LEMMA AppendedHolds ==
    ASSUME NEW f \in Files, NEW w \in Nat, NEW x \in Nat, HoldAfter(f, w, x), f[0] # Absent,
           NEW l \in Line, l.no = w + 1
    PROVE  HoldAfter([f EXCEPT ![0] = Append(f[0], l)], w + 1, x)
<1>1. PICK e \in Ends : Numbered(f, w, e) /\ e[Oldest + 1] = x
  BY DEF HoldAfter
<1> DEFINE d == [e EXCEPT ![0] = w + 1]
<1>2. d \in Ends /\ Numbered([f EXCEPT ![0] = Append(f[0], l)], w + 1, d)
  BY <1>1, AppendedNumbered
<1>3. d[Oldest + 1] = x
  BY <1>1, IndexesNext DEF Ends
<1> QED
  BY <1>2, <1>3 DEF HoldAfter

LEMMA RenamedHolds ==
    ASSUME NEW f \in Files, NEW w \in Nat, NEW x \in Nat, HoldAfter(f, w, x),
           NEW i \in Indexes, i # Oldest, f[i + 1] = Absent
    PROVE  HoldAfter([f EXCEPT ![i] = Absent, ![i + 1] = f[i]], w, x)
<1>1. PICK e \in Ends : Numbered(f, w, e) /\ e[Oldest + 1] = x
  BY DEF HoldAfter
<1> DEFINE d == [e EXCEPT ![i + 1] = e[i]]
<1>2. d \in Ends /\ Numbered([f EXCEPT ![i] = Absent, ![i + 1] = f[i]], w, d)
  BY <1>1, RenamedNumbered
<1>3. d[Oldest + 1] = x
  <2>1. Oldest + 1 # i + 1
    BY IndexesNext
  <2> QED
    BY <1>1, <2>1, IndexesNext DEF Ends
<1> QED
  BY <1>2, <1>3 DEF HoldAfter

(* n lines of LineLen bytes are the least that reach the limit: FileLines. *)
LEMMA Monotonic ==
    ASSUME NEW a \in Nat, NEW b \in Nat, NEW c \in Nat, a <= b
    PROVE  a * c \in Nat /\ b * c \in Nat /\ a * c <= b * c
  OBVIOUS

LEMMA FileLinesTyped == FileLines \in Nat
<1> DEFINE T == {n \in Nat : n * LineLen >= FileLimit}
<1>1. FileLimit \in T
  <2>1. 1 * FileLimit <= LineLen * FileLimit
    BY Constants, Monotonic
  <2> QED
    BY <2>1, Constants
<1>2. PICK n \in T : \A m \in T : n <= m
  <2>1. T \subseteq Nat /\ T # {}
    BY <1>1
  <2> HIDE DEF T
  <2> QED
    BY <2>1, LeastNatural
<1>3. n # 0
  BY Constants
<1>4. n - 1 \in Nat /\ n - 1 \notin T
  BY <1>2, <1>3
<1>5. (n - 1) * LineLen < FileLimit
  <2>1. (n - 1) * LineLen \in Nat
    BY <1>4, Constants, Monotonic
  <2> QED
    BY <1>4, <2>1, Constants
<1>6. n \in 1..FileLimit /\ n * LineLen >= FileLimit
  BY <1>1, <1>2, <1>3, Constants
<1>7. \E k \in 1..FileLimit : k * LineLen >= FileLimit /\ (k - 1) * LineLen < FileLimit
  BY <1>5, <1>6
<1> HIDE DEF T
<1>8. FileLines \in 1..FileLimit
  BY <1>7 DEF FileLines
<1> QED
  BY <1>8, Constants

LEMMA FileLinesAre ==
    ASSUME NEW n \in Nat, FileLimit <= LineLen * n, LineLen * n < FileLimit + LineLen
    PROVE  n = FileLines
<1> DEFINE Fits(k) == k * LineLen >= FileLimit /\ (k - 1) * LineLen < FileLimit
<1>1. n # 0
  <2>1. LineLen * 0 = 0
    BY Constants
  <2> QED
    BY <2>1, Constants
<1>2. n * LineLen = LineLen * n /\ LineLen * n \in Nat /\ (n - 1) * LineLen = LineLen * n - LineLen
  BY <1>1, Constants
<1>3. Fits(n)
  BY <1>2, Constants
<1>4. n <= FileLimit
  <2>1. (n - 1) * 1 <= (n - 1) * LineLen
    <3>1. n - 1 \in Nat /\ 1 \in Nat /\ LineLen \in Nat /\ 1 <= LineLen
      BY <1>1, Constants
    <3>2. 1 * (n - 1) <= LineLen * (n - 1)
      BY <3>1, Monotonic
    <3> QED
      BY <3>1, <3>2
  <2> QED
    BY <1>1, <1>2, <1>3, <2>1, Constants
<1>5. n \in 1..FileLimit
  BY <1>1, <1>4, Constants
<1>6. ASSUME NEW a \in Nat \ {0}, NEW b \in Nat \ {0}, Fits(a), Fits(b), a < b
      PROVE  FALSE
  <2>1. a * LineLen \in Nat /\ (b - 1) * LineLen \in Nat /\ a * LineLen <= (b - 1) * LineLen
    <3>1. a \in Nat /\ b - 1 \in Nat /\ LineLen \in Nat /\ a <= b - 1
      BY <1>6, Constants
    <3> QED
      BY <3>1, Monotonic
  <2> QED
    BY <1>6, <2>1, Constants
<1>7. FileLines \in 1..FileLimit /\ Fits(FileLines)
  BY <1>3, <1>5 DEF FileLines
<1> HIDE DEF Fits
<1>8. FileLines \in Nat \ {0} /\ n \in Nat \ {0}
  BY <1>1, <1>7, Constants
<1>9. ~(FileLines < n) /\ ~(n < FileLines)
  BY <1>3, <1>6, <1>7, <1>8
<1> QED
  BY <1>8, <1>9

LEMMA FullFilesHold ==
    ASSUME NEW f \in Files, NEW w \in Nat, NEW e \in Ends, Numbered(f, w, e),
           \A i \in Indexes : i # Oldest => f[i] # Absent /\ Len(f[i]) = FileLines
    PROVE  w = e[Oldest] + Oldest * FileLines
<1> DEFINE Wrong == {i \in Indexes : w # e[i] + i * FileLines}
<1>1. CASE Wrong = {}
  <2>1. Oldest \notin Wrong
    BY <1>1
  <2> QED
    BY <2>1, IndexesNext
<1>2. CASE Wrong # {}
  <2>1. PICK k \in Wrong : \A j \in Wrong : k <= j
    <3>1. Wrong \in SUBSET Nat
      BY IndexesNext
    <3> HIDE DEF Wrong
    <3> QED
      BY <1>2, <3>1, LeastNatural
  <2>2. k # 0
    <3>1. e[0] = w /\ 0 * FileLines = 0
      BY FileLinesTyped DEF Numbered
    <3> QED
      BY <3>1
  <2> DEFINE j == k - 1
  <2>3. k \in Indexes /\ j \in Indexes /\ j # Oldest /\ j \in Nat /\ k = j + 1 /\ ~(k <= j)
    BY <2>2, Constants
  <2>4. j \notin Wrong
    BY <2>1, <2>3
  <2>5. e[j] = e[k] + FileLines
    <3>1. e[j] = e[j + 1] + Len(LinesOf(f, j))
      BY <2>3 DEF Numbered
    <3>2. LinesOf(f, j) = f[j] /\ Len(f[j]) = FileLines
      BY <2>3 DEF LinesOf
    <3> QED
      BY <2>3, <3>1, <3>2
  <2>6. w = e[j] + j * FileLines
    BY <2>3, <2>4
  <2>7. e[k] \in Nat
    BY <2>3, IndexesNext DEF Ends
  <2>8. j * FileLines \in Nat /\ k * FileLines = j * FileLines + FileLines
    BY <2>3, FileLinesTyped
  <2> HIDE DEF j
  <2>9. w = e[k] + k * FileLines
    BY <2>5, <2>6, <2>7, <2>8, FileLinesTyped
  <2> QED
    BY <2>1, <2>9
<1> QED
  BY <1>1, <1>2

LEMMA RemovedHolds ==
    ASSUME NEW f \in Files, NEW w \in Nat, NEW x \in Nat, HoldAfter(f, w, x)
    PROVE  \E y \in Nat :
              /\ HoldAfter([f EXCEPT ![Oldest] = Absent], w, y)
              /\ Oldest = 1 => y <= w
              /\ (\A i \in Indexes : i # Oldest => f[i] # Absent /\ Len(f[i]) = FileLines)
                     => w - y >= Oldest * FileLines
<1>1. PICK e \in Ends : Numbered(f, w, e) /\ e[Oldest + 1] = x
  BY DEF HoldAfter
<1> DEFINE d == [e EXCEPT ![Oldest + 1] = e[Oldest]]
           g == [f EXCEPT ![Oldest] = Absent]
<1>2. d \in Ends /\ Numbered(g, w, d)
  BY <1>1, RemovedNumbered
<1>3. e[Oldest] \in Nat /\ d[Oldest + 1] = e[Oldest]
  BY IndexesNext DEF Ends
<1>4. Oldest = 1 => e[Oldest] <= w
  <2>1. 0 \in Indexes /\ e[0] = e[0 + 1] + Len(LinesOf(f, 0)) /\ e[0] = w
    BY <1>1, IndexesNext DEF Numbered
  <2>2. Len(LinesOf(f, 0)) \in Nat
    BY <2>1, LinesTyped
  <2> QED
    BY <1>3, <2>1, <2>2
<1>5. (\A i \in Indexes : i # Oldest => f[i] # Absent /\ Len(f[i]) = FileLines) => w - e[Oldest] >= Oldest * FileLines
  <2>1. Oldest * FileLines \in Nat
    BY Constants, FileLinesTyped
  <2> QED
    BY <1>1, <1>3, <2>1, FullFilesHold
<1>6. HoldAfter(g, w, e[Oldest])
  BY <1>2, <1>3 DEF HoldAfter
<1> HIDE DEF d, g
<1> QED
  BY <1>3, <1>4, <1>5, <1>6 DEF g

-----------------------------------------------------------------------------
(* A process that has started once, with no call failed so far, fills the  *)
(* files in their order: all but the newest are full, and the only gap is  *)
(* the one that a roll in progress moves towards file 0.                   *)

Smooth == session <= 1 /\ failures = 0

Filled(f, gap) == \A i, j \in Indexes : i < j /\ f[j] # Absent /\ i # gap => f[i] # Absent
Full(f)        == \A i \in Indexes : i # 0 /\ f[i] # Absent => Len(f[i]) = FileLines

Gap(i) == IF i < RollNum - 1 THEN i + 1 ELSE -1

InOrder ==
    /\ Full(files)
    /\ logf => Filled(files, -1) /\ curoffset = LineLen * Len(files[0])
    /\ \A t \in Threads :
          /\ pc[t] = "roll" => Len(files[0]) = FileLines /\ Filled(files, Gap(roll))
          /\ pc[t] = "open" => Filled(files, 0)

Dropped(x) == x = 0 \/ written - x >= (RollNum - 1) * FileLines

OrderInv == /\ Smooth => InOrder
            /\ \E x \in Nat : HoldAfter(files, written, x) /\ (Smooth => Dropped(x))

LEMMA RenamedInOrder ==
    ASSUME NEW f \in Files, NEW i \in Indexes, i # Oldest, f[i] # Absent, Len(f[i]) = FileLines,
           Full(f), Filled(f, i + 1) \/ Filled(f, -1)
    PROVE  LET g == [f EXCEPT ![i] = Absent, ![i + 1] = f[i]]
           IN  Full(g) /\ Filled(g, i)
<1> DEFINE g == [f EXCEPT ![i] = Absent, ![i + 1] = f[i]]
           k == i + 1
<1>1. k \in Indexes /\ k # i /\ i \in Nat /\ k \in Nat /\ i < k
  BY IndexesNext
<1>2. g[i] = Absent /\ g[k] = f[i] /\ \A j \in Indexes : j # i /\ j # k => g[j] = f[j]
  BY <1>1 DEF Files
<1> HIDE DEF g
<1>3. Full(g)
  BY <1>2 DEF Full
<1>4. Filled(g, i)
  <2> SUFFICES ASSUME NEW a \in Indexes, NEW b \in Indexes, a < b, g[b] # Absent, a # i
               PROVE  g[a] # Absent
    BY DEF Filled
  <2>1. CASE a = k
    BY <1>2, <2>1
  <2>2. CASE a # k /\ b = k
    <3>1. a < i /\ a # -1
      BY <1>1, <2>2, IndexesNext
    <3>2. f[a] # Absent
      BY <2>2, <3>1 DEF Filled
    <3> QED
      BY <1>2, <2>2, <3>2
  <2>3. CASE a # k /\ b # k
    <3>1. b # i /\ f[b] # Absent /\ a # -1
      BY <1>2, <2>3, IndexesNext
    <3>2. f[a] # Absent
      BY <2>3, <3>1 DEF Filled
    <3> QED
      BY <1>2, <2>3, <3>2
  <2> QED
    BY <2>1, <2>2, <2>3
<1> QED
  BY <1>3, <1>4 DEF g

LEMMA SkippedInOrder ==
    ASSUME NEW f \in Files, NEW i \in Indexes, f[i] = Absent, Filled(f, i + 1) \/ Filled(f, -1)
    PROVE  Filled(f, i)
<1> SUFFICES ASSUME NEW a \in Indexes, NEW b \in Indexes, a < b, f[b] # Absent, a # i
             PROVE  f[a] # Absent
  BY DEF Filled
<1>1. a # -1 /\ i # -1 /\ i # i + 1 /\ a \in Nat /\ b \in Nat /\ i \in Nat
  BY IndexesNext
<1>2. CASE a # i + 1
  BY <1>1, <1>2 DEF Filled
<1>3. CASE a = i + 1
  <2>1. i < b
    BY <1>1, <1>3
  <2>2. f[i] # Absent \/ Filled(f, -1)
    BY <1>1, <2>1 DEF Filled
  <2> QED
    BY <1>1, <2>2 DEF Filled
<1> QED
  BY <1>2, <1>3

LEMMA StartsUpOrder ==
    ASSUME PhaseInv, PhaseInv', OrderInv, StartsUp
    PROVE  OrderInv'
<1>1. files \in Files /\ written \in Nat /\ session \in Nat /\ failures \in Nat
  BY DEF PhaseInv, LogTyped, Files
<1>2. /\ session' = session + 1 /\ written' = written /\ curoffset' = 0 /\ pc' = [t \in Threads |-> "idle"]
      /\ \/ failures' = failures /\ files' = files /\ files[0] # Absent
         \/ failures' = failures /\ files' = [files EXCEPT ![0] = <<>>] /\ files[0] = Absent
         \/ failures' = failures + 1 /\ files' = files
  BY <1>1, Constants DEF StartsUp, Opens, Works, Fails, Files
<1>3. Smooth' => Smooth /\ session = 0 /\ failures' = failures
  BY <1>1, <1>2 DEF Smooth
<1>4. PICK x \in Nat : HoldAfter(files, written, x) /\ (Smooth => Dropped(x))
  BY DEF OrderInv
<1>5. HoldAfter(files', written', x)
  BY <1>1, <1>2, <1>4, CreatedHolds
<1>6. Smooth' => Dropped(x)'
  BY <1>2, <1>3, <1>4 DEF Dropped
<1>7. ASSUME Smooth'
      PROVE  InOrder'
  <2>1. \A i \in Indexes : files[i] = Absent
    BY <1>3, <1>7 DEF PhaseInv, Unstarted
  <2>2. files' = [files EXCEPT ![0] = <<>>]
    <3>1. files[0] = Absent
      BY <2>1, Constants
    <3>2. failures' = failures /\ failures # failures + 1
      BY <1>1, <1>3, <1>7
    <3> QED
      BY <1>2, <3>1, <3>2
  <2>3. files'[0] = <<>> /\ \A i \in Indexes : i # 0 => files'[i] = Absent
    BY <1>1, <2>1, <2>2, Constants DEF Files
  <2>4. Full(files') /\ Filled(files', -1)
    BY <2>3, IndexesNext DEF Full, Filled
  <2>5. curoffset' = LineLen * Len(files'[0])
    BY <1>2, <2>3, Constants
  <2> QED
    BY <1>2, <2>4, <2>5 DEF InOrder
<1> QED
  BY <1>5, <1>6, <1>7 DEF OrderInv

LEMMA WritesLineOrder ==
    ASSUME PhaseInv, PhaseInv', OrderInv, NEW t \in Threads, WritesLine(t)
    PROVE  OrderInv'
<1>1. files \in Files /\ written \in Nat /\ session \in Nat /\ failures \in Nat /\ files[0] # Absent /\ files[0] \in Seq(Line)
  BY Constants DEF PhaseInv, LogTyped, Files, WritesLine, Opened
<1> DEFINE l == [no |-> written + 1, session |-> session]
<1>2. /\ session' = session /\ logf /\ mutex' = mutex
      /\ \/ failures' = failures + 1 /\ files' = files /\ written' = written
         \/ /\ failures' = failures /\ written' = written + 1
            /\ files' = [files EXCEPT ![0] = Append(files[0], l)] /\ curoffset' = curoffset + LineLen
  BY <1>1, Constants DEF WritesLine, Works, Fails, Appended, fileVars, Files
<1>3. Smooth' => Smooth /\ failures' = failures
  BY <1>1, <1>2 DEF Smooth
<1>4. PICK x \in Nat : HoldAfter(files, written, x) /\ (Smooth => Dropped(x))
  BY DEF OrderInv
<1>5. l \in Line /\ l.no = written + 1
  BY <1>1 DEF Line
<1> HIDE DEF l
<1>6. HoldAfter(files', written', x)
  BY <1>1, <1>2, <1>4, <1>5, AppendedHolds
<1>7. Smooth' => Dropped(x)'
  <2>1. (RollNum - 1) * FileLines \in Nat
    BY FileLinesTyped, Constants
  <2> QED
    BY <1>1, <1>2, <1>3, <1>4, <2>1 DEF Dropped
<1>8. ASSUME Smooth'
      PROVE  InOrder'
  <2>1. InOrder /\ failures' = failures
    BY <1>3, <1>8 DEF OrderInv
  <2>2. files' = [files EXCEPT ![0] = Append(files[0], l)] /\ curoffset' = curoffset + LineLen
    BY <1>1, <1>2, <2>1
  <2>3. files'[0] = Append(files[0], l) /\ \A i \in Indexes : i # 0 => files'[i] = files[i]
    BY <1>1, <2>2, Constants DEF Files
  <2>4. files'[0] # Absent /\ Len(files'[0]) = Len(files[0]) + 1 /\ Len(files[0]) \in Nat
    <3>1. Append(files[0], l) \in Seq(Line) /\ Len(Append(files[0], l)) = Len(files[0]) + 1
      BY <1>1, <1>5
    <3>2. Append(files[0], l) # Absent
      BY ONLY <3>1, Constants
    <3>3. Len(files[0]) \in Nat
      BY ONLY <1>1
    <3> QED
      BY <2>3, <3>1, <3>2, <3>3
  <2>5. Full(files') /\ Filled(files', -1)
    <3>1. Full(files) /\ Filled(files, -1)
      BY <1>2, <2>1 DEF InOrder
    <3> QED
      BY <1>1, <2>3, <2>4, <3>1 DEF Full, Filled
  <2>6. curoffset' = LineLen * Len(files'[0])
    <3>1. curoffset = LineLen * Len(files[0])
      BY <1>2, <2>1 DEF InOrder
    <3> QED
      BY <2>2, <2>4, <3>1, Times, Constants
  <2>7. \A u \in Threads : pc'[u] \notin {"roll", "open"}
    <3>1. logf'
      BY DEF WritesLine
    <3> QED
      BY <3>1 DEF PhaseInv, Rolling, AtPlace
  <2> QED
    BY <2>5, <2>6, <2>7 DEF InOrder
<1> QED
  BY <1>6, <1>7, <1>8 DEF OrderInv

LEMMA ClosesOrder ==
    ASSUME PhaseInv, PhaseInv', OrderInv, NEW t \in Threads, Closes(t)
    PROVE  OrderInv'
<1>1. files \in Files /\ written \in Nat /\ failures \in Nat /\ logf /\ files[0] \in Seq(Line)
  BY Constants DEF PhaseInv, LogTyped, Files, Closes, Rolling, AtPlace, Opened
<1>2. files' = files /\ written' = written /\ session' = session
      /\ \/ failures' = failures + 1
         \/ failures' = failures /\ ~logf' /\ roll' = RollNum - 1 /\ pc' = [pc EXCEPT ![t] = "roll"]
  BY DEF Closes, Works, Fails, LogfAfterClose, Goes, fileVars
<1>3. Smooth' => Smooth /\ failures' = failures
  BY <1>1, <1>2 DEF Smooth
<1>4. ASSUME Smooth'
      PROVE  InOrder'
  <2>1. InOrder /\ ~logf' /\ roll' = RollNum - 1 /\ pc' = [pc EXCEPT ![t] = "roll"]
    BY <1>1, <1>2, <1>3, <1>4 DEF OrderInv
  <2>2. Full(files) /\ Filled(files, -1) /\ curoffset = LineLen * Len(files[0])
    BY <1>1, <2>1 DEF InOrder
  <2>3. FileLimit <= curoffset /\ curoffset < FileLimit + LineLen
    BY DEF PhaseInv, Rolling, AtPlace, Closes
  <2>4. Len(files[0]) \in Nat
    BY <1>1
  <2>5. Len(files[0]) = FileLines
    BY ONLY <2>2, <2>3, <2>4, FileLinesAre
  <2>6. Gap(roll') = -1
    BY <2>1, Constants DEF Gap
  <2>7. \A u \in Threads : pc'[u] # "open"
    BY <1>1, <2>1 DEF PhaseInv, LogTyped, Rolling, AtPlace
  <2> QED
    BY <1>2, <2>1, <2>2, <2>5, <2>6, <2>7 DEF InOrder
<1> QED
  BY <1>2, <1>3, <1>4 DEF OrderInv, Dropped

LEMMA ReopensOrder ==
    ASSUME PhaseInv, PhaseInv', OrderInv, NEW t \in Threads, Reopens(t)
    PROVE  OrderInv'
<1>1. files \in Files /\ written \in Nat /\ failures \in Nat /\ files[0] = Absent /\ pc \in [Threads -> Places]
  BY DEF PhaseInv, LogTyped, Files, Reopens, Rolling, AtPlace
<1>2. /\ pc[t] = "open" /\ written' = written /\ session' = session /\ curoffset' = 0 /\ pc' = [pc EXCEPT ![t] = "unlock"]
      /\ \/ failures' = failures /\ files' = [files EXCEPT ![0] = <<>>]
         \/ failures' = failures + 1 /\ files' = files
  BY <1>1, Constants DEF Reopens, Opens, Works, Fails, Goes, Files
<1>3. Smooth' => Smooth /\ failures' = failures
  BY <1>1, <1>2 DEF Smooth
<1>4. PICK x \in Nat : HoldAfter(files, written, x) /\ (Smooth => Dropped(x))
  BY DEF OrderInv
<1>5. HoldAfter(files', written', x)
  BY <1>1, <1>2, <1>4, CreatedHolds
<1>6. Smooth' => Dropped(x)'
  BY <1>2, <1>3, <1>4 DEF Dropped
<1>7. ASSUME Smooth'
      PROVE  InOrder'
  <2>1. InOrder /\ files' = [files EXCEPT ![0] = <<>>]
    BY <1>1, <1>2, <1>3, <1>7 DEF OrderInv
  <2>2. Full(files) /\ Filled(files, 0)
    BY <1>2, <2>1 DEF InOrder
  <2>3. files'[0] = <<>> /\ files'[0] # Absent /\ \A i \in Indexes : i # 0 => files'[i] = files[i]
    BY <1>1, <2>1, Constants DEF Files
  <2>4. Full(files') /\ Filled(files', -1)
    <3>1. \A i, j \in Indexes : i < j => j # 0
      BY IndexesNext
    <3> QED
      BY <2>2, <2>3, <3>1 DEF Full, Filled
  <2>5. curoffset' = LineLen * Len(files'[0])
    BY <1>2, <2>3, Constants
  <2>6. \A u \in Threads : pc'[u] \notin {"roll", "open"}
    <3>1. \A u \in Threads : u # t => pc[u] \notin Inside
      BY <1>2 DEF PhaseInv, OneInside, Inside
    <3> QED
      BY <1>1, <1>2, <3>1 DEF Inside
  <2> QED
    BY <2>4, <2>5, <2>6 DEF InOrder
<1> QED
  BY <1>5, <1>6, <1>7 DEF OrderInv

LEMMA RollsOneOrder ==
    ASSUME PhaseInv, PhaseInv', OrderInv, NEW t \in Threads, RollsOne(t)
    PROVE  OrderInv'
<1>1. /\ files \in Files /\ written \in Nat /\ failures \in Nat /\ pc \in [Threads -> Places]
      /\ files[0] \in Seq(Line) /\ ~logf /\ (roll < RollNum - 1 => files[roll + 1] = Absent)
      /\ roll \in 1..(RollNum - 1) /\ roll \in Indexes /\ RollNum > 1 /\ Oldest = RollNum - 1
  BY Constants DEF PhaseInv, LogTyped, Files, RollsOne, Rolling, AtPlace
<1>2. /\ pc[t] = "roll" /\ roll' = roll - 1 /\ logf' = logf /\ written' = written /\ session' = session
      /\ \/ /\ failures' = failures /\ pc' = [pc EXCEPT ![t] = "roll"]
            /\ Turned(files, files', roll)
         \/ failures' = failures + 1 /\ files' = files
  BY DEF RollsOne, Works, Fails, Exists, IsOldest, Removed, Renamed, Goes, Turned
<1>3. Smooth' => Smooth /\ failures' = failures
  BY <1>1, <1>2 DEF Smooth
<1>4. PICK x \in Nat : HoldAfter(files, written, x) /\ (Smooth => Dropped(x))
  BY DEF OrderInv
<1>5. Smooth => /\ Full(files) /\ Len(files[0]) = FileLines
                /\ IF roll = Oldest THEN Filled(files, -1) ELSE Filled(files, roll + 1)
  BY <1>1, <1>2 DEF OrderInv, InOrder, Gap
<1>6. \E y \in Nat : HoldAfter(files', written', y) /\ (Smooth' => Dropped(y)')
  <2>1. CASE files' = files
    BY <1>2, <1>3, <1>4, <2>1 DEF Dropped
  <2>2. CASE files[roll] # Absent /\ roll # Oldest /\ files' = [files EXCEPT ![roll] = Absent, ![roll + 1] = files[roll]]
    <3>1. roll \in Indexes /\ roll # Oldest /\ files[roll + 1] = Absent
      <4>1. roll < RollNum - 1
        BY <1>1, <2>2, Constants
      <4> QED
        BY <1>1, <2>2, <4>1
    <3>2. HoldAfter([files EXCEPT ![roll] = Absent, ![roll + 1] = files[roll]], written, x)
      BY ONLY <1>1, <1>4, <3>1, RenamedHolds
    <3>3. HoldAfter(files', written', x)
      BY <1>2, <2>2, <3>2
    <3> QED
      BY <1>2, <1>3, <1>4, <3>3 DEF Dropped
  <2>3. CASE files[roll] # Absent /\ roll = Oldest /\ files' = [files EXCEPT ![Oldest] = Absent]
    <3>1. PICK y \in Nat :
              /\ HoldAfter(files', written, y)
              /\ (\A i \in Indexes : i # Oldest => files[i] # Absent /\ Len(files[i]) = FileLines)
                     => written - y >= Oldest * FileLines
      BY <1>1, <1>4, <2>3, RemovedHolds
    <3>2. ASSUME Smooth
          PROVE  \A i \in Indexes : i # Oldest => files[i] # Absent /\ Len(files[i]) = FileLines
      <4> SUFFICES ASSUME NEW i \in Indexes, i # Oldest
                   PROVE  files[i] # Absent /\ Len(files[i]) = FileLines
        OBVIOUS
      <4>1. i < Oldest /\ i # -1
        BY Constants
      <4>2. files[i] # Absent
        BY <1>1, <1>5, <2>3, <3>2, <4>1 DEF Filled
      <4> QED
        BY <1>5, <3>2, <4>2 DEF Full
    <3>3. Smooth' => Dropped(y)'
      BY <1>1, <1>2, <1>3, <3>1, <3>2 DEF Dropped
    <3> QED
      BY <1>2, <3>1, <3>3
  <2> QED
    BY <1>1, <1>2, <2>1, <2>2, <2>3 DEF Turned
<1>7. ASSUME Smooth'
      PROVE  InOrder'
  <2>1. /\ Full(files) /\ Len(files[0]) = FileLines
        /\ IF roll = Oldest THEN Filled(files, -1) ELSE Filled(files, roll + 1)
        /\ pc' = [pc EXCEPT ![t] = "roll"] /\ Turned(files, files', roll)
    BY <1>1, <1>2, <1>3, <1>5, <1>7
  <2>2. Full(files') /\ Filled(files', roll) /\ files'[0] = files[0]
    <3>1. CASE files[roll] = Absent /\ files' = files
      BY <1>1, <2>1, <3>1, SkippedInOrder
    <3>2. CASE files[roll] # Absent /\ roll # Oldest /\ files' = [files EXCEPT ![roll] = Absent, ![roll + 1] = files[roll]]
      <4>1. Len(files[roll]) = FileLines
        BY <1>1, <2>1, <3>2 DEF Full
      <4>2. Full(files') /\ Filled(files', roll)
        BY <1>1, <2>1, <3>2, <4>1, RenamedInOrder
      <4> QED
        BY <1>1, <3>2, <4>2, Constants DEF Files
    <3>3. CASE files[roll] # Absent /\ roll = Oldest /\ files' = [files EXCEPT ![Oldest] = Absent]
      <4>1. files'[Oldest] = Absent /\ \A i \in Indexes : i # Oldest => files'[i] = files[i]
        BY <1>1, <3>3 DEF Files
      <4>2. \A i \in Indexes : i # -1
        BY IndexesNext
      <4> QED
        BY <2>1, <3>3, <4>1, <4>2, IndexesNext DEF Full, Filled
    <3> QED
      BY <1>1, <2>1, <3>1, <3>2, <3>3 DEF Turned
  <2>3. Gap(roll') = roll
    BY <1>1, <1>2 DEF Gap
  <2>4. \A u \in Threads : pc'[u] # "open"
    <3>1. \A u \in Threads : u # t => pc[u] \notin Inside
      BY <1>2 DEF PhaseInv, OneInside, Inside
    <3> QED
      BY <1>1, <2>1, <3>1 DEF Inside
  <2> QED
    BY <1>1, <1>2, <2>1, <2>2, <2>3, <2>4 DEF InOrder
<1> QED
  BY <1>6, <1>7 DEF OrderInv

LEMMA RollsLastOrder ==
    ASSUME PhaseInv, PhaseInv', OrderInv, NEW t \in Threads, RollsLast(t)
    PROVE  OrderInv'
<1>1. /\ files \in Files /\ written \in Nat /\ failures \in Nat /\ pc \in [Threads -> Places]
      /\ files[0] \in Seq(Line) /\ files[0] # Absent /\ ~logf /\ (0 < RollNum - 1 => files[0 + 1] = Absent)
  BY Constants DEF PhaseInv, LogTyped, Files, RollsLast, Rolling, AtPlace
<1>2. /\ pc[t] = "roll" /\ roll = 0 /\ logf' = logf /\ written' = written /\ session' = session
      /\ \/ /\ failures' = failures /\ pc' = [pc EXCEPT ![t] = "open"]
            /\ files' = [files EXCEPT ![0] = Absent, ![0 + 1] = files[0]]
         \/ failures' = failures + 1 /\ files' = files
  BY DEF RollsLast, Works, Fails, Renamed, Goes
<1>3. Smooth' => Smooth /\ failures' = failures
  BY <1>1, <1>2 DEF Smooth
<1>4. PICK x \in Nat : HoldAfter(files, written, x) /\ (Smooth => Dropped(x))
  BY DEF OrderInv
<1>5. Smooth => Full(files) /\ Len(files[0]) = FileLines /\ Filled(files, Gap(0))
  BY <1>1, <1>2 DEF OrderInv, InOrder
<1> DEFINE g == [files EXCEPT ![Oldest] = Absent]
<1>6. \E y \in Nat : HoldAfter(files', written', y) /\ (Smooth' => Dropped(y)')
  <2>1. CASE files' = files
    BY <1>2, <1>3, <1>4, <2>1 DEF Dropped
  <2>2. CASE RollNum # 1 /\ files' = [files EXCEPT ![0] = Absent, ![0 + 1] = files[0]]
    <3>1. 0 \in Indexes /\ 0 # Oldest /\ files[0 + 1] = Absent
      BY <1>1, <2>2, Constants
    <3>2. HoldAfter(files', written', x)
      BY <1>1, <1>2, <1>4, <2>2, <3>1, RenamedHolds
    <3> QED
      BY <1>2, <1>3, <1>4, <3>2 DEF Dropped
  <2>3. CASE RollNum = 1 /\ files' = [files EXCEPT ![0] = Absent, ![0 + 1] = files[0]]
    <3>1. Oldest = 1 /\ Oldest \in Indexes /\ 0 \in Indexes /\ 0 # Oldest
      BY <2>3, IndexesNext DEF Oldest
    <3>2. PICK y \in Nat : HoldAfter(g, written, y) /\ y <= written
      BY <1>1, <1>4, <3>1, RemovedHolds
    <3>3. g \in Files /\ g[0] = files[0] /\ g[0 + 1] = Absent
      BY <1>1, <3>1 DEF Files
    <3>4. files' = [g EXCEPT ![0] = Absent, ![0 + 1] = g[0]]
      BY <1>1, <2>3, <3>1, <3>3 DEF Files
    <3> HIDE DEF g
    <3>5. HoldAfter(files', written, y)
      BY <1>1, <3>1, <3>2, <3>3, <3>4, RenamedHolds
    <3>6. Dropped(y)'
      <4>1. (RollNum - 1) * FileLines = 0
        BY <2>3, FileLinesTyped
      <4> QED
        BY <1>1, <1>2, <3>2, <4>1 DEF Dropped
    <3> QED
      BY <1>2, <3>5, <3>6
  <2> QED
    BY <1>2, <2>1, <2>2, <2>3
<1>7. ASSUME Smooth'
      PROVE  InOrder'
  <2>1. /\ Full(files) /\ Len(files[0]) = FileLines /\ Filled(files, Gap(0))
        /\ pc' = [pc EXCEPT ![t] = "open"] /\ files' = [files EXCEPT ![0] = Absent, ![0 + 1] = files[0]]
    BY <1>1, <1>2, <1>3, <1>5, <1>7
  <2>2. Full(files') /\ Filled(files', 0)
    <3>1. 0 \in Indexes /\ 0 # Oldest /\ Gap(0) \in {0 + 1, -1}
      BY Constants DEF Gap
    <3> QED
      BY <1>1, <2>1, <3>1, RenamedInOrder
  <2>3. \A u \in Threads : pc'[u] # "roll"
    <3>1. \A u \in Threads : u # t => pc[u] \notin Inside
      BY <1>2 DEF PhaseInv, OneInside, Inside
    <3> QED
      BY <1>1, <2>1, <3>1 DEF Inside
  <2> QED
    BY <1>1, <1>2, <2>2, <2>3 DEF InOrder
<1> QED
  BY <1>6, <1>7 DEF OrderInv

(* OrderInv: a rename or a removal of _rollfiles never leaves a gap in the *)
(* numbers of the lines or changes their order.                            *)
THEOREM LogsInOrder == Spec => []OrderInv
<1>1. Init => OrderInv
  <2> SUFFICES ASSUME Init
               PROVE  OrderInv
    OBVIOUS
  <2>1. files = [i \in Indexes |-> Absent] /\ written = 0 /\ ~logf /\ \A t \in Threads : pc[t] = "down"
    BY DEF Init
  <2>2. InOrder
    BY <2>1 DEF InOrder, Full
  <2> DEFINE e == [i \in 0..(Oldest + 1) |-> 0]
  <2>3. e \in Ends /\ e[0] = 0 /\ e[Oldest + 1] = 0 /\ \A i \in Indexes : e[i] = 0 /\ e[i + 1] = 0
    BY IndexesNext, Constants DEF Ends
  <2>4. \A i \in Indexes : LinesOf(files, i) = <<>>
    BY <2>1 DEF LinesOf
  <2> HIDE DEF e
  <2>5. Numbered(files, written, e)
    <3>1. Len(<<>>) = 0 /\ 1..0 = {}
      OBVIOUS
    <3> QED
      BY <2>1, <2>3, <2>4, <3>1 DEF Numbered
  <2> QED
    BY <2>1, <2>2, <2>3, <2>5 DEF OrderInv, HoldAfter, Dropped
<1>2. PhaseInv /\ PhaseInv' /\ OrderInv /\ [Next]_vars => OrderInv'
  <2> SUFFICES ASSUME PhaseInv, PhaseInv', OrderInv, [Next]_vars
               PROVE  OrderInv'
    OBVIOUS
  <2>1. CASE StartsUp
    BY <2>1, StartsUpOrder
  <2>2. ASSUME NEW t \in Threads, Logs(t) \/ Locks(t) \/ FindsClosed(t) \/ Unlocks(t)
        PROVE  OrderInv'
    <3>1. /\ UNCHANGED <<files, written, session, failures, logf, curoffset, roll>>
          /\ \A u \in Threads : pc'[u] \in {"roll", "open"} => pc'[u] = pc[u]
      BY <2>2 DEF Logs, Locks, FindsClosed, Unlocks, Goes, fileVars, PhaseInv, LogTyped
    <3> QED
      BY <3>1 DEF OrderInv, InOrder, Smooth, Dropped
  <2>3. CASE Dies
    <3>1. /\ UNCHANGED <<files, written, session, failures, roll>> /\ ~logf'
          /\ \A u \in Threads : pc'[u] = "down"
      BY <2>3 DEF Dies, fileVars
    <3> QED
      BY <3>1 DEF OrderInv, InOrder, Smooth, Dropped
  <2>4. CASE UNCHANGED vars
    BY <2>4 DEF vars, fileVars, OrderInv, InOrder, Smooth, Dropped
  <2>5. ASSUME NEW t \in Threads, ThreadStep(t)
        PROVE  OrderInv'
    BY <2>2, <2>5, WritesLineOrder, ClosesOrder, RollsOneOrder, RollsLastOrder, ReopensOrder DEF ThreadStep
  <2> QED
    BY <2>1, <2>2, <2>3, <2>4, <2>5 DEF Next
<1> QED
  BY <1>1, <1>2, LogPhases, PTL DEF Spec

-----------------------------------------------------------------------------
(* OnDisk: the files' lines, joined from the oldest file on, are those that*)
(* Numbered tells of.                                                      *)

JoinedFrom(g, k) == g = [i \in k..Oldest |-> IF i = Oldest THEN Lines(i) ELSE g[i + 1] \o Lines(i)]

LEMMA JoinedExists == \E g : JoinedFrom(g, 0)
<1> DEFINE Missing == {k \in 0..Oldest : ~ \E g : JoinedFrom(g, Oldest - k)}
<1>1. Oldest \in Nat
  BY Constants
<1>2. CASE Missing = {}
  <2>1. Oldest \in 0..Oldest /\ Oldest - Oldest = 0
    BY <1>1
  <2> QED
    BY <1>2, <2>1
<1>3. CASE Missing # {}
  <2>1. PICK k \in Missing : \A j \in Missing : k <= j
    <3>1. Missing \in SUBSET Nat
      BY <1>1
    <3> HIDE DEF Missing
    <3> QED
      BY <1>3, <3>1, LeastNatural
  <2>2. CASE k = 0
    <3> DEFINE g == [i \in Oldest..Oldest |-> Lines(i)]
    <3>1. Oldest - k = Oldest /\ \A i \in Oldest..Oldest : i = Oldest
      BY <1>1, <2>2
    <3>2. JoinedFrom(g, Oldest)
      BY <3>1 DEF JoinedFrom
    <3> QED
      BY <2>1, <3>1, <3>2
  <2>3. CASE k # 0
    <3> DEFINE b == Oldest - k
    <3>1. k - 1 \in 0..Oldest /\ k - 1 \notin Missing /\ b \in Nat /\ Oldest - (k - 1) = b + 1 /\ b + 1 <= Oldest
      BY <1>1, <2>1, <2>3
    <3>2. PICK f : JoinedFrom(f, b + 1)
      BY <3>1
    <3> DEFINE g == [i \in b..Oldest |-> IF i = b THEN f[b + 1] \o Lines(b) ELSE f[i]]
    <3> HIDE DEF b
    <3>3. \A i \in (b + 1)..Oldest : f[i] = IF i = Oldest THEN Lines(i) ELSE f[i + 1] \o Lines(i)
      BY <3>2 DEF JoinedFrom
    <3>4. ASSUME NEW i \in b..Oldest
          PROVE  g[i] = IF i = Oldest THEN Lines(i) ELSE g[i + 1] \o Lines(i)
      <4>1. CASE i = b
        <5>1. i # Oldest /\ i + 1 \in b..Oldest /\ i + 1 # b
          BY <1>1, <3>1, <4>1
        <5> QED
          BY <4>1, <5>1
      <4>2. CASE i # b
        <5>1. i \in (b + 1)..Oldest
          BY <1>1, <3>1, <4>2
        <5>2. g[i] = f[i]
          BY <4>2
        <5>3. i # Oldest => i + 1 \in b..Oldest /\ i + 1 # b
          BY <1>1, <3>1, <5>1
        <5>4. i # Oldest => g[i + 1] = f[i + 1]
          BY <5>3
        <5> HIDE DEF g
        <5> QED
          BY <3>3, <5>1, <5>2, <5>4
      <4> QED
        BY <4>1, <4>2
    <3>5. JoinedFrom(g, b)
      <4>1. g = [i \in b..Oldest |-> g[i]]
        OBVIOUS
      <4> HIDE DEF g
      <4> QED
        BY <3>4, <4>1 DEF JoinedFrom
    <3> QED
      BY <2>1, <3>5 DEF b
  <2> QED
    BY <2>2, <2>3
<1> QED
  BY <1>2, <1>3

LEMMA OnDiskIs == \E g : JoinedFrom(g, 0) /\ OnDisk = g[0]
<1> DEFINE g == CHOOSE g : JoinedFrom(g, 0)
<1>1. JoinedFrom(g, 0)
  BY JoinedExists
<1>2. OnDisk = g[0]
  BY DEF OnDisk, JoinedFrom, Indexes
<1> QED
  BY <1>1, <1>2

LEMMA OnDiskNumbered ==
    ASSUME files \in Files, NEW w \in Nat, NEW x \in Nat, HoldAfter(files, w, x)
    PROVE  /\ OnDisk \in Seq(Line) /\ Len(OnDisk) = w - x
           /\ \A n \in 1..Len(OnDisk) : OnDisk[n].no = x + n
<1>1. PICK e \in Ends : Numbered(files, w, e) /\ e[Oldest + 1] = x
  BY DEF HoldAfter
<1>2. PICK g : JoinedFrom(g, 0) /\ OnDisk = g[0]
  BY OnDiskIs
<1>3. \A i \in Indexes : g[i] = IF i = Oldest THEN Lines(i) ELSE g[i + 1] \o Lines(i)
  BY <1>2 DEF JoinedFrom, Indexes
<1> DEFINE Holds(i) == /\ g[i] \in Seq(Line) /\ e[i] = x + Len(g[i])
                       /\ \A n \in 1..Len(g[i]) : g[i][n].no = x + n
           Wrong == {k \in 0..Oldest : ~Holds(Oldest - k)}
<1>4. \A i \in Indexes : /\ Lines(i) \in Seq(Line) /\ Len(Lines(i)) \in Nat /\ e[i] = e[i + 1] + Len(Lines(i))
                         /\ \A n \in 1..Len(Lines(i)) : Lines(i)[n].no = e[i + 1] + n
  <2>1. \A i \in Indexes : Lines(i) = LinesOf(files, i)
    BY DEF Lines, LinesOf
  <2> QED
    BY <1>1, <2>1, LinesTyped DEF Numbered
<1>5. Holds(Oldest)
  <2>1. g[Oldest] = Lines(Oldest)
    BY <1>3, IndexesNext
  <2>2. Oldest \in Indexes /\ e[Oldest + 1] = x
    BY <1>1, IndexesNext
  <2>3. /\ Lines(Oldest) \in Seq(Line) /\ e[Oldest] = x + Len(Lines(Oldest))
        /\ \A n \in 1..Len(Lines(Oldest)) : Lines(Oldest)[n].no = x + n
    BY <1>4, <2>2
  <2> QED
    BY <2>1, <2>3
<1>6. ASSUME NEW i \in Indexes, i # Oldest, Holds(i + 1)
      PROVE  Holds(i)
  <2> DEFINE a == g[i + 1]
             b == Lines(i)
  <2>1. g[i] = a \o b
    BY <1>3, <1>6
  <2>2. a \in Seq(Line) /\ e[i + 1] = x + Len(a) /\ \A n \in 1..Len(a) : a[n].no = x + n
    BY <1>6
  <2>3. b \in Seq(Line) /\ e[i] = e[i + 1] + Len(b) /\ \A n \in 1..Len(b) : b[n].no = e[i + 1] + n
    BY <1>4
  <2> HIDE DEF a, b
  <2>4. a \o b \in Seq(Line) /\ Len(a \o b) = Len(a) + Len(b) /\ Len(a) \in Nat /\ Len(b) \in Nat
    BY <2>2, <2>3
  <2>5. ASSUME NEW n \in 1..Len(a \o b)
        PROVE  (a \o b)[n].no = x + n
    <3>1. CASE n <= Len(a)
      <4>1. (a \o b)[n] = a[n] /\ n \in 1..Len(a)
        BY <2>2, <2>3, <2>4, <3>1
      <4> QED
        BY <2>2, <4>1
    <3>2. CASE n > Len(a)
      <4>1. (a \o b)[n] = b[n - Len(a)] /\ n - Len(a) \in 1..Len(b)
        BY <2>2, <2>3, <2>4, <3>2
      <4> QED
        BY <2>2, <2>3, <2>4, <4>1
    <3> QED
      BY <2>4, <3>1, <3>2
  <2> QED
    BY <2>1, <2>2, <2>3, <2>4, <2>5
<1> HIDE DEF Holds
<1>7. Wrong = {}
  <2> SUFFICES ASSUME Wrong # {}
               PROVE  FALSE
    OBVIOUS
  <2>1. PICK k \in Wrong : \A j \in Wrong : k <= j
    <3>1. Wrong \in SUBSET Nat
      BY Constants
    <3> HIDE DEF Wrong
    <3> QED
      BY <3>1, LeastNatural
  <2>2. k # 0
    BY <1>5, <2>1, Constants
  <2>3. /\ k - 1 \in 0..Oldest /\ k - 1 \notin Wrong
        /\ Oldest - (k - 1) = (Oldest - k) + 1 /\ Oldest - k \in Indexes /\ Oldest - k # Oldest
    BY <2>1, <2>2, Constants
  <2>4. Holds((Oldest - k) + 1)
    BY <2>3
  <2>5. Holds(Oldest - k)
    BY <1>6, <2>3, <2>4
  <2> QED
    BY <2>1, <2>5
<1>8. Holds(0)
  <2>1. Oldest \in 0..Oldest /\ Oldest - Oldest = 0
    BY Constants
  <2> QED
    BY <1>7, <2>1
<1>9. e[0] = w
  BY <1>1 DEF Numbered
<1> QED
  BY <1>2, <1>8, <1>9 DEF Holds

(* SuffixKept: the files in their order hold the latest lines written, in  *)
(* the order of writing and without a gap; in a first session without      *)
(* failures all but one of the files that rollnum stands for, or all lines.*)
THEOREM LatestLinesKept == Spec => []SuffixKept
<1>1. PhaseInv /\ OrderInv => SuffixKept
  <2> SUFFICES ASSUME PhaseInv, OrderInv
               PROVE  SuffixKept
    OBVIOUS
  <2>1. files \in Files /\ written \in Nat
    BY DEF PhaseInv, LogTyped, Files
  <2>2. PICK x \in Nat : HoldAfter(files, written, x) /\ (Smooth => Dropped(x))
    BY DEF OrderInv
  <2>3. /\ OnDisk \in Seq(Line) /\ Len(OnDisk) = written - x
        /\ \A n \in 1..Len(OnDisk) : OnDisk[n].no = x + n
    BY <2>1, <2>2, OnDiskNumbered
  <2>4. DOMAIN OnDisk = 1..Len(OnDisk) /\ Len(OnDisk) \in Nat
    BY <2>3
  <2>5. \A n \in DOMAIN OnDisk : OnDisk[n].no = written - Len(OnDisk) + n
    BY <2>1, <2>3, <2>4
  <2>6. session = 1 /\ failures = 0 => Len(OnDisk) >= written \/ Len(OnDisk) >= (RollNum - 1) * FileLines
    BY <2>1, <2>2, <2>3 DEF Smooth, Dropped
  <2> QED
    BY <2>5, <2>6 DEF SuffixKept
<1> QED
  BY <1>1, LogPhases, LogsInOrder, PTL
=============================================================================
