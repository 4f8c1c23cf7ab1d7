----------------------------- MODULE QueueTable -----------------------------
(***************************************************************************)
(* The table of named queues: qc_hash.c as qc_qmanager.c and qc_qsystem.c  *)
(* use it.  Entries with the same hash form a list; a new entry goes to its*)
(* head whether or not the name is there already, so that it hides an older*)
(* one, and deleting takes the first entry of the name.  The compare       *)
(* function and the hash ignore case alike.  A name is its bytes, the final*)
(* zero left out.  No operation takes the table's rwlock.                  *)
(***************************************************************************)
EXTENDS Integers, Sequences

CONSTANTS Names, Queues,
          BucketCount,                \* 1000 in qc_qmng_create
          None                        \* NULL

Entries == [key : Names, data : Queues]
Tables  == [bucket : [0..(BucketCount - 1) -> Seq(Entries)], entry_count : Nat]
Cursors == [bucket_no : 0..BucketCount, entry : Nat]     \* cur_bucket_no, cur_entry

ASSUME QueueTableAssumption ==
    /\ BucketCount \in Nat \ {0}
    /\ Names \subseteq Seq(1..255)
    /\ None \notin Queues \cup Tables \cup Cursors

(* tolower of the C locale. *)
Lower(char) == IF char \in 65..90 THEN char + 32 ELSE char

(* The name as the hash and the compare function see it: names that are    *)
(* equal but for case are the same to both (qc_strcompare).                *)
Folded(name) == [i \in DOMAIN name |-> Lower(name[i])]
SameName(name, other) == Folded(name) = Folded(other)

(* qc_hashstring: the sum of the pieces of five characters, each taken as  *)
(* digits of base 9.  (A name of the size the server takes does not bring  *)
(* the sum to 2^32.  The Mutant tells cases apart.)                        *)
Sums(chars) ==
    LET sum[i \in 0..Len(chars)] ==
            IF i = 0 THEN [ret |-> 0, hash |-> 0]
            ELSE LET before == sum[i - 1]
                 IN  IF i % 5 = 1
                     THEN [ret |-> before.ret + before.hash, hash |-> chars[i]]
                     ELSE [ret |-> before.ret, hash |-> 9 * before.hash + chars[i]]
    IN  sum
HashOf(chars) == LET sum == Sums(chars)[Len(chars)] IN (sum.ret + sum.hash) % BucketCount
HashStringMutant(name) == HashOf(name)
HashString(name) == HashOf(Folded(name))

Bucket == [name \in Names |-> HashString(name)]

EmptyTable == [bucket |-> [b \in 0..(BucketCount - 1) |-> <<>>], entry_count |-> 0]

(* qc_hashtbl_insert. *)
Inserted(t, n, q) ==
    [bucket      |-> [t.bucket EXCEPT ![Bucket[n]] = <<[key |-> n, data |-> q]>> \o @],
     entry_count |-> t.entry_count + 1]

(* The first entry of a name in its bucket: a set of at most one position. *)
FirstOf(t, n) ==
    LET list == t.bucket[Bucket[n]]
    IN  {i \in DOMAIN list : /\ SameName(list[i].key, n)
                             /\ \A j \in 1..(i - 1) : ~SameName(list[j].key, n)}

(* qc_hashtbl_find: the data, or NULL. *)
Found(t, n) ==
    IF FirstOf(t, n) = {} THEN None
    ELSE t.bucket[Bucket[n]][CHOOSE i \in FirstOf(t, n) : TRUE].data

(* qc_hashtbl_delete: the table without that entry. *)
DeletedFrom(t, n) ==
    LET list == t.bucket[Bucket[n]]
        rest == {SubSeq(list, 1, i - 1) \o SubSeq(list, i + 1, Len(list)) : i \in FirstOf(t, n)}
    IN  IF rest = {} THEN t
        ELSE [bucket      |-> [t.bucket EXCEPT ![Bucket[n]] = CHOOSE r \in rest : TRUE],
              entry_count |-> t.entry_count - 1]

(* What qc_qmng_delqueue reports: qc_hashtbl_delete returns 1 when it has  *)
(* deleted an entry, which is taken for an error, and 0 when there is none.*)
DeleteReport(t, n) == IF FirstOf(t, n) # {} THEN -1 ELSE 0

(* The enumeration's cursor: bucket cur_bucket_no, and the entry there that*)
(* is next (one past the list's end is cur_entry = NULL).                  *)
EnumBegin == [bucket_no |-> 0, entry |-> 1]

(* qc_hashtbl_enumnext: the cursor of the next entry, from the cursor on in*)
(* bucket order, or one past the last bucket.                              *)
EnumAt(t, cur) ==
    IF cur.entry <= Len(t.bucket[cur.bucket_no]) THEN cur
    ELSE LET later == {b \in (cur.bucket_no + 1)..(BucketCount - 1) : t.bucket[b] # <<>>}
         IN  [bucket_no |-> IF later = {} THEN BucketCount
                            ELSE CHOOSE b \in later : \A c \in later : b <= c,
              entry |-> 1]
EnumDone(cur) == cur.bucket_no = BucketCount
EnumData(t, cur) == t.bucket[cur.bucket_no][cur.entry].data

(* The cursor moves on in its list.  (The Mutant goes to the next bucket.) *)
EnumNextMutant(cur) == [bucket_no |-> cur.bucket_no + 1, entry |-> 1]
EnumNext(cur) == [cur EXCEPT !.entry = @ + 1]
=============================================================================
