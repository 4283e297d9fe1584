------------------------------ MODULE HashTable ------------------------------
(***************************************************************************)
(* hashtable.c on top of uthash.h: the entries of the followed tasks, each *)
(* with a handle that links it into a doubly linked list of all entries,   *)
(* in the order they were added, and into the chain of its bucket.  A      *)
(* chain that has become too long makes the table double its buckets and   *)
(* deal the entries out again, one by one.                                 *)
(*                                                                         *)
(* An entry is named by its pid; NoTid stands for NULL.  The handle of an  *)
(* id without an entry is NoHandle: that memory is free.                   *)
(***************************************************************************)
EXTENDS Naturals, Tasks

CONSTANTS
  InitialBuckets,   \* HASH_INITIAL_NUM_BUCKETS, 32 in the code
  Threshold,        \* HASH_BKT_CAPACITY_THRESH, 10 in the code
  MaxHash,          \* bound: the largest value of the hash function
  MaxBuckets,       \* bound: no table grows beyond it
  MaxTicks          \* bound: steps of one entry's clock

ASSUME HashAssumption ==
  /\ InitialBuckets \in Nat \ {0} /\ InitialBuckets \in {2^k : k \in 0..30}
  /\ Threshold \in Nat \ {0}
  /\ {MaxHash, MaxBuckets, MaxTicks} \subseteq Nat

VARIABLES
  hash,          \* HASH_JEN: any function of the pid
  head,          \* process_table, the first entry
  hh,            \* the handle in each entry
  gettime_data,  \* the clock in each entry, in ticks since its start
  entry_count,   \* the counter beside the table
  tbl,           \* the UT_hash_table
  buckets,       \* tbl->buckets
  adding,        \* the entry being added, while the table grows
  grown,         \* _he_new_buckets, the buckets to be
  bkt_i,         \* _he_bkt_i, the old bucket being dealt out,
  thh            \* _he_thh, and its next entry

growVars == <<adding, grown, bkt_i, thh>>
hashVars == <<hash, head, hh, gettime_data, entry_count, tbl, buckets, growVars>>

NoHandle == [tbl |-> FALSE, prev |-> NoTid, next |-> NoTid,
             hh_prev |-> NoTid, hh_next |-> NoTid, hashv |-> 0]

NoTable == [num_buckets |-> 0, num_items |-> 0, tail |-> NoTid, ideal_chain_maxlen |-> 0,
            nonideal_items |-> 0, ineff_expands |-> 0, noexpand |-> FALSE]

Empty(n) == [b \in 0..n-1 |-> [hh_head |-> NoTid, count |-> 0, expand_mult |-> 0]]

HashEmpty ==
  /\ head = NoTid
  /\ hh = [t \in Tid |-> NoHandle]
  /\ gettime_data = [t \in Tid |-> 0]
  /\ entry_count = 0
  /\ tbl = NoTable
  /\ buckets = Empty(0)
  /\ adding = NoTid
  /\ grown = Empty(0)
  /\ bkt_i = 0
  /\ thh = NoTid

HashInit == hash \in [Tid -> 0..MaxHash] /\ HashEmpty

-----------------------------------------------------------------------------
(* hashv & (num_bkts - 1): there are always a power of two of them.        *)
HASH_TO_BKT(hashv, num_bkts) == hashv % num_bkts

(* What is met on the way from an entry along links, up to NULL.           *)
Walk(first, link) ==
  LET met[n \in 0..Cardinality(Tid)] ==
        IF n = 0 THEN first
        ELSE IF met[n - 1] = NoTid THEN NoTid ELSE link[met[n - 1]]
  IN {met[n] : n \in 0..Cardinality(Tid)} \ {NoTid}

Chain(b) == Walk(b.hh_head, [e \in Tid |-> hh[e].hh_next])

(* find_process(t) # NULL                                                  *)
find_process(t) ==
  /\ head # NoTid
  /\ t \in Chain(buckets[HASH_TO_BKT(hash[t], tbl.num_buckets)])

-----------------------------------------------------------------------------
(* The table is made with its first entry.                                 *)
HASH_MAKE_TABLE(t) == [NoTable EXCEPT !.tail = t, !.num_buckets = InitialBuckets]

(* A variant for ListSound: the new entry does not point back.            *)
AppendForward(h, t) ==
  [e \in Tid |->
     CASE e = t -> [NoHandle EXCEPT !.tbl = TRUE, !.hashv = hash[t]]
       [] e # t /\ e = tbl.tail -> [h[e] EXCEPT !.next = t]
       [] OTHER -> h[e]]

(* The handle of a new entry; the entry that was the last points to it.    *)
HASH_APPEND_LIST(h, t) ==
  [e \in Tid |->
     CASE e = t -> [NoHandle EXCEPT !.tbl = TRUE, !.hashv = hash[t], !.prev = tbl.tail]
       [] e # t /\ e = tbl.tail -> [h[e] EXCEPT !.next = t]
       [] OTHER -> h[e]]

(* t becomes the first of a chain.                                         *)
LinkInBkt(h, first, t) ==
  [e \in Tid |->
     CASE e = t -> [h[e] EXCEPT !.hh_next = first, !.hh_prev = NoTid]
       [] e # t /\ e = first -> [h[e] EXCEPT !.hh_prev = t]
       [] OTHER -> h[e]]

(* HASH_ADD_TO_BKT asks for more buckets.                                  *)
TooLong(b, table) == b.count >= (b.expand_mult + 1) * Threshold /\ ~table.noexpand

(* insert_process with HASH_ADD; it ends here or, when the chain is too    *)
(* long, with GrowEnd.                                                     *)
Add(t) ==
  LET table == IF head = NoTid THEN HASH_MAKE_TABLE(t) ELSE [tbl EXCEPT !.tail = t]
      old == IF head = NoTid THEN Empty(InitialBuckets) ELSE buckets
      k == HASH_TO_BKT(hash[t], table.num_buckets)
      b == [old[k] EXCEPT !.count = @ + 1, !.hh_head = t]
  IN
  /\ TooLong(b, table) => 2 * table.num_buckets <= MaxBuckets
  /\ head' = IF head = NoTid THEN t ELSE head
  /\ hh' = LinkInBkt(HASH_APPEND_LIST(hh, t), old[k].hh_head, t)
  /\ gettime_data' = [gettime_data EXCEPT ![t] = 0]
  /\ tbl' = [table EXCEPT !.num_items = @ + 1]
  /\ buckets' = [old EXCEPT ![k] = b]
  /\ IF TooLong(b, table)
     THEN adding' = t /\ UNCHANGED entry_count
     ELSE entry_count' = entry_count + 1 /\ UNCHANGED adding
  /\ UNCHANGED <<hash, grown, bkt_i, thh>>

insert_process(t) ==
  /\ adding = NoTid
  /\ IF find_process(t) THEN UNCHANGED hashVars ELSE Add(t)

(* HASH_EXPAND_BUCKETS: the new buckets, and the length of a chain that    *)
(* would be ideal with them, the number of items by buckets rounded up.    *)
GrowBegin ==
  LET n == 2 * tbl.num_buckets IN
  /\ adding # NoTid /\ DOMAIN grown = {}
  /\ grown' = Empty(n)
  /\ bkt_i' = 0
  /\ thh' = buckets[0].hh_head
  /\ tbl' = [tbl EXCEPT
       !.ideal_chain_maxlen = (tbl.num_items \div n) + (IF tbl.num_items % n = 0 THEN 0 ELSE 1),
       !.nonideal_items = 0]
  /\ UNCHANGED <<hash, head, hh, gettime_data, entry_count, buckets, adding>>

(* A variant for TableIsMap: the mask is that of the old buckets.          *)
OldBkt(hashv) == HASH_TO_BKT(hashv, tbl.num_buckets)

NewBkt(hashv) == HASH_TO_BKT(hashv, 2 * tbl.num_buckets)

(* A variant for ChainBounded: the multiplier is 0 or 1.                   *)
FlagMult(b) == IF b.count + 1 > tbl.ideal_chain_maxlen THEN 1 ELSE 0

(* expand_mult of a bucket that gets one more entry.                       *)
NewMult(b) ==
  IF /\ b.count + 1 > tbl.ideal_chain_maxlen
     /\ b.count + 1 > b.expand_mult * tbl.ideal_chain_maxlen
  THEN b.expand_mult + 1
  ELSE b.expand_mult

(* One entry goes to the head of its new chain.                            *)
GrowItem ==
  LET k == NewBkt(hh[thh].hashv)
      b == grown[k]
  IN
  /\ DOMAIN grown # {} /\ thh # NoTid
  /\ grown' = [grown EXCEPT ![k] =
       [hh_head |-> thh, count |-> b.count + 1, expand_mult |-> NewMult(b)]]
  /\ tbl' = [tbl EXCEPT !.nonideal_items =
       IF b.count + 1 > tbl.ideal_chain_maxlen THEN @ + 1 ELSE @]
  /\ hh' = LinkInBkt(hh, b.hh_head, thh)
  /\ thh' = hh[thh].hh_next
  /\ UNCHANGED <<hash, head, gettime_data, entry_count, buckets, adding, bkt_i>>

GrowNextBucket ==
  /\ DOMAIN grown # {} /\ thh = NoTid /\ bkt_i + 1 < tbl.num_buckets
  /\ bkt_i' = bkt_i + 1
  /\ thh' = buckets[bkt_i'].hh_head
  /\ UNCHANGED <<hash, head, hh, gettime_data, entry_count, tbl, buckets, adding, grown>>

(* The new buckets take the place of the old.  When that has helped less   *)
(* than half of the items twice in a row, the table never grows again.     *)
GrowEnd ==
  LET ineff == IF tbl.nonideal_items > tbl.num_items \div 2 THEN tbl.ineff_expands + 1 ELSE 0
  IN
  /\ DOMAIN grown # {} /\ thh = NoTid /\ bkt_i + 1 = tbl.num_buckets
  /\ tbl' = [tbl EXCEPT !.num_buckets = 2 * @, !.ineff_expands = ineff,
                        !.noexpand = @ \/ ineff > 1]
  /\ buckets' = grown
  /\ adding' = NoTid
  /\ grown' = Empty(0)
  /\ bkt_i' = 0
  /\ entry_count' = entry_count + 1
  /\ UNCHANGED <<hash, head, hh, gettime_data, thh>>

-----------------------------------------------------------------------------
(* A variant for ChainsSound: the next entry of the chain still points     *)
(* back to t.                                                              *)
UnlinkedForward(h, t) ==
  [e \in Tid |->
     IF e = t THEN NoHandle
     ELSE [h[e] EXCEPT !.next = IF e = h[t].prev THEN h[t].next ELSE @,
                       !.prev = IF e = h[t].next THEN h[t].prev ELSE @,
                       !.hh_next = IF e = h[t].hh_prev THEN h[t].hh_next ELSE @]]

(* HASH_DELETE_HH and HASH_DEL_IN_BKT: the handles without that of t, a    *)
(* neighbour of it in either list pointing past it.                        *)
Unlinked(h, t) ==
  [e \in Tid |->
     IF e = t THEN NoHandle
     ELSE [h[e] EXCEPT !.next = IF e = h[t].prev THEN h[t].next ELSE @,
                       !.prev = IF e = h[t].next THEN h[t].prev ELSE @,
                       !.hh_next = IF e = h[t].hh_prev THEN h[t].hh_next ELSE @,
                       !.hh_prev = IF e = h[t].hh_next THEN h[t].hh_prev ELSE @]]

(* The last entry takes the table with it.                                 *)
FreeTable ==
  /\ head' = NoTid
  /\ tbl' = NoTable
  /\ buckets' = Empty(0)

Remove(t) ==
  LET k == HASH_TO_BKT(hh[t].hashv, tbl.num_buckets) IN
  /\ head' = IF hh[t].prev = NoTid THEN hh[t].next ELSE head
  /\ tbl' = [tbl EXCEPT !.tail = IF @ = t THEN hh[t].prev ELSE @, !.num_items = @ - 1]
  /\ buckets' = [buckets EXCEPT
       ![k].count = @ - 1,
       ![k].hh_head = IF @ = t THEN hh[t].hh_next ELSE @]

(* delete_process with HASH_DEL.                                           *)
delete_process(t) ==
  /\ adding = NoTid
  /\ IF find_process(t)
     THEN /\ IF hh[t].prev = NoTid /\ hh[t].next = NoTid THEN FreeTable ELSE Remove(t)
          /\ hh' = Unlinked(hh, t)
          /\ gettime_data' = [gettime_data EXCEPT ![t] = 0]
          /\ entry_count' = entry_count - 1
          /\ UNCHANGED <<hash, growVars>>
     ELSE UNCHANGED hashVars

(* A time hook advances child->gettime_data.                               *)
Tick(t) ==
  /\ adding = NoTid
  /\ find_process(t)
  /\ gettime_data[t] < MaxTicks
  /\ gettime_data' = [gettime_data EXCEPT ![t] = @ + 1]
  /\ UNCHANGED <<hash, head, hh, entry_count, tbl, buckets, growVars>>

HashNext ==
  \/ \E t \in Tid : insert_process(t) \/ delete_process(t) \/ Tick(t)
  \/ GrowBegin \/ GrowItem \/ GrowNextBucket \/ GrowEnd

HashSpec == HashInit /\ [][HashNext]_hashVars

-----------------------------------------------------------------------------
Members == {t \in Tid : hh[t].tbl}

Map == INSTANCE ProcessTable WITH
  process_table <- IF adding = NoTid THEN {t \in Tid : find_process(t)}
                                     ELSE Members \ {adding},
  clock <- gettime_data

(* The table is the map that ProcessTable takes it for: after any number   *)
(* of insertions, deletions and growths find_process finds the entries     *)
(* that were inserted and not deleted, each with its own clock.            *)

TableIsMap == Map!TableSpec

(* The list of all entries, which HASH_ITER follows and whose ends tell    *)
(* HASH_DELETE what to patch: forward and backward links agree, head and   *)
(* tail are its ends, and it has num_items entries.  HASH_FSCK tests this  *)
(* and the next property in builds for debugging uthash.                   *)
ListSound ==
  /\ head = NoTid <=> Members = {}
  /\ \A e, f \in Members : hh[e].next = f <=> hh[f].prev = e
  /\ \A e \in Members :
       /\ hh[e].prev = NoTid <=> e = head
       /\ hh[e].next = NoTid <=> e = tbl.tail
  /\ Walk(head, [e \in Tid |-> hh[e].next]) = Members
  /\ tbl.num_items = Cardinality(Members)

(* When the table is not growing, each bucket counts the entries of its    *)
(* chain, which are those with its hash, doubly linked.                    *)
ChainsSound ==
  adding = NoTid =>
    \A k \in DOMAIN buckets :
      LET chain == Chain(buckets[k]) IN
      /\ chain = {t \in Members : HASH_TO_BKT(hash[t], tbl.num_buckets) = k}
      /\ buckets[k].count = Cardinality(chain)
      /\ \A e \in chain : hh[e].hh_prev = NoTid <=> e = buckets[k].hh_head
      /\ \A e, f \in chain : hh[e].hh_next = f <=> hh[f].hh_prev = e

(* What a chain may hold for each step of its multiplier: it gets more     *)
(* buckets at the threshold, and in new buckets the ideal length counts.   *)
Share == IF Threshold > tbl.ideal_chain_maxlen THEN Threshold ELSE tbl.ideal_chain_maxlen

(* A chain is as long as its multiplier allows, unless the table has given *)
(* up growing: expand_mult says by how much a chain is out of proportion.  *)
ChainBounded ==
  adding = NoTid /\ ~tbl.noexpand =>
    \A k \in DOMAIN buckets : buckets[k].count <= (buckets[k].expand_mult + 1) * Share
=============================================================================
