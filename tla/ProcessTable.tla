---------------------------- MODULE ProcessTable ----------------------------
(***************************************************************************)
(* hashtable.c: the table of followed tasks, the virtual clock kept in each *)
(* of its entries, and the counter that decides when the event loop ends.  *)
(* The table is a map from pid to entry here; HashTable shows that uthash  *)
(* makes it one.                                                           *)
(*                                                                         *)
(* gettime_data starts at the same constant in every entry and each use    *)
(* adds one to both of its fields, so the clock is the number of ticks     *)
(* since the entry was made.  The clock of an id without an entry is 0.    *)
(***************************************************************************)
EXTENDS Naturals, Tasks

VARIABLES
  process_table,   \* the ids that have an entry
  clock,           \* ticks of each entry's gettime_data
  entry_count      \* the global counter beside the table

tableVars == <<process_table, clock, entry_count>>

TableInit ==
  /\ process_table = {}
  /\ clock = [t \in Tid |-> 0]
  /\ entry_count = 0

TableTypeOK ==
  /\ process_table \subseteq Tid
  /\ clock \in [Tid -> Nat]
  /\ entry_count \in Nat

(* find_process(pid) # NULL *)
find_process(t) == t \in process_table

(* A variant for CountsEntries and EachAnsweredOnce: no "already exists"   *)
(* return, the old entry is overwritten and counted again.                 *)
insert_twice(t) ==
  /\ process_table' = process_table \cup {t}
  /\ clock' = [clock EXCEPT ![t] = 0]
  /\ entry_count' = entry_count + 1

(* The new entry starts at the time compiled into insert_process; an       *)
(* existing entry is kept as it is, its clock included.                    *)
insert_process(t) ==
  IF find_process(t)
  THEN UNCHANGED tableVars
  ELSE /\ process_table' = process_table \cup {t}
       /\ clock' = [clock EXCEPT ![t] = 0]
       /\ entry_count' = entry_count + 1

(* A variant for TypeOK: entry_count goes down whether or not the id was   *)
(* found.                                                                  *)
delete_uncounted(t) ==
  /\ process_table' = process_table \ {t}
  /\ clock' = [clock EXCEPT ![t] = 0]
  /\ entry_count' = entry_count - 1

delete_process(t) ==
  IF find_process(t)
  THEN /\ process_table' = process_table \ {t}
       /\ clock' = [clock EXCEPT ![t] = 0]
       /\ entry_count' = entry_count - 1
  ELSE UNCHANGED tableVars

is_hash_table_empty == entry_count = 0

(* A time hook advances child->gettime_data.                               *)
Tick(t) ==
  /\ clock' = [clock EXCEPT ![t] = @ + 1]
  /\ UNCHANGED <<process_table, entry_count>>

(* What the event loop does with the table.                                *)
TableNext == \E t \in Tid :
  insert_process(t) \/ delete_process(t) \/ (find_process(t) /\ Tick(t))

TableSpec == TableInit /\ [][TableNext]_tableVars

(* The counter the event loop tests agrees with the table it stands for.   *)
CountsEntries == entry_count = Cardinality(process_table)
=============================================================================
