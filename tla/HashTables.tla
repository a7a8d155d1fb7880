----------------------------- MODULE HashTables -----------------------------
(***************************************************************************)
(* HashTable and HashIterator (lib/hash.h, lib/hash.cc).  A bucket is a    *)
(* List, which is the sequence that ItemList says.  A call returns a       *)
(* value, or ABORT where an ASSERT fails.                                  *)
(***************************************************************************)
EXTENDS Integers, Sequences, FiniteSets, SequencesExt
CONSTANTS
  Item, Key, NULL, ABORT,
  getKey, hash,  (* the functions that the client gives to the constructor *)
  InitialBuckets, ResizeRatio, IncreaseSizeBy
VARIABLES
  table,         (* its buckets, numBuckets and numItems                   *)
  result         (* the last call, its argument and what it returned       *)

(* The array of sz empty buckets                                           *)
InitBuckets(sz) == [b \in 0 .. sz - 1 |-> <<>>]

HashTable ==
  [buckets |-> InitBuckets(InitialBuckets), numBuckets |-> InitialBuckets, numItems |-> 0]

Init == table = HashTable /\ result = <<"new", NULL, NULL>>

(* Bucket of key k in a table of sz buckets                                *)
HashValue(k, sz) == hash[k] % sz

(* All items, by bucket, in the order in which ReHash takes them out and   *)
(* Apply goes over them                                                    *)
Apply(t) == FlattenSeq([n \in 1 .. t.numBuckets |-> t.buckets[n - 1]])

(* Mutant: the items go where they would have been in the old table        *)
ReHashOldSize(t) ==
  LET sz == t.numBuckets * IncreaseSizeBy
  IN  [t EXCEPT !.numBuckets = sz,
                !.buckets = [b \in 0 .. sz - 1 |->
                  SelectSeq(Apply(t), LAMBDA i : HashValue(getKey[i], t.numBuckets) = b)]]

(* A new table, with each item appended to its bucket there                *)
ReHash(t) ==
  LET sz == t.numBuckets * IncreaseSizeBy
  IN  [t EXCEPT !.numBuckets = sz,
                !.buckets = [b \in DOMAIN InitBuckets(sz) |->
                  SelectSeq(Apply(t), LAMBDA i : HashValue(getKey[i], sz) = b)]]

(* The item with key k in a bucket, or NULL                                *)
FindInBucket(b, k) ==
  LET hits == SelectSeq(table.buckets[b], LAMBDA i : getKey[i] = k)
  IN  IF hits = <<>> THEN NULL ELSE hits[1]

Lookup(k) == FindInBucket(HashValue(k, table.numBuckets), k)
IsInTable(k) == Lookup(k) # NULL

(* A call with an ASSERT before its effect                                 *)
Call(op, arg, assert, value, next) ==
  /\ result[3] # ABORT
  /\ IF assert THEN table' = next /\ result' = <<op, arg, value>>
     ELSE result' = <<op, arg, ABORT>> /\ UNCHANGED table

Find(k) == Call("Find", k, TRUE, Lookup(k), table)

Insert(i) ==
  LET full == table.numItems \div table.numBuckets >= ResizeRatio
      t == IF full THEN ReHash(table) ELSE table
      b == HashValue(getKey[i], t.numBuckets)
  IN  Call("Insert", i, ~IsInTable(getKey[i]), NULL,
           [t EXCEPT !.buckets[b] = Append(@, i), !.numItems = @ + 1])

RemoveKey(k) ==
  LET b == HashValue(k, table.numBuckets)
      item == FindInBucket(b, k)
  IN  Call("Remove", k, item # NULL, item,
           [table EXCEPT !.buckets[b] = SelectSeq(@, LAMBDA i : i # item),
                         !.numItems = @ - 1])

Next ==
  \/ \E i \in Item : Insert(i)
  \/ \E k \in Key : Find(k) \/ RemoveKey(k)

(* The first bucket from b on that has items, or numBuckets                *)
FindNextFullBucket(b) ==
  CHOOSE f \in b .. table.numBuckets :
    /\ f < table.numBuckets => table.buckets[f] # <<>>
    /\ \A e \in b .. f - 1 : table.buckets[e] = <<>>

(* What a HashIterator passes from bucket b on                             *)
RECURSIVE Iterate(_)
Iterate(b) ==
  LET f == FindNextFullBucket(b)
  IN  IF f = table.numBuckets THEN <<>> ELSE table.buckets[f] \o Iterate(f + 1)

-----------------------------------------------------------------------------
(* SanityCheck: each item is in the bucket of its key, and numItems counts *)
SanityCheck ==
  /\ \A b \in DOMAIN table.buckets : \A n \in DOMAIN table.buckets[b] :
       HashValue(getKey[table.buckets[b][n]], table.numBuckets) = b
  /\ table.numItems = Len(Apply(table))

(* A HashIterator passes what Apply does, every item once                  *)
IteratesAll ==
  /\ Iterate(0) = Apply(table)
  /\ Cardinality(Range(Iterate(0))) = table.numItems
=============================================================================
