-------------------------------- MODULE LIDMap --------------------------------
(***************************************************************************)
(* The map between phone numbers and LIDs (store/sqlstore/lidmap.go): the  *)
(* table whatsmeow_lid_map and the two caches in front of it.              *)
(*                                                                         *)
(* lidCacheLock is a reader-writer lock.  A lookup reads the cache under   *)
(* the read lock, gives it back, and queries the table under the write     *)
(* lock.  A put holds the write lock over its whole transaction, in which  *)
(* each mapping is cached as soon as its statements have run; the          *)
(* transaction may still be rolled back.                                   *)
(*                                                                         *)
(* The names that start with Map leave the plain ones to PreKeys, with     *)
(* which this module is proved about in StoreProofs.                       *)
(***************************************************************************)
EXTENDS Integers, Sequences

CONSTANTS
    PNs,        \* user parts of phone numbers
    LIDs,       \* user parts of LIDs
    Getters,    \* goroutines that look something up
    Empty,      \* the empty string: no such mapping
    Absent,     \* a key the cache does not have
    MaxBatch    \* bound: mappings in one PutManyLIDMappings

ASSUME UserAssumption ==
    /\ PNs \cap LIDs = {}
    /\ {Empty, Absent} \cap (PNs \cup LIDs) = {}
    /\ Empty # Absent
    /\ MaxBatch \in Nat

VARIABLES
    row,            \* the table: lid, its primary key, -> pn, or Empty
    pnToLIDCache,
    lidToPNCache,
    cacheFilled,
    missed,         \* getter -> what it has not found in the cache
    txn,            \* the put that holds the write lock: mappings to do, the
                    \* users of those that are done, and the table and moved before
    torn,           \* users whose cache entry comes from a rolled back put
    moved           \* users whose cache entry is older than a put that gave its LID
                    \* or its phone number to another

cacheVars == <<pnToLIDCache, lidToPNCache, cacheFilled>>
mapVars == <<row, pnToLIDCache, lidToPNCache, cacheFilled, missed, txn, torn, moved>>

Mapping == [lid : LIDs, pn : PNs]
\* A batch without repetitions: the code drops them.
Batches == {b \in UNION {[1..n -> Mapping] : n \in 1..MaxBatch} :
               \A i, j \in DOMAIN b : b[i] = b[j] => i = j}
Rows == {m \in Mapping : row[m.lid] = m.pn}
Closed(table) == [open |-> FALSE, todo |-> <<>>, done |-> {}, before |-> table, moved |-> {}]
NoLookup == [many |-> FALSE, users |-> {}]
MapLockFree == ~txn.open
Users(maps) == {m.lid : m \in maps} \cup {m.pn : m \in maps}

-----------------------------------------------------------------------------
(* Lookups.                                                                *)

\* getLIDMapping under the read lock: GetLIDForPN for a PN, GetPNForLID for a
\* LID.  A cached answer, "" too, or a full cache ends the lookup.
GetLIDMapping(g, user) ==
    /\ MapLockFree
    /\ missed[g] = NoLookup
    /\ ~cacheFilled
    /\ Absent = IF user \in PNs THEN pnToLIDCache[user] ELSE lidToPNCache[user]
    /\ missed' = [missed EXCEPT ![g] = [many |-> FALSE, users |-> {user}]]
    /\ UNCHANGED <<row, cacheVars, txn, torn, moved>>

\* GetManyLIDsForPNs under the read lock: "" counts as missing.
GetManyLIDsForPNs(g, pns) ==
    /\ MapLockFree
    /\ missed[g] = NoLookup
    /\ ~cacheFilled
    /\ pns # {}
    /\ \A pn \in pns : pnToLIDCache[pn] \in {Absent, Empty}
    /\ missed' = [missed EXCEPT ![g] = [many |-> TRUE, users |-> pns]]
    /\ UNCHANGED <<row, cacheVars, txn, torn, moved>>

\* scanManyLids puts what the query returned in both caches.
ScanManyLids(maps) ==
    /\ pnToLIDCache' = [pn \in PNs |->
           IF \E m \in maps : m.pn = pn
           THEN (CHOOSE m \in maps : m.pn = pn).lid ELSE pnToLIDCache[pn]]
    /\ lidToPNCache' = [lid \in LIDs |->
           IF \E m \in maps : m.lid = lid THEN row[lid] ELSE lidToPNCache[lid]]
    /\ torn' = torn \ Users(maps) /\ moved' = moved \ Users(maps)

\* The query of a lookup of one user under the write lock; having no row is
\* cached as "".
QueryOne(g, user) ==
    /\ MapLockFree
    /\ missed[g] = [many |-> FALSE, users |-> {user}]
    /\ missed' = [missed EXCEPT ![g] = NoLookup]
    /\ LET found == {m \in Rows : user \in {m.lid, m.pn}} IN
       IF found # {} THEN ScanManyLids(found)
       ELSE /\ pnToLIDCache' = [pn \in PNs |->
                   IF pn = user THEN Empty ELSE pnToLIDCache[pn]]
            /\ lidToPNCache' = [lid \in LIDs |->
                   IF lid = user THEN Empty ELSE lidToPNCache[lid]]
            /\ torn' = torn \ {user} /\ moved' = moved \ {user}
    /\ UNCHANGED <<row, cacheFilled, txn>>

\* The query of GetManyLIDsForPNs: nothing is cached for a PN without a row, and
\* a failed scan has cached what came before.
QueryMany(g) ==
    /\ MapLockFree
    /\ missed[g].many
    /\ missed' = [missed EXCEPT ![g] = NoLookup]
    /\ \E scanned \in SUBSET {m \in Rows : m.pn \in missed[g].users} : ScanManyLids(scanned)
    /\ UNCHANGED <<row, cacheFilled, txn>>

\* The query of a lookup fails.
QueryFails(g) ==
    /\ MapLockFree
    /\ missed[g] # NoLookup
    /\ missed' = [missed EXCEPT ![g] = NoLookup]
    /\ UNCHANGED <<row, cacheVars, txn, torn, moved>>

\* FillCache adds every row, or those before an error; it removes nothing.
FillCache ==
    /\ MapLockFree
    /\ \E scanned \in SUBSET Rows :
          /\ ScanManyLids(scanned)
          /\ cacheFilled' \in {FALSE, scanned = Rows}
    /\ UNCHANGED <<row, missed, txn>>

-----------------------------------------------------------------------------
(* Puts.                                                                   *)

\* PutLIDMapping and PutManyLIDMappings trust the cache, in one direction.
NotCached(m) == pnToLIDCache[m.pn] # m.lid

\* The put takes the lock and opens a transaction for what is left of its batch
\* once repetitions and cached mappings are dropped; with nothing left it returns.
\* PutLIDMapping is a batch of one.
PutManyLIDMappings(batch) ==
    /\ MapLockFree
    /\ \A i \in DOMAIN batch : NotCached(batch[i])
    /\ txn' = [open |-> TRUE, todo |-> batch, done |-> {}, before |-> row, moved |-> moved]
    /\ UNCHANGED <<row, cacheVars, missed, torn, moved>>

\* The two statements: another LID of this PN goes, this LID gets this PN.
DeleteAndPut(m) ==
    row' = [lid \in LIDs |-> IF lid = m.lid THEN m.pn
                             ELSE IF row[lid] = m.pn THEN Empty ELSE row[lid]]

\* Mutant of CacheMapping: only the direction that was asked for most.
CacheForward(m) ==
    /\ pnToLIDCache' = [pnToLIDCache EXCEPT ![m.pn] = m.lid]
    /\ UNCHANGED lidToPNCache

\* The cache is written inside the transaction; the old PN of the LID and the
\* old LID of the PN keep their entries.
CacheMapping(m) ==
    /\ pnToLIDCache' = [pnToLIDCache EXCEPT ![m.pn] = m.lid]
    /\ lidToPNCache' = [lidToPNCache EXCEPT ![m.lid] = m.pn]

\* Whose mappings the put replaces: the old PN of the LID, the old LIDs of the PN.
Overtaken(m) == {pn \in PNs : row[m.lid] = pn} \cup {lid \in LIDs : row[lid] = m.pn}

UnlockedPutLIDMapping ==
    /\ txn.open
    /\ txn.todo # <<>>
    /\ LET m == Head(txn.todo) IN
       /\ DeleteAndPut(m)
       /\ CacheMapping(m)
       /\ txn' = [txn EXCEPT !.todo = Tail(txn.todo),
                             !.done = txn.done \cup {m.lid, m.pn}]
       /\ torn' = torn \ {m.lid, m.pn}
       /\ moved' = (moved \cup Overtaken(m)) \ {m.lid, m.pn}
    /\ UNCHANGED <<cacheFilled, missed>>

\* DoTxn commits when every mapping is done ...
Commit ==
    /\ txn.open
    /\ txn.todo = <<>>
    /\ txn' = Closed(row)
    /\ UNCHANGED <<row, cacheVars, missed, torn, moved>>

\* ... and rolls back when a statement or the commit fails.  The caches stay.
Rollback ==
    /\ txn.open
    /\ row' = txn.before
    /\ txn' = Closed(txn.before)
    /\ torn' = torn \cup txn.done
    /\ moved' = txn.moved
    /\ UNCHANGED <<cacheVars, missed>>

\* The process ends and starts again, with empty caches.
ForgetCaches ==
    /\ row' = IF txn.open THEN txn.before ELSE row
    /\ pnToLIDCache' = [pn \in PNs |-> Absent]
    /\ lidToPNCache' = [lid \in LIDs |-> Absent]
    /\ cacheFilled' = FALSE
    /\ missed' = [g \in Getters |-> NoLookup]
    /\ txn' = Closed(row')
    /\ torn' = {} /\ moved' = {}

-----------------------------------------------------------------------------
MapInit ==
    /\ row = [lid \in LIDs |-> Empty]
    /\ pnToLIDCache = [pn \in PNs |-> Absent]
    /\ lidToPNCache = [lid \in LIDs |-> Absent]
    /\ cacheFilled = FALSE
    /\ missed = [g \in Getters |-> NoLookup]
    /\ txn = Closed(row)
    /\ torn = {} /\ moved = {}

MapNext ==
    \/ \E g \in Getters :
          \/ \E user \in PNs \cup LIDs : GetLIDMapping(g, user) \/ QueryOne(g, user)
          \/ \E pns \in SUBSET PNs : GetManyLIDsForPNs(g, pns)
          \/ QueryMany(g)
          \/ QueryFails(g)
    \/ FillCache
    \/ \E batch \in Batches : PutManyLIDMappings(batch)
    \/ UnlockedPutLIDMapping
    \/ Commit
    \/ Rollback
    \/ ForgetCaches

MapSpec == MapInit /\ [][MapNext]_mapVars

-----------------------------------------------------------------------------
\* Type invariant.
MapTypeOK ==
    /\ row \in [LIDs -> PNs \cup {Empty}]
    /\ pnToLIDCache \in [PNs -> LIDs \cup {Empty, Absent}]
    /\ lidToPNCache \in [LIDs -> PNs \cup {Empty, Absent}]
    /\ cacheFilled \in BOOLEAN
    /\ missed \in [Getters -> [many : BOOLEAN, users : SUBSET (PNs \cup LIDs)]]
    /\ txn \in [open : BOOLEAN, todo : Seq(Mapping), done : SUBSET (PNs \cup LIDs),
                before : [LIDs -> PNs \cup {Empty}], moved : SUBSET (PNs \cup LIDs)]
    /\ torn \subseteq PNs \cup LIDs
    /\ moved \subseteq PNs \cup LIDs

\* A phone number has one LID in the table, although its key is the LID alone.
OneLIDPerPN(table) ==
    \A l, k \in LIDs : table[l] \in PNs /\ table[l] = table[k] => l = k

\* A mapping of the table is in both caches or can still be looked up.
Shown(table, exempt) ==
    \A lid \in LIDs, pn \in PNs : table[lid] = pn =>
        /\ pn \notin exempt =>
              pnToLIDCache[pn] = lid \/ (~cacheFilled /\ pnToLIDCache[pn] = Absent)
        /\ lid \notin exempt =>
              lidToPNCache[lid] = pn \/ (~cacheFilled /\ lidToPNCache[lid] = Absent)

\* A mapping of a cache is in the table.
Backed(table, exempt) ==
    /\ \A pn \in PNs \ exempt : pnToLIDCache[pn] \in LIDs => table[pnToLIDCache[pn]] = pn
    /\ \A lid \in LIDs \ exempt : lidToPNCache[lid] \in PNs => table[lid] = lidToPNCache[lid]

RowsShown == Shown(row, torn)
EntriesBacked == Backed(row, torn \cup moved)

\* Whatever lookups, puts, fills and failures interleave, the caches show every mapping of
\* the table, and an entry they have, which ends a lookup and makes PutLIDMapping store
\* nothing, is a mapping of the table.  Two kinds of entries are wrong: those of a put that
\* was rolled back after it had cached its mapping; and, after a put that moved a LID or a
\* phone number, the one of the old phone number or the old LID, until it is cached again.
CachesShowRows == RowsShown /\ EntriesBacked

\* What makes CachesShowRows inductive: the same of the table that a rollback would
\* bring back, for users the transaction has not touched.
TxnInv ==
    txn.open => /\ OneLIDPerPN(txn.before)
                /\ Shown(txn.before, torn \cup txn.done)
                /\ Backed(txn.before, torn \cup txn.done \cup txn.moved)

LIDInv == OneLIDPerPN(row) /\ RowsShown /\ EntriesBacked /\ TxnInv
=============================================================================
