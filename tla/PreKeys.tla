------------------------------- MODULE PreKeys -------------------------------
(***************************************************************************)
(* One-time pre-keys (prekeys.go, store/sqlstore/store.go): generated into *)
(* the database, uploaded in batches, handed out by the server or in a     *)
(* retry receipt, and removed when a message has used them.                *)
(*                                                                         *)
(* Uploads are started by the goroutine of a successful connection and by  *)
(* the server's notification that it is running out, and are made under    *)
(* uploadPreKeysLock.  preKeyLock covers the generation of keys, not their *)
(* removal or marking.  Messages are decrypted one at a time, by the       *)
(* handler queue.  A key id is one more than the largest in the table, so  *)
(* that ids are used again; a key is a number of its own here.             *)
(***************************************************************************)
EXTENDS Integers, FiniteSets

CONSTANTS
    WantedPreKeyCount,
    MinPreKeyCount,
    InitialCount,   \* the first upload: 812
    Connects,       \* goroutines of successful connections
    Notifications,  \* goroutines of notifications that keys run out
    NoKey,
    MaxKeys,        \* bound: keys ever generated
    MaxFaults       \* bound: failed requests and statements, restarts

ASSUME CountAssumption ==
    /\ WantedPreKeyCount \in Nat
    /\ MinPreKeyCount \in Nat \ {0}
    /\ InitialCount \in Nat
    /\ MaxKeys \in Nat
    /\ MaxFaults \in Nat
    /\ MinPreKeyCount <= WantedPreKeyCount
    /\ WantedPreKeyCount <= InitialCount

Keys == 1..MaxKeys
Triggers == Connects \cup Notifications
ASSUME NoKeyAssumption == NoKey \notin Keys

VARIABLES
    made,       \* number of keys generated; the next key is made + 1
    idOf,       \* key -> its id
    rows,       \* keys in whatsmeow_pre_keys
    uploaded,   \* those marked uploaded
    server,     \* keys the server offers
    held,       \* key -> peers that have it and have not used it
    using,      \* the key of the message being decrypted
    pc,         \* trigger -> where it is
    local,      \* trigger -> dbCount, whether the upload is the initial one, the
                \* keys it uploads and the id of the last one
    recent,     \* lastPreKeyUpload is less than ten minutes ago
    unsure,     \* keys the server has been given in an upload that failed all the same
    blind,      \* uploads made although the count was not known
    faults

dbVars == <<made, idOf, rows, uploaded>>
peerVars == <<held, using>>
ghostVars == <<unsure, blind>>
vars == <<made, idOf, rows, uploaded, server, held, using, pc, local, recent,
          unsure, blind, faults>>

Locked == {"count", "read", "generate", "send", "sent"}
LockFree == \A t \in Triggers : pc[t] \notin Locked
NoBatch == [db |-> 0, initial |-> FALSE, keys |-> {}, last |-> 0]

Goto(t, place) == pc' = [pc EXCEPT ![t] = place]
Fault == faults < MaxFaults /\ faults' = faults + 1

-----------------------------------------------------------------------------
(* The table.                                                              *)

\* getNextPreKeyID.
IsNextPreKeyID(id) ==
    /\ \A k \in rows : idOf[k] < id
    /\ id = 1 \/ \E k \in rows : idOf[k] = id - 1

\* genOnePreKey, n times, with ids from the given one on.
GenPreKeys(n, id) ==
    /\ made + n <= MaxKeys
    /\ made' = made + n
    /\ idOf' = [k \in Keys |-> IF k \in made + 1 .. made + n
                               THEN id + (k - made - 1) ELSE idOf[k]]
    /\ rows' = rows \cup (made + 1 .. made + n)

\* getUnuploadedPreKeysQuery: ORDER BY key_id LIMIT n.
UnuploadedPreKeys(n) ==
    LET unuploaded == rows \ uploaded
        before(k) == {j \in unuploaded : idOf[j] < idOf[k]}
    IN  {k \in unuploaded : Cardinality(before(k)) < n}

MarkPreKeysAsUploaded(upTo) ==
    uploaded' = uploaded \cup {k \in rows : idOf[k] <= upTo}

-----------------------------------------------------------------------------
(* Uploading.                                                              *)

\* handleConnectSuccess's goroutine reads the number of uploaded keys ...
Connected(t) ==
    /\ t \in Connects
    /\ pc[t] = "idle"
    /\ Goto(t, "asking")
    /\ local' = [local EXCEPT ![t] = [NoBatch EXCEPT !.db = Cardinality(uploaded)]]
    /\ UNCHANGED <<dbVars, server, peerVars, recent, ghostVars, faults>>

\* ... and asks the server for its own.
ConnectedCounts(t) ==
    /\ pc[t] = "asking"
    /\ LET count == Cardinality(server)
           db == local[t].db
           low == count < MinPreKeyCount \/ db < MinPreKeyCount
       IN  /\ Goto(t, IF low THEN "lock" ELSE "idle")
           /\ local' = [local EXCEPT ![t] =
                  IF low THEN [NoBatch EXCEPT !.initial = (db = 0 /\ count = 0)]
                  ELSE NoBatch]
    /\ UNCHANGED <<dbVars, server, peerVars, recent, ghostVars, faults>>

ConnectedFails(t) ==
    /\ pc[t] = "asking"
    /\ Fault
    /\ Goto(t, "idle")
    /\ local' = [local EXCEPT ![t] = NoBatch]
    /\ UNCHANGED <<dbVars, server, peerVars, recent, ghostVars>>

\* handleEncryptNotification: the server has few keys left.
EncryptNotification(t) ==
    /\ t \in Notifications
    /\ pc[t] = "idle"
    /\ Cardinality(server) < MinPreKeyCount
    /\ Goto(t, "lock")
    /\ UNCHANGED <<dbVars, server, peerVars, local, recent, ghostVars, faults>>

\* Mutant of UploadStarts: no look at the time of the last upload.
UploadStartsUnasked(t) ==
    /\ pc[t] = "lock"
    /\ LockFree
    /\ Goto(t, "read")
    /\ UNCHANGED <<dbVars, server, peerVars, local, recent, ghostVars, faults>>

\* uploadPreKeys takes the lock; after a recent upload it asks first.
UploadStarts(t) ==
    /\ pc[t] = "lock"
    /\ LockFree
    /\ Goto(t, IF recent THEN "count" ELSE "read")
    /\ UNCHANGED <<dbVars, server, peerVars, local, recent, ghostVars, faults>>

\* The upload is cancelled when there are enough keys.
UploadCounts(t) ==
    /\ pc[t] = "count"
    /\ IF Cardinality(server) >= WantedPreKeyCount
       THEN /\ Goto(t, "idle")
            /\ local' = [local EXCEPT ![t] = NoBatch]
       ELSE /\ Goto(t, "read")
            /\ UNCHANGED local
    /\ UNCHANGED <<dbVars, server, peerVars, recent, ghostVars, faults>>

\* The error of the count is ignored, and the count is 0.
UploadCountFails(t) ==
    /\ pc[t] = "count"
    /\ Fault
    /\ Goto(t, "read")
    /\ blind' = blind + 1
    /\ UNCHANGED <<dbVars, server, peerVars, local, recent, unsure>>

Count(t) == IF local[t].initial THEN InitialCount ELSE WantedPreKeyCount

\* GetOrGenPreKeys first reads the keys that are left from a failed upload ...
ReadUnuploaded(t) ==
    /\ pc[t] = "read"
    /\ Goto(t, "generate")
    /\ local' = [local EXCEPT ![t].keys = UnuploadedPreKeys(Count(t))]
    /\ UNCHANGED <<dbVars, server, peerVars, recent, ghostVars, faults>>

\* ... and generates the rest; the last key is the one with the largest id.
GetOrGenPreKeys(t) ==
    /\ pc[t] = "generate"
    /\ LET existing == local[t].keys
           n == Count(t) - Cardinality(existing)
       IN  \/ /\ n = 0
              /\ \E k \in existing :
                    /\ \A j \in existing : idOf[j] <= idOf[k]
                    /\ local' = [local EXCEPT ![t].last = idOf[k]]
              /\ UNCHANGED dbVars
           \/ /\ n > 0
              /\ \E id \in 1..MaxKeys :
                    /\ IsNextPreKeyID(id)
                    /\ GenPreKeys(n, id)
                    /\ local' = [local EXCEPT ![t].last = id + n - 1,
                                              ![t].keys = existing \cup (made + 1 .. made + n)]
              /\ UNCHANGED uploaded
    /\ Goto(t, "send")
    /\ UNCHANGED <<server, peerVars, recent, ghostVars, faults>>

\* A statement fails; the keys generated before it stay.
GenerateFails(t) ==
    /\ pc[t] = "generate"
    /\ Fault
    /\ \E n \in 0 .. Count(t) - Cardinality(local[t].keys), id \in 1..MaxKeys :
          IsNextPreKeyID(id) /\ GenPreKeys(n, id)
    /\ Goto(t, "idle")
    /\ local' = [local EXCEPT ![t] = NoBatch]
    /\ UNCHANGED <<uploaded, server, peerVars, recent, ghostVars>>

\* The server takes the keys; one with the id of another replaces it.
ServerStores(t) ==
    /\ pc[t] = "send"
    /\ Goto(t, "sent")
    /\ LET batch == local[t].keys
           replaced(k) == \E b \in batch : idOf[b] = idOf[k] /\ b > k
       IN  server' = {k \in server \cup batch : ~replaced(k)}
    /\ UNCHANGED <<dbVars, peerVars, local, recent, ghostVars, faults>>

\* The keys of uploads that the server has and the table does not know of.
Unmarked(ts) == UNION {local[t].keys : t \in {u \in ts : pc[u] = "sent"}}

\* The request fails, before or after the server has acted on it, or the keys
\* cannot be marked.
UploadFails(t) ==
    /\ pc[t] \in {"send", "sent"}
    /\ Fault
    /\ Goto(t, "idle")
    /\ local' = [local EXCEPT ![t] = NoBatch]
    /\ unsure' = unsure \cup Unmarked({t})
    /\ UNCHANGED <<dbVars, server, peerVars, recent, blind>>

\* The answer: the keys are marked, and the time is noted.
UploadAnswered(t) ==
    /\ pc[t] = "sent"
    /\ MarkPreKeysAsUploaded(local[t].last)
    /\ recent' = TRUE
    /\ Goto(t, "idle")
    /\ local' = [local EXCEPT ![t] = NoBatch]
    /\ UNCHANGED <<made, idOf, rows, server, peerVars, ghostVars, faults>>

Upload(t) ==
    \/ Connected(t) \/ ConnectedCounts(t) \/ ConnectedFails(t)
    \/ EncryptNotification(t)
    \/ UploadStarts(t) \/ UploadCounts(t) \/ UploadCountFails(t)
    \/ ReadUnuploaded(t) \/ GetOrGenPreKeys(t) \/ GenerateFails(t)
    \/ ServerStores(t) \/ UploadFails(t) \/ UploadAnswered(t)

\* Ten minutes pass; requests time out after 75 seconds, so that no upload and
\* nobody who waits for one is that old.
TimePasses ==
    /\ recent
    /\ \A t \in Triggers : pc[t] = "idle"
    /\ recent' = FALSE
    /\ UNCHANGED <<dbVars, server, peerVars, pc, local, ghostVars, faults>>

-----------------------------------------------------------------------------
(* Peers.                                                                  *)

\* Mutant of GenOnePreKey: the key of a retry receipt is left for the next upload.
GenOneUnmarked(k) == UNCHANGED uploaded

\* GenOnePreKey marks the key: it is never for the server.
GenOnePreKey(k) == uploaded' = uploaded \cup {k}

\* sendRetryReceipt puts a new key in the receipt; the receipt may be lost.
SendRetryReceipt ==
    /\ \A t \in Triggers : pc[t] # "generate"
    /\ \E id \in 1..MaxKeys : IsNextPreKeyID(id) /\ GenPreKeys(1, id)
    /\ GenOnePreKey(made + 1)
    /\ held' \in {held, [held EXCEPT ![made + 1] = 1]}
    /\ UNCHANGED <<server, using, pc, local, recent, ghostVars, faults>>

\* A peer that wants to write asks the server, which gives each key once.
PeerFetches(k) ==
    /\ k \in server
    /\ server' = server \ {k}
    /\ held' = [held EXCEPT ![k] = held[k] + 1]
    /\ UNCHANGED <<dbVars, using, pc, local, recent, ghostVars, faults>>

\* Its first message arrives: the key is looked up by id; without it, or with
\* another, the message cannot be decrypted.
PeerMessage(k) ==
    /\ held[k] > 0
    /\ using = NoKey
    /\ held' = [held EXCEPT ![k] = held[k] - 1]
    /\ using' = IF k \in rows THEN k ELSE NoKey
    /\ UNCHANGED <<dbVars, server, pc, local, recent, ghostVars, faults>>

\* RemovePreKey, by id, once the message is decrypted.
RemovePreKey ==
    /\ using # NoKey
    /\ rows' = {k \in rows : idOf[k] # idOf[using]}
    /\ uploaded' = uploaded \cap rows'
    /\ using' = NoKey
    /\ UNCHANGED <<made, idOf, server, held, pc, local, recent, ghostVars, faults>>

\* The process ends and starts again.
Restart ==
    /\ Fault
    /\ pc' = [t \in Triggers |-> "idle"]
    /\ local' = [t \in Triggers |-> NoBatch]
    /\ using' = NoKey
    /\ recent' = FALSE
    /\ unsure' = unsure \cup Unmarked(Triggers)
    /\ UNCHANGED <<dbVars, server, held, blind>>

-----------------------------------------------------------------------------
Init ==
    /\ made = 0
    /\ idOf = [k \in Keys |-> 0]
    /\ rows = {}
    /\ uploaded = {}
    /\ server = {}
    /\ held = [k \in Keys |-> 0]
    /\ using = NoKey
    /\ pc = [t \in Triggers |-> "idle"]
    /\ local = [t \in Triggers |-> NoBatch]
    /\ recent = FALSE
    /\ unsure = {}
    /\ blind = 0
    /\ faults = 0

Next ==
    \/ \E t \in Triggers : Upload(t)
    \/ TimePasses
    \/ SendRetryReceipt
    \/ \E k \in Keys : PeerFetches(k) \/ PeerMessage(k)
    \/ RemovePreKey
    \/ Restart

Spec == Init /\ [][Next]_vars

-----------------------------------------------------------------------------
TableOK ==
    /\ made \in 0..MaxKeys
    /\ idOf \in [Keys -> Nat]
    /\ rows \in SUBSET (1..made)
    /\ uploaded \in SUBSET rows
    /\ server \in SUBSET (1..made)
    /\ unsure \in SUBSET (1..made)

PeersOK ==
    /\ held \in [Keys -> Nat]
    /\ using \in Keys \cup {NoKey}

UploadsOK ==
    /\ pc \in [Triggers -> {"idle", "asking", "lock"} \cup Locked]
    /\ local \in [Triggers -> [db : Nat, initial : BOOLEAN, keys : SUBSET (1..made), last : Nat]]
    /\ recent \in BOOLEAN
    /\ blind \in Nat
    /\ faults \in 0..MaxFaults

\* Type invariant.
TypeOK == TableOK /\ PeersOK /\ UploadsOK

\* Whoever has a key can write with it: a key that the server offers or a peer has
\* is in the table under its id, and no other peer has it, although ids are used
\* again, uploads are repeated and removals do not take the lock.  The exception
\* is a key whose upload failed on the way back, which is uploaded again.
KeysServable ==
    \A k \in Keys \ unsure :
        /\ k \in server \/ held[k] > 0 => k \in rows
        /\ held[k] + (IF k \in server THEN 1 ELSE 0) + (IF using = k THEN 1 ELSE 0) <= 1

\* The server is never flooded, however connections and notifications race: two
\* uploads in a row leave it with less than two batches, unless the count that
\* should have stopped an upload failed.  Keys that had to be uploaded
\* again do not count: some are used already and stay with the server for nothing.
ServerBounded ==
    Cardinality(server \ unsure) < WantedPreKeyCount + (1 + blind) * InitialCount
=============================================================================
