----------------------------- MODULE AppStateSync -----------------------------
(***************************************************************************)
(* Synchronisation of one app state collection (appstate.go, appstate/,    *)
(* the app state part of store/sqlstore/store.go): FetchAppState under     *)
(* appStateSyncLock, the decoding and storing of snapshots and patches,    *)
(* sendAppState, which takes no lock, the request for missing keys and the *)
(* phone's answer.                                                         *)
(*                                                                         *)
(* A patch is a list of mutations.  A value MAC is the place of the        *)
(* mutation it belongs to, and the LTHash of a collection is the number of *)
(* times each value was added to it: the code adds and subtracts MACs      *)
(* without looking at what is there.  A MAC "verifies" when the hash it    *)
(* was made from is the one computed here.                                 *)
(***************************************************************************)
EXTENDS Integers, Sequences

CONSTANTS
    Indexes,        \* index MACs of the collection
    Keys,           \* app state keys, numbered by their timestamps
    FirstKeys,      \* keys shared when the device was paired
    Updates,        \* what other devices may upload: [muts, key]
    Sends,          \* mutations of the program's patches: SETs of different indexes
    MaxMutations,   \* bound: mutations in a patch
    PageSize,       \* most patches in one answer of the server
    MaxVersion,     \* bound: patches on the server
    MaxSends,       \* bound: calls of SendAppState
    MaxTrouble      \* bound: restarts, failed requests and statements, full syncs on demand

\* The goroutines that fetch: for a notification or after SendAppState, for a key share,
\* and for the program.  Two waiting calls of a kind are one.
Fetchers == {"sync", "share", "user"}
NoOne == "none"
Versions == 1..MaxVersion

Mutations == [op : {"SET", "REMOVE"}, index : Indexes]
MutationLists == UNION {[1..n -> Mutations] : n \in 1..MaxMutations}
Values == Versions \X (1..MaxMutations)
NoValue == <<0, 0>>
Hashes == [Values -> Int]
NoHash == [x \in Values |-> 0]

\* No index is mentioned twice in the list m.
Distinct(m) == \A n, k \in DOMAIN m : m[n].index = m[k].index => n = k
Sets(m) == {n \in DOMAIN m : m[n].op = "SET"}

ASSUME KeyAssumption == Keys \subseteq Nat /\ FirstKeys \subseteq Keys
ASSUME UpdateAssumption ==
    /\ Updates \subseteq [muts : MutationLists, key : Keys]
    /\ Sends \subseteq {m \in MutationLists : Distinct(m) /\ Sets(m) = DOMAIN m}
ASSUME BoundAssumption ==
    /\ MaxMutations \in Nat \ {0}
    /\ MaxVersion \in Nat \ {0}
    /\ MaxSends \in Nat
    /\ MaxTrouble \in Nat
    /\ PageSize \in Nat \ {0}

VARIABLES
    log,        \* the server's patches, each with the collection after it
    notified,   \* the server has a notification for this client
    db,         \* the stored version, hash, mutation MACs and keys
    called,     \* fetcher -> the FetchAppState call it is waiting to start
    holder,     \* the fetcher that holds appStateSyncLock
    f,          \* fetcher -> the local variables of its FetchAppState
    checks,     \* page keys the requestMissingAppStateKeys goroutines look at
    requested,  \* appStateKeyRequests
    asked,      \* keys the phone has been asked for and has not sent
    sender,     \* the local variables of sendAppState
    told,       \* versions whose updates were dispatched as events, since the last full sync
    quiet,      \* last version taken in by a full sync, without events
    ghost       \* what has gone wrong so far

vars == <<log, notified, db, called, holder, f, checks, requested, asked, sender, told, quiet, ghost>>
server == <<log, notified>>
fetching == <<called, holder, f>>
keying == <<checks, requested, asked>>

(***************************************************************************)
(* The collection as the server's patches define it.                       *)
(***************************************************************************)
\* Mutation n of the list m sets the value that index i has after m.
SetLast(m, i, n) ==
    n \in Sets(m) /\ m[n].index = i /\ \A k \in DOMAIN m : k > n => m[k].index # i

\* The collection c after the mutations m of patch v
After(c, v, m) ==
    [i \in Indexes |-> IF \A n \in DOMAIN m : m[n].index # i THEN c[i]
                       ELSE IF \E n \in DOMAIN m : SetLast(m, i, n) THEN <<v, CHOOSE n \in DOMAIN m : SetLast(m, i, n)>>
                       ELSE NoValue]

NoContent == [i \in Indexes |-> NoValue]
Content(v) == IF v = 0 THEN NoContent ELSE log[v].content

HashOf(content) == [x \in Values |-> IF \E i \in Indexes : content[i] = x THEN 1 ELSE 0]

Verifies(v) == log[v].mac = HashOf(Content(v))

NextContent(m) == After(Content(Len(log)), Len(log) + 1, m)

(***************************************************************************)
(* The store.                                                              *)
(***************************************************************************)
NoVersion(d) == [d EXCEPT !.ver = 0, !.hash = NoHash, !.macs = {}]

\* GetAppStateMutationMAC: the value of the highest version, if there is one
LastMAC(macs, i) ==
    LET rows == {r \in macs : r.index = i}
    IN  IF rows = {} THEN NoValue ELSE (CHOOSE r \in rows : \A q \in rows : q.ver <= r.ver).value

PrevMAC(i) == LastMAC(db.macs, i)

\* The value that mutation n of the patch m at version v replaces: that of the last earlier
\* mutation of the same index in m, a REMOVE too, or else the stored one
Previous(m, v, n) ==
    LET earlier == {k \in DOMAIN m : k < n /\ m[k].index = m[n].index}
    IN  IF earlier = {} THEN PrevMAC(m[n].index)
        ELSE <<v, CHOOSE k \in earlier : \A j \in earlier : j <= k>>

UpdateHashAddOnly(hash, v, m) ==
    [x \in Values |-> hash[x] + (IF \E n \in Sets(m) : x = <<v, n>> THEN 1 ELSE 0)]

\* updateHash: subtract the previous values, add the new ones.  No value is the previous
\* one of two mutations: the stored values of two indexes differ.
UpdateHash(hash, v, m) ==
    [x \in Values |-> hash[x] + (IF \E n \in Sets(m) : x = <<v, n>> THEN 1 ELSE 0)
                                - (IF \E n \in DOMAIN m : x = Previous(m, v, n) THEN 1 ELSE 0)]

\* PutAppStateMutationMACs: one transaction, refused by the primary key or the foreign key
PutMACs(d, rows) ==
    IF \/ d.ver = 0
       \/ \E r \in rows, q \in d.macs \cup rows : r # q /\ r.ver = q.ver /\ r.index = q.index
       \/ rows \cap d.macs # {}
      THEN d
      ELSE [d EXCEPT !.macs = d.macs \cup rows]

DeleteMACs(d, removed) == [d EXCEPT !.macs = {r \in d.macs : r.index \notin removed}]

PutKey(d, k) == [d EXCEPT !.keys = d.keys \cup {k}]

Trouble == ghost.faults + ghost.crashes + ghost.resets < MaxTrouble

Fault == Trouble /\ ghost' = [ghost EXCEPT !.faults = ghost.faults + 1]
\* A statement of storeMACs fails: the one that moves the version on, or another.
VersionLost == Trouble /\ ghost' = [ghost EXCEPT !.faults = ghost.faults + 1, !.cut = TRUE, !.behind = TRUE]
MACsLost == Trouble /\ ghost' = [ghost EXCEPT !.faults = ghost.faults + 1, !.cut = TRUE]

(***************************************************************************)
(* FetchAppState.                                                          *)
(***************************************************************************)
NoCall == [on |-> FALSE, full |-> FALSE, onlyIf |-> FALSE]
Call(full, onlyIf) == [on |-> TRUE, full |-> full, onlyIf |-> onlyIf]

NoFetch == [pc |-> "off", full |-> FALSE, want |-> FALSE, ver |-> 0, hash |-> NoHash,
            snap |-> 0, at |-> 0, to |-> 0, more |-> FALSE, mass |-> FALSE, muts |-> <<>>]

Local(p, locals) == f' = [f EXCEPT ![p] = locals]
Return(p) == holder' = NoOne /\ Local(p, NoFetch)

LockFree == holder = NoOne

\* The lock, DeleteAppStateVersion and GetAppStateVersion
FetchStarts(p) ==
    /\ called[p].on
    /\ LockFree
    /\ LET full == called[p].full
           d == IF full THEN NoVersion(db) ELSE db
       IN  /\ db' = d
           /\ called' = [called EXCEPT ![p] = NoCall]
           /\ told' = IF full THEN <<>> ELSE told
           /\ sender' = [sender EXCEPT !.torn = sender.torn \/ (full /\ sender.pc = "encode")]
           /\ IF d.ver > 0 /\ called[p].onlyIf
                THEN UNCHANGED <<holder, f>>
                ELSE /\ holder' = p
                     /\ Local(p, [NoFetch EXCEPT !.pc = "fetch", !.full = (d.ver = 0), !.want = (d.ver = 0),
                                               !.ver = d.ver, !.hash = d.hash])
    /\ UNCHANGED <<server, keying, quiet, ghost>>

\* fetchAppStatePatches: the next patches, after a snapshot when one is wanted
FetchAppStatePatches(p) ==
    /\ f[p].pc = "fetch"
    /\ \E s \in 0..Len(log) :
         /\ s = 0 <=> ~f[p].want \/ Len(log) = 0
         /\ LET base == IF s > 0 THEN s ELSE f[p].ver
            IN  \E to \in base..Len(log) :
                  /\ to - base <= PageSize
                  /\ s = 0 /\ base < Len(log) => base < to
                  /\ Local(p, [f[p] EXCEPT !.pc = "decode", !.want = FALSE, !.snap = s, !.mass = s > 0,
                                         !.at = base + 1, !.to = to, !.more = to < Len(log)])
    /\ UNCHANGED <<server, db, called, holder, keying, sender, told, quiet, ghost>>

FetchFails(p) ==
    /\ f[p].pc = "fetch"
    /\ Fault
    /\ Return(p)
    /\ UNCHANGED <<server, db, called, keying, sender, told, quiet>>

\* Keys the snapshot at version s and its records are encrypted with
Records(s) == {w \in 1..s : \E i \in Indexes : Content(s)[i][1] = w}
SnapshotKeys(s) == {log[w].key : w \in {s} \cup Records(s)}

PageKeys(p) ==
    (IF f[p].snap > 0 THEN SnapshotKeys(f[p].snap) ELSE {}) \cup {log[w].key : w \in f[p].at..f[p].to}

\* DecodePatches returns no mutations with an error, those of stored patches neither
DecodeError(p) ==
    /\ Return(p)
    /\ ghost' = [ghost EXCEPT !.dropped = ghost.dropped \cup {f[p].muts[n] : n \in 1..Len(f[p].muts)}]
    /\ UNCHANGED <<server, db, called, requested, asked, sender, told, quiet>>

\* The versions that the records of the snapshot are from, in any order: no record of a
\* snapshot is dispatched as an event.
Orders(s) ==
    {q \in UNION {[1..n -> Records(s)] : n \in 0..s} :
        /\ \A w \in Records(s) : \E n \in DOMAIN q : q[n] = w
        /\ \A m, n \in DOMAIN q : q[m] = q[n] => m = n}

\* decodeSnapshot
DecodeSnapshot(p) ==
    /\ f[p].pc = "decode" /\ f[p].snap > 0
    /\ LET s == f[p].snap
           hash == [x \in Values |-> f[p].hash[x] + HashOf(Content(s))[x]]
       IN  \/ /\ ~(SnapshotKeys(s) \subseteq db.keys)
              /\ checks' = checks \cup {PageKeys(p)}
              /\ DecodeError(p)
           \/ /\ SnapshotKeys(s) \subseteq db.keys
              /\ log[s].mac # hash
              /\ checks' = checks
              /\ DecodeError(p)
           \/ /\ SnapshotKeys(s) \subseteq db.keys
              /\ log[s].mac = hash
              /\ \E q \in Orders(s) :
                    Local(p, [f[p] EXCEPT !.pc = "putver", !.ver = s, !.hash = hash, !.muts = q])
              /\ UNCHANGED <<server, db, called, holder, keying, sender, told, quiet, ghost>>

\* DecodePatches, for one patch: the hash, the MACs, the mutations
DecodePatch(p) ==
    /\ f[p].pc = "decode" /\ f[p].snap = 0 /\ f[p].at <= f[p].to
    /\ LET m == log[f[p].at]
           hash == UpdateHash(f[p].hash, f[p].at, m.muts)
       IN  \/ /\ m.key \notin db.keys
              /\ checks' = checks \cup {PageKeys(p)}
              /\ DecodeError(p)
           \/ /\ m.key \in db.keys
              /\ m.mac # hash
              /\ checks' = checks
              /\ DecodeError(p)
           \/ /\ m.key \in db.keys
              /\ m.mac = hash
              /\ Local(p, [f[p] EXCEPT !.pc = "putver", !.ver = f[p].at, !.hash = hash,
                         !.muts = IF Sets(m.muts) # {} THEN Append(f[p].muts, f[p].at) ELSE f[p].muts])
              /\ UNCHANGED <<server, db, called, holder, keying, sender, told, quiet, ghost>>

\* storeMACs, first statement; an error is only logged
PutAppStateVersion(p) ==
    /\ f[p].pc = "putver"
    /\ \/ /\ db' = [db EXCEPT !.ver = f[p].ver, !.hash = f[p].hash]
          /\ quiet' = IF f[p].full THEN f[p].ver ELSE quiet
          /\ UNCHANGED ghost
       \/ VersionLost /\ UNCHANGED <<db, quiet>>
    /\ Local(p, [f[p] EXCEPT !.pc = "putmacs"])
    /\ UNCHANGED <<server, called, holder, keying, sender, told>>

SnapshotRowsAll(s) ==
    {[ver |-> s, index |-> i, value |-> Content(s)[i]] : i \in Indexes}

SnapshotRows(s) ==
    {[ver |-> s, index |-> i, value |-> Content(s)[i]] : i \in {j \in Indexes : Content(s)[j] # NoValue}}

\* decodeMutations: RemovedMACs and AddedMACs of the snapshot or patch being stored
RemovedMACsNone(p) == {}

RemovedMACs(p) ==
    LET m == log[f[p].at].muts
    IN  IF f[p].snap > 0 THEN {} ELSE {m[n].index : n \in DOMAIN m \ Sets(m)}

AddedMACs(p) ==
    LET m == log[f[p].at].muts
    IN  IF f[p].snap > 0 THEN SnapshotRows(f[p].snap)
        ELSE {[ver |-> f[p].at, index |-> m[n].index, value |-> <<f[p].at, n>>] : n \in Sets(m)}

StoredMACs(p, d) == PutMACs(DeleteMACs(d, RemovedMACs(p)), AddedMACs(p))

\* The patch being stored mentions an index twice: the row of a value that it sets and then
\* removes is inserted after the deletion, and two rows for one index are refused.
Twice(p) == f[p].snap = 0 /\ ~Distinct(log[f[p].at].muts)

\* storeMACs, the other statements; then the next patch
PutMutationMACs(p) ==
    /\ f[p].pc = "putmacs"
    /\ \/ db' = StoredMACs(p, db) /\ ghost' = [ghost EXCEPT !.cut = ghost.cut \/ Twice(p)]
       \/ MACsLost /\ db' \in {db, DeleteMACs(db, RemovedMACs(p)), PutMACs(db, AddedMACs(p))}
    /\ Local(p, [f[p] EXCEPT !.pc = "decode", !.snap = 0, !.at = IF f[p].snap > 0 THEN f[p].at ELSE f[p].at + 1])
    /\ UNCHANGED <<server, called, holder, keying, sender, told, quiet>>

PageDecoded(p) == f[p].pc = "decode" /\ f[p].snap = 0 /\ f[p].at > f[p].to

DispatchEvtsLastPage(p) == ~f[p].full /\ ~f[p].more

DispatchEvts(p) == ~f[p].full

NextPageKeepsMutations(l) == [l EXCEPT !.pc = "fetch"]

NextPage(l) == [l EXCEPT !.pc = "fetch", !.muts = <<>>]

\* dispatchAppState for the mutations of the page, then the next page or the end
DispatchAppState(p) ==
    /\ PageDecoded(p)
    /\ told' = IF DispatchEvts(p) THEN told \o f[p].muts ELSE told
    /\ IF f[p].more
         THEN Local(p, NextPage(f[p])) /\ UNCHANGED holder
         ELSE Return(p)
    /\ UNCHANGED <<server, db, called, keying, sender, quiet, ghost>>

\* PutAllContactNames, the mass insert of a snapshot's contacts.  The full sync before it
\* has counted as trouble already.
ContactsFail(p) ==
    /\ PageDecoded(p) /\ f[p].mass
    /\ ghost' = [ghost EXCEPT !.faults = ghost.faults + 1]
    /\ Return(p)
    /\ UNCHANGED <<server, db, called, keying, sender, told, quiet>>

(***************************************************************************)
(* The callers of FetchAppState.                                           *)
(***************************************************************************)
Calls(p, full, onlyIf) ==
    /\ called[p] \in {NoCall, Call(full, onlyIf)}
    /\ called' = [called EXCEPT ![p] = Call(full, onlyIf)]

\* handleAppStateNotification
HandleAppStateNotification ==
    /\ notified
    /\ notified' = FALSE
    /\ Calls("sync", FALSE, FALSE)
    /\ UNCHANGED <<log, db, holder, f, keying, sender, told, quiet, ghost>>

\* FetchAppState called by the program with fullSync
UserFullSync ==
    /\ Trouble
    /\ ghost' = [ghost EXCEPT !.resets = ghost.resets + 1]
    /\ Calls("user", TRUE, FALSE)
    /\ UNCHANGED <<server, db, holder, f, keying, sender, told, quiet>>

\* requestMissingAppStateKeys and requestAppStateKeys; a repetition needs 24 hours
RequestMissingAppStateKeys(ks) ==
    /\ ks \in checks
    /\ checks' = checks \ {ks}
    /\ \E again \in BOOLEAN :
         LET missing == ks \ db.keys
             filtered == IF again THEN missing ELSE missing \ requested
         IN  /\ requested' = requested \cup filtered
             /\ \/ asked' = asked \cup filtered /\ UNCHANGED ghost
                \/ filtered # {} /\ Fault /\ UNCHANGED asked
    /\ UNCHANGED <<server, db, fetching, sender, told, quiet>>

IsReRequestNever(k) == FALSE

IsReRequest(k) == k \in requested

\* handleAppStateSyncKeyShare
HandleAppStateSyncKeyShare(k) ==
    /\ Calls("share", FALSE, ~IsReRequest(k))
    /\ \/ db' = PutKey(db, k) /\ ghost' = [ghost EXCEPT !.missed = ghost.missed \/ (k \notin requested /\ \E ks \in checks : k \in ks)]
       \/ Fault /\ UNCHANGED db
    /\ asked' = asked \ {k}
    /\ UNCHANGED <<server, holder, f, checks, requested, sender, told, quiet>>

PhoneAnswers(k) == k \in asked /\ HandleAppStateSyncKeyShare(k)
PhoneShares(k) == k \notin db.keys /\ HandleAppStateSyncKeyShare(k)

(***************************************************************************)
(* sendAppState: version and hash, the MAC, the request, with no lock.     *)
(***************************************************************************)
NoSend(n) == [pc |-> "off", ver |-> 0, muts |-> <<>>, key |-> 0, hash |-> NoHash, torn |-> FALSE, n |-> n]

Storing == \E p \in Fetchers : f[p].pc = "putmacs"

SendReads(m) ==
    /\ sender.pc = "off" /\ sender.n < MaxSends
    /\ db.ver < MaxVersion
    /\ \E latest \in db.keys :
         /\ \A k \in db.keys : k <= latest
         /\ sender' = [pc |-> "encode", ver |-> db.ver, muts |-> m, key |-> latest, hash |-> db.hash,
                       torn |-> Storing \/ ghost.cut, n |-> sender.n + 1]
    /\ UNCHANGED <<server, db, fetching, keying, told, quiet, ghost>>

\* EncodePatch: the previous MACs are read now, all of them from the store
EncodedHash == UpdateHash(sender.hash, sender.ver + 1, sender.muts)

BaseIsCurrent == sender.ver = Len(log)

\* Nothing read here changes after EncodePatch, and the server accepts only what is
\* still based on its last version: encoding and acceptance are one step.
SendAppState ==
    /\ sender.pc = "encode"
    /\ BaseIsCurrent
    /\ log' = Append(log, [muts |-> sender.muts, key |-> sender.key, mac |-> EncodedHash, torn |-> sender.torn,
                           content |-> NextContent(sender.muts)])
    /\ sender' = NoSend(sender.n)
    /\ \/ Calls("sync", FALSE, FALSE) /\ UNCHANGED ghost
       \/ Fault /\ UNCHANGED called
    /\ UNCHANGED <<notified, db, holder, f, keying, told, quiet>>

\* ErrAppStateUpdate: another device was first
SendRefused ==
    /\ sender.pc = "encode"
    /\ ~BaseIsCurrent
    /\ sender' = NoSend(sender.n)
    /\ UNCHANGED <<server, db, fetching, keying, told, quiet, ghost>>

(***************************************************************************)
(* The other devices and the end of the process.                           *)
(***************************************************************************)
OtherDevice(u) ==
    /\ Len(log) < MaxVersion
    /\ \A v \in 1..Len(log) : Verifies(v)
    /\ log' = Append(log, [muts |-> u.muts, key |-> u.key, mac |-> HashOf(NextContent(u.muts)), torn |-> FALSE,
                           content |-> NextContent(u.muts)])
    /\ notified' = TRUE
    /\ UNCHANGED <<db, fetching, keying, sender, told, quiet, ghost>>

\* The process may end between the deletion and the insertion of MACs.
Crash ==
    /\ Trouble
    /\ \/ UNCHANGED db
       \/ \E p \in Fetchers : f[p].pc = "putmacs" /\ db' = DeleteMACs(db, RemovedMACs(p))
    /\ ghost' = [ghost EXCEPT !.crashes = ghost.crashes + 1, !.cut = ghost.cut \/ Storing]
    /\ called' = [p \in Fetchers |-> NoCall]
    /\ holder' = NoOne /\ f' = [p \in Fetchers |-> NoFetch]
    /\ checks' = {} /\ requested' = {}
    /\ sender' = NoSend(sender.n)
    /\ UNCHANGED <<server, asked, told, quiet>>

\* The device is paired, the first keys have been shared and version 1 is stored.
Init ==
    /\ \E m \in Sends, k \in FirstKeys :
         LET content == After(NoContent, 1, m)
             hash == HashOf(content)
         IN  /\ log = <<[muts |-> m, key |-> k, mac |-> hash, torn |-> FALSE, content |-> content]>>
             /\ db = [ver |-> 1, hash |-> hash, keys |-> FirstKeys,
                      macs |-> {[ver |-> 1, index |-> m[n].index, value |-> <<1, n>>] : n \in DOMAIN m}]
    /\ quiet = db.ver
    /\ notified = FALSE
    /\ called = [p \in Fetchers |-> NoCall]
    /\ holder = NoOne /\ f = [p \in Fetchers |-> NoFetch]
    /\ checks = {} /\ requested = {} /\ asked = {}
    /\ sender = NoSend(0)
    /\ told = <<>>
    /\ ghost = [faults |-> 0, crashes |-> 0, resets |-> 0, cut |-> FALSE, behind |-> FALSE,
                missed |-> FALSE, dropped |-> {}]

Fetching ==
    \E p \in Fetchers :
        \/ FetchStarts(p)
        \/ FetchAppStatePatches(p) \/ DecodeSnapshot(p) \/ DecodePatch(p)
        \/ PutAppStateVersion(p) \/ PutMutationMACs(p)
        \/ DispatchAppState(p)

RequestsKeys == \E ks \in checks : RequestMissingAppStateKeys(ks)
PhoneReplies == \E k \in asked : PhoneAnswers(k)
Sending == SendAppState \/ SendRefused

Environment ==
    \/ \E p \in Fetchers : FetchFails(p) \/ ContactsFail(p)
    \/ UserFullSync
    \/ \E k \in Keys : PhoneShares(k)
    \/ \E m \in Sends : SendReads(m)
    \/ \E u \in Updates : OtherDevice(u)
    \/ Crash

Next == Fetching \/ HandleAppStateNotification \/ RequestsKeys \/ PhoneReplies \/ Sending \/ Environment

Spec == Init /\ [][Next]_vars

\* Goroutines run, requests are answered, and the phone answers a key request.
FairSpec ==
    /\ Spec
    /\ WF_vars(Fetching) /\ WF_vars(HandleAppStateNotification)
    /\ WF_vars(RequestsKeys) /\ WF_vars(PhoneReplies) /\ WF_vars(Sending)

(***************************************************************************)
(* Properties.                                                             *)
(***************************************************************************)
Patches == [muts : MutationLists, key : Keys, mac : Hashes, torn : BOOLEAN,
            content : [Indexes -> Values \cup {NoValue}]]
Rows == [ver : Versions, index : Indexes, value : Values]

Locals == [pc : {"off", "fetch", "decode", "putver", "putmacs"}, full : BOOLEAN, want : BOOLEAN,
           ver : 0..Len(log), hash : Hashes, snap : 0..Len(log), at : 0..(Len(log) + 1),
           to : 0..Len(log), more : BOOLEAN, mass : BOOLEAN, muts : Seq(Versions)]

ServerTypes == log \in Seq(Patches) /\ Len(log) <= MaxVersion /\ notified \in BOOLEAN
StoreTypes == db \in [ver : 0..Len(log), hash : Hashes, macs : SUBSET Rows, keys : SUBSET Keys]
FetchTypes ==
    /\ called \in [Fetchers -> [on : BOOLEAN, full : BOOLEAN, onlyIf : BOOLEAN]]
    /\ holder \in Fetchers \cup {NoOne}
    /\ f \in [Fetchers -> Locals]
KeyTypes == checks \in SUBSET SUBSET Keys /\ requested \subseteq Keys /\ asked \subseteq Keys
SendTypes ==
    sender \in [pc : {"off", "encode"}, ver : 0..MaxVersion, muts : Sends \cup {<<>>},
                key : Keys \cup {0}, hash : Hashes, torn : BOOLEAN, n : 0..MaxSends]
EventTypes ==
    /\ told \in Seq(Versions)
    /\ quiet \in 0..MaxVersion
    /\ ghost \in [faults : Nat, crashes : 0..MaxTrouble, resets : 0..MaxTrouble,
                  cut : BOOLEAN, behind : BOOLEAN, missed : BOOLEAN, dropped : SUBSET Versions]

\* The types of the variables: no version beyond the server's, and no stored row without a value.
TypeOK == ServerTypes /\ StoreTypes /\ FetchTypes /\ KeyTypes /\ SendTypes /\ EventTypes

\* The stored version, hash and mutation MACs describe one and the same version of the
\* server's collection whenever storeMACs is not between its statements, whatever patch a
\* fetch failed or was killed at - unless a statement of storeMACs failed or was cut off, or a
\* stored patch mentioned one index twice: then storeMACs leaves other rows than the patch does.
InStep ==
    ~Storing /\ ~ghost.cut =>
        /\ db.hash = HashOf(Content(db.ver))
        /\ \A i \in Indexes : PrevMAC(i) = Content(db.ver)[i]

\* A patch sendAppState uploads carries the MAC of the collection it makes, although version
\* and MACs are read without the lock: the server refuses it when the collection has moved.
\* The exceptions are a version read between the statements of storeMACs, or before a full sync,
\* and a store that is out of step already (see InStep).
UploadsVerify == \A v \in 1..Len(log) : Verifies(v) \/ log[v].torn

\* FetchAppState dispatches every update at most once and in the order of the versions,
\* however many fetches overlap or fail half way.  The exception is a failed
\* PutAppStateVersion, whose error is only logged: the updates are dispatched, and fetched
\* again from the version that is still stored.
EventsInOrder == ghost.behind \/ \A a, b \in 1..Len(told) : a < b => told[a] < told[b]

\* Patch v mentions an index again after removing it.
AfterRemove(v) ==
    \E n, k \in DOMAIN log[v].muts :
        n < k /\ log[v].muts[n] = [op |-> "REMOVE", index |-> log[v].muts[k].index]

Excused ==
    \/ ghost.faults > 0 \/ ghost.crashes > 0 \/ ghost.cut
    \/ \E v \in 1..Len(log) : AfterRemove(v)
    \/ ghost.missed
    \/ \E v \in 1..Len(log) : ~Verifies(v)

\* The client catches up with the server again and again: every update is fetched, if
\* need be after asking the phone for its key.  Failed requests and restarts are not
\* repaired; nor is a key that the phone shares of its own accord after a fetch missed it
\* and before requestMissingAppStateKeys has noted it: the share does not count as an
\* answer and starts no fetch.  Nor are a store that is out of step (see InStep) and a patch
\* that mentions an index after removing it: the previous value is then taken to be that of
\* the REMOVE, which was never added, and the hash cannot be verified.
EventuallySynced == []<>(db.ver = Len(log) \/ Excused)

\* The resync after SendAppState and every other fetch "send events for the updates"
\* (appstate.go:354): once no fetch is running, every update stored outside a full sync has
\* been dispatched, over all pages and interrupted fetches.  The exception is an update of a
\* page whose later patch could not be decoded: it is stored, and its mutation thrown away.
EventsForUpdates ==
    holder = NoOne /\ ghost.faults = 0 /\ ghost.crashes = 0 =>
        \A v \in (quiet + 1)..db.ver :
            Sets(log[v].muts) # {} => v \in ghost.dropped \/ \E n \in 1..Len(told) : told[n] = v
=============================================================================
