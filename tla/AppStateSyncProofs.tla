------------------------- MODULE AppStateSyncProofs --------------------------
(***************************************************************************)
(* Proofs about AppStateSync, for any indexes, keys, page sizes, patches   *)
(* of any mutations and any number of uploads and faults: the store stays  *)
(* in step with the collection, uploads carry the right MAC, and every     *)
(* update is dispatched once and in order.                                 *)
(***************************************************************************)
EXTENDS AppStateSync, TLAPS

(***************************************************************************)
(* The inductive invariant.                                                *)
(***************************************************************************)

\* The lock: one fetch at a time.
LockInv == \A p \in Fetchers : f[p].pc # "off" <=> holder = p

Working(p) == f[p].pc # "off"

\* Where a fetch is in the page it decodes.
Place(p) ==
    /\ f[p].want => f[p].pc = "fetch" /\ f[p].full /\ f[p].ver = 0
    /\ f[p].snap > 0 => f[p].full /\ f[p].pc \in {"decode", "putver", "putmacs"} /\ f[p].at = f[p].snap + 1
    /\ f[p].pc = "decode" => f[p].ver = IF f[p].snap > 0 THEN 0 ELSE f[p].at - 1
    /\ f[p].pc \in {"putver", "putmacs"} => f[p].ver = IF f[p].snap > 0 THEN f[p].snap ELSE f[p].at
    /\ f[p].pc \in {"putver", "putmacs"} => f[p].ver > 0

PlaceInv == Len(log) > 0 /\ \A p \in Fetchers : Place(p)

\* The version before the one that a fetch is storing.
Before(p) == IF f[p].snap > 0 THEN 0 ELSE f[p].at - 1

\* The stored version is the one of the fetch, unless PutAppStateVersion has failed.
Level(p) ==
    /\ db.ver <= f[p].ver
    /\ ~ghost.behind => db.ver = IF f[p].pc = "putver" THEN Before(p) ELSE f[p].ver

VersionInv ==
    /\ \A p \in Fetchers : Working(p) => Level(p)
    /\ ghost.behind => ghost.cut /\ ghost.faults > 0

\* Version v of the collection of the patches l.
ContentOf(l, v) == IF v = 0 THEN NoContent ELSE l[v].content

\* The stored MACs are those of version v: the newest row of an index has its value, and
\* an index without a value has no row.
RowsOf(macs, i) == {r \in macs : r.index = i}
Stored(macs, content, v) ==
    /\ \A r \in macs : r.ver <= v
    /\ \A i \in Indexes : content[i] = NoValue => RowsOf(macs, i) = {}
    /\ \A i \in Indexes : content[i] # NoValue =>
          \E r \in RowsOf(macs, i) : /\ r.value = content[i]
                                     /\ \A q \in RowsOf(macs, i) : q # r => q.ver < r.ver
MACsAre(v) == Stored(db.macs, ContentOf(log, v), v)

\* The value of an index in the content c of version v is that of a mutation of the index.
Owned(l, c, v) ==
    \A i \in Indexes : c[i] = NoValue \/ (/\ c[i] \in Values /\ c[i][1] <= v
                                          /\ c[i][2] \in DOMAIN l[c[i][1]].muts
                                          /\ l[c[i][1]].muts[c[i][2]].index = i)

\* The collection, version by version: every patch makes the next one, and only this client's
\* uploads are torn.
CollectionInv ==
    \A v \in 1..Len(log) :
        /\ log[v].content = After(ContentOf(log, v - 1), v, log[v].muts)
        /\ Owned(log, log[v].content, v)
        /\ log[v].torn => Distinct(log[v].muts)

\* No statement of storeMACs has been lost.
StepInv ==
    ~ghost.cut =>
        /\ db.hash = HashOf(ContentOf(log, db.ver))
        /\ ~Storing => MACsAre(db.ver)
        /\ \A p \in Fetchers : Working(p) => f[p].hash = HashOf(ContentOf(log, f[p].ver))
        /\ \A p \in Fetchers : f[p].pc = "putmacs" => MACsAre(Before(p))

\* An upload that is not torn: if no other device was first, nothing that it is based on
\* has changed.
SendInv ==
    sender.pc = "encode" =>
        /\ sender.muts \in Sends /\ sender.key \in Keys
        /\ sender.ver < MaxVersion /\ sender.ver <= Len(log)
        /\ ~sender.torn =>
              /\ sender.hash = HashOf(ContentOf(log, sender.ver))
              /\ sender.ver = Len(log) => /\ ~ghost.cut /\ db.ver = Len(log)
                                          /\ \A p \in Fetchers : f[p].pc \notin {"putver", "putmacs"}

Sorted(q) == \A a, b \in 1..Len(q) : a < b => q[a] < q[b]
AtMost(q, v) == \A a \in 1..Len(q) : q[a] <= v
Has(q, v) == \E a \in 1..Len(q) : q[a] = v
Under(s, t) == \A a \in 1..Len(s), b \in 1..Len(t) : s[a] < t[b]

\* The updates that a fetch has decoded come after those that were dispatched.
OrderInv ==
    ~ghost.behind =>
        /\ Sorted(told) /\ AtMost(told, db.ver)
        /\ \A p \in Fetchers : Working(p) /\ ~f[p].full =>
              Sorted(f[p].muts) /\ AtMost(f[p].muts, f[p].ver) /\ Under(told, f[p].muts)

\* A stored update was dispatched, thrown away with its page, or is about to be dispatched.
Known(v) ==
    \/ v \in ghost.dropped
    \/ Has(told, v)
    \/ \E p \in Fetchers : Working(p) /\ ~f[p].full /\ Has(f[p].muts, v)

TellInv ==
    /\ \A p \in Fetchers : Working(p) /\ f[p].full => db.ver <= quiet
    /\ \A p \in Fetchers : f[p].pc \in {"putver", "putmacs"} /\ ~f[p].full /\ Sets(log[f[p].ver].muts) # {}
          => Has(f[p].muts, f[p].ver)
    /\ ghost.faults = 0 /\ ghost.crashes = 0 =>
          \A v \in (quiet + 1)..db.ver : Sets(log[v].muts) # {} => Known(v)

SyncInv == TypeOK /\ CollectionInv /\ LockInv /\ PlaceInv /\ VersionInv /\ StepInv /\ SendInv /\ UploadsVerify
              /\ OrderInv /\ TellInv

(***************************************************************************)
(* The content of the collection, version by version.                      *)
(***************************************************************************)
LEMMA ContentIs == \A v : Content(v) = ContentOf(log, v)
BY DEF Content, ContentOf

LEMMA ListTypes ==
    ASSUME NEW m \in MutationLists
    PROVE  /\ DOMAIN m \subseteq 1..MaxMutations /\ DOMAIN m \subseteq Nat
           /\ \A n \in DOMAIN m : m[n].op \in {"SET", "REMOVE"} /\ m[n].index \in Indexes
           /\ Sets(m) \subseteq DOMAIN m
<1>1. PICK n \in 1..MaxMutations : m \in [1..n -> Mutations]
      BY DEF MutationLists
<1>2. DOMAIN m = 1..n /\ n \in Nat /\ n <= MaxMutations
      BY <1>1, BoundAssumption
<1>3. \A k \in DOMAIN m : m[k] \in Mutations
      BY <1>1, <1>2
<1> QED BY <1>2, <1>3, BoundAssumption DEF Mutations, Sets

LEMMA ValueIs ==
    /\ \A v \in Versions, n \in 1..MaxMutations : <<v, n>> \in Values
    /\ \A x \in Values : x[1] \in Versions /\ x[1] \in Nat /\ x # NoValue
    /\ NoValue \notin Values
BY BoundAssumption DEF Values, NoValue, Versions

\* What a patch leaves alone, and where it leaves a value or none.
LEMMA AfterIs ==
    ASSUME NEW c, NEW v, NEW m \in MutationLists, NEW i \in Indexes
    PROVE  /\ (\A n \in DOMAIN m : m[n].index # i) => After(c, v, m)[i] = c[i]
           /\ (\E n \in DOMAIN m : m[n].index = i) =>
                 \/ After(c, v, m)[i] = NoValue
                 \/ \E n \in DOMAIN m : m[n].index = i /\ After(c, v, m)[i] = <<v, n>>
<1>1. CASE \A n \in DOMAIN m : m[n].index # i
      BY <1>1 DEF After
<1>2. CASE ~\A n \in DOMAIN m : m[n].index # i
  <2>1. CASE \E n \in DOMAIN m : SetLast(m, i, n)
    <3>1. PICK n \in DOMAIN m : SetLast(m, i, n) /\ n = CHOOSE k \in DOMAIN m : SetLast(m, i, k)
          BY <2>1
    <3>2. After(c, v, m)[i] = <<v, n>>
          BY <1>2, <2>1, <3>1 DEF After
    <3> QED BY <1>2, <3>1, <3>2 DEF SetLast
  <2>2. CASE ~\E n \in DOMAIN m : SetLast(m, i, n)
        BY <1>2, <2>2 DEF After
  <2> QED BY <2>1, <2>2
<1> QED BY <1>1, <1>2

LEMMA AfterTypes ==
    ASSUME NEW c \in [Indexes -> Values \cup {NoValue}], NEW v \in Versions, NEW m \in MutationLists
    PROVE  After(c, v, m) \in [Indexes -> Values \cup {NoValue}]
<1>1. ASSUME NEW i \in Indexes
      PROVE  After(c, v, m)[i] \in Values \cup {NoValue}
  <2>1. \A n \in DOMAIN m : <<v, n>> \in Values
        BY ListTypes, ValueIs
  <2>2. CASE \A n \in DOMAIN m : m[n].index # i
        BY <2>2, AfterIs
  <2>3. CASE \E n \in DOMAIN m : m[n].index = i
    <3>1. After(c, v, m)[i] = NoValue \/ \E n \in DOMAIN m : After(c, v, m)[i] = <<v, n>>
          BY <2>3, AfterIs
    <3> QED BY <2>1, <3>1
  <2> QED BY <2>2, <2>3
<1>2. After(c, v, m) = [i \in Indexes |-> After(c, v, m)[i]]
      BY DEF After
<1> QED BY <1>1, <1>2

\* A patch that mentions no index twice.
LEMMA AfterDistinct ==
    ASSUME NEW c, NEW v, NEW m \in MutationLists, Distinct(m), NEW n \in DOMAIN m
    PROVE  /\ n \in Sets(m) => After(c, v, m)[m[n].index] = <<v, n>>
           /\ n \notin Sets(m) => After(c, v, m)[m[n].index] = NoValue
<1>1. PICK i \in Indexes : i = m[n].index
      BY ListTypes
<1>2. \A k \in DOMAIN m : m[k].index = i => k = n
      BY <1>1 DEF Distinct
<1>3. CASE n \in Sets(m)
  <2>1. SetLast(m, i, n) /\ \A k \in DOMAIN m : SetLast(m, i, k) => k = n
    <3>1. DOMAIN m \subseteq Nat
          BY ListTypes
    <3> QED BY <1>1, <1>2, <1>3, <3>1 DEF SetLast
  <2>2. (CHOOSE k \in DOMAIN m : SetLast(m, i, k)) = n
        BY <2>1
  <2>4. ~\A k \in DOMAIN m : m[k].index # i
        BY <1>1
  <2>5. After(c, v, m)[i] = <<v, CHOOSE k \in DOMAIN m : SetLast(m, i, k)>>
        BY <2>1, <2>4 DEF After
  <2>3. After(c, v, m)[i] = <<v, n>>
        BY <2>2, <2>5
  <2> QED BY <1>1, <1>3, <2>3
<1>4. CASE n \notin Sets(m)
  <2>1. ~\E k \in DOMAIN m : SetLast(m, i, k)
        BY <1>2, <1>4 DEF SetLast
  <2>2. After(c, v, m)[i] = NoValue
        BY <1>1, <2>1 DEF After
  <2> QED BY <1>1, <1>4, <2>2
<1> QED BY <1>3, <1>4

LEMMA HashTypes ==
    /\ NoHash \in Hashes
    /\ \A c : HashOf(c) \in Hashes
    /\ HashOf(NoContent) = NoHash
<1>1. HashOf(NoContent) = NoHash
  <2>1. \A x \in Values : ~\E i \in Indexes : NoContent[i] = x
        BY ValueIs DEF NoContent
  <2> QED BY <2>1 DEF HashOf, NoHash
<1> QED BY <1>1 DEF NoHash, HashOf, Hashes

\* No two indexes have the same value.
LEMMA OwnedDistinct ==
    ASSUME NEW l, NEW c, NEW v, Owned(l, c, v), NEW i \in Indexes, NEW j \in Indexes, c[i] = c[j], c[i] # NoValue
    PROVE  i = j
BY DEF Owned

(***************************************************************************)
(* The hash and the stored MACs, one patch at a time.                      *)
(***************************************************************************)

\* updateHash makes the hash of the next version when it finds the values of this one.
LEMMA HashStep ==
    ASSUME NEW c, NEW d, NEW v \in Nat, v + 1 \in Versions, NEW m \in MutationLists, Distinct(m),
           NEW l, Owned(l, c, v), d = After(c, v + 1, m), \A i \in Indexes : PrevMAC(i) = c[i]
    PROVE  UpdateHash(HashOf(c), v + 1, m) = HashOf(d)
<1>1. \A n \in DOMAIN m : Previous(m, v + 1, n) = c[m[n].index]
  <2> SUFFICES ASSUME NEW n \in DOMAIN m
               PROVE  Previous(m, v + 1, n) = c[m[n].index]
      OBVIOUS
  <2>1. {k \in DOMAIN m : k < n /\ m[k].index = m[n].index} = {}
    <3>1. DOMAIN m \subseteq Nat
          BY ListTypes
    <3>2. \A k \in DOMAIN m : m[k].index = m[n].index => ~(k < n)
          BY <3>1 DEF Distinct
    <3> QED BY <3>2
  <2>2. m[n].index \in Indexes
        BY ListTypes
  <2> QED BY <2>1, <2>2 DEF Previous
<1> DEFINE New(x) == \E n \in Sets(m) : x = <<v + 1, n>>
           Old(x) == \E n \in DOMAIN m : x = c[m[n].index]
           InC(x) == \E i \in Indexes : c[i] = x
           InD(x) == \E i \in Indexes : d[i] = x
<1>2. ASSUME NEW x \in Values
      PROVE  /\ Old(x) => InC(x) /\ ~InD(x) /\ ~New(x)
             /\ New(x) => InD(x) /\ ~InC(x) /\ ~Old(x)
             /\ ~Old(x) /\ ~New(x) => (InC(x) <=> InD(x))
  <2>0. v + 1 \in Nat /\ x # NoValue /\ DOMAIN m \subseteq 1..MaxMutations /\ Sets(m) \subseteq DOMAIN m
        BY ValueIs, ListTypes
  <2>1. \A i \in Indexes : c[i] = x => x[1] <= v
        BY <2>0 DEF Owned
  <2>2. \A n : x = <<v + 1, n>> => ~InC(x)
        BY <2>0, <2>1
  <2>3. \A n \in DOMAIN m : m[n].index \in Indexes
        BY ListTypes
  <2>4. \A n \in DOMAIN m : /\ n \in Sets(m) => d[m[n].index] = <<v + 1, n>>
                            /\ n \notin Sets(m) => d[m[n].index] = NoValue
        BY AfterDistinct
  <2>5. \A i \in Indexes : (\A n \in DOMAIN m : m[n].index # i) => d[i] = c[i]
        BY AfterIs
  <2>6. ASSUME Old(x)
        PROVE  InC(x) /\ ~InD(x) /\ ~New(x)
    <3>1. PICK n \in DOMAIN m : x = c[m[n].index]
          BY <2>6
    <3>2. InC(x)
          BY <2>3, <3>1
    <3>3. ~New(x)
          BY <2>2, <3>2
    <3>4. ASSUME NEW j \in Indexes, d[j] = x
          PROVE  FALSE
      <4>1. CASE \E k \in DOMAIN m : m[k].index = j
        <5>1. PICK k \in DOMAIN m : m[k].index = j
              BY <4>1
        <5> QED BY <5>1, <2>0, <2>4, <3>3, <3>4
      <4>2. CASE \A k \in DOMAIN m : m[k].index # j
        <5>1. c[j] = x
              BY <4>2, <2>5, <3>4
        <5>2. j = m[n].index
              BY <5>1, <3>1, <2>0, <2>3, OwnedDistinct
        <5> QED BY <5>2, <4>2
      <4> QED BY <4>1, <4>2
    <3> QED BY <3>2, <3>3, <3>4
  <2>7. ASSUME New(x)
        PROVE  InD(x) /\ ~InC(x) /\ ~Old(x)
    <3>1. PICK n \in Sets(m) : x = <<v + 1, n>>
          BY <2>7
    <3>2. ~InC(x)
          BY <2>2, <3>1
    <3>3. InD(x)
          BY <2>0, <2>3, <2>4, <3>1
    <3> QED BY <3>2, <3>3, <2>3
  <2>8. ASSUME ~Old(x), ~New(x)
        PROVE  InC(x) <=> InD(x)
    <3>1. ASSUME NEW j \in Indexes, c[j] = x
          PROVE  d[j] = x
      <4>1. \A k \in DOMAIN m : m[k].index # j
            BY <2>8, <3>1
      <4> QED BY <4>1, <2>5, <3>1
    <3>2. ASSUME NEW j \in Indexes, d[j] = x
          PROVE  c[j] = x
      <4>1. \A k \in DOMAIN m : m[k].index # j
            BY <2>0, <2>4, <2>8, <3>2
      <4> QED BY <4>1, <2>5, <3>2
    <3> QED BY <3>1, <3>2
  <2> QED BY <2>6, <2>7, <2>8
<1>3. ASSUME NEW x \in Values
      PROVE  HashOf(c)[x] + (IF New(x) THEN 1 ELSE 0) - (IF Old(x) THEN 1 ELSE 0) = HashOf(d)[x]
  <2>1. HashOf(c)[x] = (IF InC(x) THEN 1 ELSE 0) /\ HashOf(d)[x] = (IF InD(x) THEN 1 ELSE 0)
        BY DEF HashOf
  <2>2. /\ Old(x) => InC(x) /\ ~InD(x) /\ ~New(x)
        /\ New(x) => InD(x) /\ ~InC(x) /\ ~Old(x)
        /\ ~Old(x) /\ ~New(x) => (InC(x) <=> InD(x))
        BY <1>2
  <2> HIDE DEF Old, New, InC, InD
  <2> QED BY <2>1, <2>2
<1>4. ASSUME NEW x \in Values
      PROVE  (\E n \in DOMAIN m : x = Previous(m, v + 1, n)) <=> Old(x)
      BY <1>1
<1>5. ASSUME NEW x \in Values
      PROVE  UpdateHash(HashOf(c), v + 1, m)[x] = HashOf(d)[x]
  <2>1. UpdateHash(HashOf(c), v + 1, m)[x] =
          HashOf(c)[x] + (IF New(x) THEN 1 ELSE 0) - (IF \E n \in DOMAIN m : x = Previous(m, v + 1, n) THEN 1 ELSE 0)
        BY DEF UpdateHash
  <2> HIDE DEF New, Old
  <2>2. (IF \E n \in DOMAIN m : x = Previous(m, v + 1, n) THEN 1 ELSE 0) = (IF Old(x) THEN 1 ELSE 0)
        BY <1>4
  <2> QED BY <2>1, <2>2, <1>3
<1> QED BY <1>5 DEF UpdateHash, HashOf

\* GetAppStateMutationMAC finds the value of the stored version.
LEMMA FindsLastMAC ==
    ASSUME NEW macs \in SUBSET Rows, NEW c, NEW v, NEW i \in Indexes, Stored(macs, c, v)
    PROVE  LastMAC(macs, i) = c[i]
<1>1. CASE c[i] = NoValue
      BY <1>1 DEF Stored, LastMAC, RowsOf
<1>2. CASE c[i] # NoValue
  <2>1. PICK r \in RowsOf(macs, i) : /\ r.value = c[i]
                                     /\ \A q \in RowsOf(macs, i) : q # r => q.ver < r.ver
        BY <1>2 DEF Stored
  <2>2. \A q \in RowsOf(macs, i) : q.ver \in Nat
        BY BoundAssumption DEF RowsOf, Rows, Versions
  <2>3. \A q \in RowsOf(macs, i) : q.ver <= r.ver
        BY <2>1, <2>2
  <2>4. \A q \in RowsOf(macs, i) : (\A x \in RowsOf(macs, i) : x.ver <= q.ver) => q = r
        BY <2>1, <2>2
  <2>5. (CHOOSE q \in RowsOf(macs, i) : \A x \in RowsOf(macs, i) : x.ver <= q.ver) = r
        BY <2>3, <2>4
  <2>6. LastMAC(macs, i) =
          IF RowsOf(macs, i) = {} THEN NoValue
          ELSE (CHOOSE q \in RowsOf(macs, i) : \A x \in RowsOf(macs, i) : x.ver <= q.ver).value
        BY DEF LastMAC, RowsOf
  <2> QED BY <2>1, <2>5, <2>6
<1> QED BY <1>1, <1>2

\* storeMACs for a patch that mentions no index twice.
Row(v, m, n) == [ver |-> v, index |-> m[n].index, value |-> <<v, n>>]
Added(v, m) == {Row(v, m, n) : n \in Sets(m)}
Removed(m) == {m[n].index : n \in DOMAIN m \ Sets(m)}
Kept(macs, m) == {r \in macs : r.index \notin Removed(m)}

LEMMA AddedTypes ==
    ASSUME NEW v \in Versions, NEW m \in MutationLists
    PROVE  Added(v, m) \subseteq Rows
<1>1. \A n \in Sets(m) : m[n].index \in Indexes /\ <<v, n>> \in Values
      BY ListTypes, ValueIs
<1> QED BY <1>1 DEF Added, Row, Rows

LEMMA StoresPatch ==
    ASSUME NEW macs \in SUBSET Rows, NEW c, NEW d, NEW v \in Nat, v + 1 \in Versions, NEW m \in MutationLists,
           Distinct(m), d = After(c, v + 1, m), Stored(macs, c, v)
    PROVE  /\ Stored(Kept(macs, m) \cup Added(v + 1, m), d, v + 1)
           /\ \A r \in Added(v + 1, m), q \in Kept(macs, m) : r.ver # q.ver
           /\ \A r, q \in Added(v + 1, m) : r.index = q.index => r = q
<1> DEFINE K == Kept(macs, m)
           A == Added(v + 1, m)
<1>0. Sets(m) \subseteq DOMAIN m /\ \A n \in DOMAIN m : m[n].index \in Indexes
      BY ListTypes
<1>1. \A r \in A : \E n \in Sets(m) : r.ver = v + 1 /\ r.index = m[n].index /\ r.value = <<v + 1, n>> /\ r = Row(v + 1, m, n)
      BY DEF Added, Row
<1>2. \A n \in Sets(m) : Row(v + 1, m, n) \in A
      BY DEF Added
<1>3. \A q \in macs : q.ver \in Nat /\ q.ver <= v
      BY BoundAssumption DEF Stored, Rows, Versions
<1>4. K \subseteq macs /\ \A r \in macs : r \in K <=> r.index \notin Removed(m)
      BY DEF Kept
<1>5. \A r, q \in A : r.index = q.index => r = q
      BY <1>0, <1>1 DEF Distinct
<1>6. \A n \in DOMAIN m : /\ n \in Sets(m) => d[m[n].index] = <<v + 1, n>> /\ d[m[n].index] # NoValue
                          /\ n \notin Sets(m) => d[m[n].index] = NoValue
  <2>1. \A n \in DOMAIN m : /\ n \in Sets(m) => d[m[n].index] = <<v + 1, n>>
                            /\ n \notin Sets(m) => d[m[n].index] = NoValue
        BY AfterDistinct
  <2>2. \A n : <<v + 1, n>> # NoValue
        BY DEF NoValue
  <2> QED BY <2>1, <2>2
<1>7. \A i \in Indexes : (\A n \in DOMAIN m : m[n].index # i) => d[i] = c[i]
      BY AfterIs
<1> HIDE DEF K, A
<1>8. \A r \in K \cup A : r.ver <= v + 1
      BY <1>1, <1>3, <1>4
<1>9. ASSUME NEW i \in Indexes
      PROVE  /\ d[i] = NoValue => RowsOf(K \cup A, i) = {}
             /\ d[i] # NoValue => \E r \in RowsOf(K \cup A, i) :
                   r.value = d[i] /\ \A q \in RowsOf(K \cup A, i) : q # r => q.ver < r.ver
  <2>1. CASE \A n \in DOMAIN m : m[n].index # i
    <3>1. i \notin Removed(m)
          BY <2>1 DEF Removed
    <3>2. RowsOf(K \cup A, i) = RowsOf(macs, i)
          BY <2>1, <3>1, <1>0, <1>1, <1>4 DEF RowsOf
    <3> QED BY <2>1, <3>2, <1>7 DEF Stored
  <2>2. ASSUME NEW n \in DOMAIN m, m[n].index = i, n \in Sets(m)
        PROVE  \E r \in RowsOf(K \cup A, i) :
                   r.value = d[i] /\ \A q \in RowsOf(K \cup A, i) : q # r => q.ver < r.ver
    <3>1. PICK r \in A : r.ver = v + 1 /\ r.index = i /\ r.value = <<v + 1, n>>
          BY <2>2, <1>2 DEF Row
    <3>2. \A q \in RowsOf(K \cup A, i) : q # r => q.ver < r.ver
      <4>1. \A q \in RowsOf(K \cup A, i) : q \in A => q = r
            BY <3>1, <1>5 DEF RowsOf
      <4>2. \A q \in RowsOf(K \cup A, i) : q \notin A => q \in macs
            BY <1>4 DEF RowsOf
      <4>3. \A q \in macs : q.ver < v + 1
            BY <1>3
      <4>4. \A q \in RowsOf(K \cup A, i) : q # r => q.ver < v + 1
            BY <4>1, <4>2, <4>3
      <4> QED BY <4>4, <3>1
    <3>3. r \in RowsOf(K \cup A, i) /\ r.value = d[i]
          BY <2>2, <3>1, <1>6 DEF RowsOf
    <3> QED BY <3>2, <3>3
  <2>3. ASSUME NEW n \in DOMAIN m, m[n].index = i, n \notin Sets(m)
        PROVE  RowsOf(K \cup A, i) = {}
    <3>1. i \in Removed(m)
          BY <2>3 DEF Removed
    <3>2. \A r \in A : r.index # i
          BY <2>3, <1>0, <1>1 DEF Distinct
    <3> QED BY <3>1, <3>2, <1>4 DEF RowsOf
  <2> QED BY <2>1, <2>2, <2>3, <1>6
<1>10. Stored(K \cup A, d, v + 1)
      BY <1>8, <1>9 DEF Stored
<1>11. \A r \in A, q \in K : r.ver # q.ver
      BY <1>1, <1>3, <1>4
<1> QED BY <1>5, <1>10, <1>11 DEF K, A

\* The rows of a snapshot, in a store without rows.
SnapRows(c, s) == {[ver |-> s, index |-> i, value |-> c[i]] : i \in {j \in Indexes : c[j] # NoValue}}

LEMMA StoresSnapshot ==
    ASSUME NEW s \in Versions, NEW c, \A i \in Indexes : c[i] \in Values \cup {NoValue}
    PROVE  /\ SnapRows(c, s) \subseteq Rows /\ Stored(SnapRows(c, s), c, s)
           /\ \A r, q \in SnapRows(c, s) : r.index = q.index => r = q
<1> DEFINE R == SnapRows(c, s)
<1>0. s \in Nat /\ s > 0 /\ s <= MaxVersion
      BY BoundAssumption DEF Versions
<1>1. \A r \in R : \E i \in Indexes : c[i] # NoValue /\ r = [ver |-> s, index |-> i, value |-> c[i]]
      BY DEF SnapRows
<1>2. \A i \in Indexes : c[i] # NoValue => [ver |-> s, index |-> i, value |-> c[i]] \in R
      BY DEF SnapRows
<1> HIDE DEF R
<1>3. R \subseteq Rows
      BY <1>1 DEF Rows
<1>4. \A r \in R : r.ver <= s
      BY <1>0, <1>1
<1>5. ASSUME NEW i \in Indexes, c[i] = NoValue
      PROVE  RowsOf(R, i) = {}
      BY <1>1, <1>5 DEF RowsOf
<1>6. ASSUME NEW i \in Indexes, c[i] # NoValue
      PROVE  \E r \in RowsOf(R, i) : r.value = c[i] /\ \A q \in RowsOf(R, i) : q # r => q.ver < r.ver
  <2>1. PICK r \in R : r = [ver |-> s, index |-> i, value |-> c[i]]
        BY <1>6, <1>2
  <2>2. \A q \in R : q.index = i => q = r
        BY <2>1, <1>1
  <2> QED BY <2>1, <2>2 DEF RowsOf
<1>7. Stored(R, c, s)
      BY <1>4, <1>5, <1>6 DEF Stored
<1>8. \A r, q \in R : r.index = q.index => r = q
      BY <1>1
<1> QED BY <1>3, <1>7, <1>8 DEF R

LEMMA StoredNothing ==
    ASSUME NEW macs \in SUBSET Rows
    PROVE  /\ Stored(macs, NoContent, 0) => macs = {}
           /\ Stored({}, NoContent, 0)
<1>1. \A r \in macs : r.ver > 0 /\ r.ver \in Nat
      BY BoundAssumption DEF Rows, Versions
<1>2. Stored({}, NoContent, 0)
      BY DEF Stored, RowsOf, NoContent
<1>3. Stored(macs, NoContent, 0) => \A r \in macs : r.ver <= 0
      BY DEF Stored
<1> QED BY <1>1, <1>2, <1>3

(***************************************************************************)
(* The steps, field by field.                                              *)
(***************************************************************************)
LEMMA LocalTypes ==
    ASSUME TypeOK, NEW p \in Fetchers
    PROVE  /\ f[p] \in Locals
           /\ f[p].pc \in {"off", "fetch", "decode", "putver", "putmacs"}
           /\ f[p].ver \in 0..Len(log) /\ f[p].hash \in Hashes /\ f[p].snap \in 0..Len(log)
           /\ f[p].at \in 0..(Len(log) + 1) /\ f[p].to \in 0..Len(log) /\ f[p].muts \in Seq(Versions)
           /\ f[p].full \in BOOLEAN /\ f[p].want \in BOOLEAN /\ f[p].more \in BOOLEAN /\ f[p].mass \in BOOLEAN
<1>1. f[p] \in Locals
      BY DEF TypeOK, FetchTypes
<1> QED BY <1>1 DEF Locals

LEMMA StateTypes ==
    ASSUME TypeOK
    PROVE  /\ log \in Seq(Patches) /\ Len(log) \in Nat /\ Len(log) <= MaxVersion
           /\ db.ver \in 0..Len(log) /\ db.hash \in Hashes /\ db.macs \in SUBSET Rows /\ db.keys \in SUBSET Keys
           /\ sender.pc \in {"off", "encode"} /\ sender.ver \in 0..MaxVersion /\ sender.hash \in Hashes
           /\ sender.muts \in Sends \cup {<<>>} /\ sender.key \in Keys \cup {0}
           /\ sender.torn \in BOOLEAN /\ sender.n \in 0..MaxSends
           /\ told \in Seq(Versions) /\ quiet \in 0..MaxVersion
           /\ ghost.faults \in Nat /\ ghost.crashes \in 0..MaxTrouble /\ ghost.resets \in 0..MaxTrouble
           /\ ghost.cut \in BOOLEAN /\ ghost.behind \in BOOLEAN /\ ghost.missed \in BOOLEAN
           /\ ghost.dropped \in SUBSET Versions
<1>1. log \in Seq(Patches) /\ Len(log) \in Nat /\ Len(log) <= MaxVersion
      BY DEF TypeOK, ServerTypes
<1>2. db.ver \in 0..Len(log) /\ db.hash \in Hashes /\ db.macs \in SUBSET Rows /\ db.keys \in SUBSET Keys
      BY DEF TypeOK, StoreTypes
<1>3. /\ sender.pc \in {"off", "encode"} /\ sender.ver \in 0..MaxVersion /\ sender.hash \in Hashes
      /\ sender.muts \in Sends \cup {<<>>} /\ sender.key \in Keys \cup {0}
      /\ sender.torn \in BOOLEAN /\ sender.n \in 0..MaxSends
      BY DEF TypeOK, SendTypes
<1>4. told \in Seq(Versions) /\ quiet \in 0..MaxVersion
      BY DEF TypeOK, EventTypes
<1>5. /\ ghost.faults \in Nat /\ ghost.crashes \in 0..MaxTrouble /\ ghost.resets \in 0..MaxTrouble
      /\ ghost.cut \in BOOLEAN /\ ghost.behind \in BOOLEAN /\ ghost.missed \in BOOLEAN
      /\ ghost.dropped \in SUBSET Versions
      BY DEF TypeOK, EventTypes
<1> QED BY <1>1, <1>2, <1>3, <1>4, <1>5

LEMMA PatchTypes ==
    ASSUME TypeOK, NEW v \in 1..Len(log)
    PROVE  /\ log[v].muts \in MutationLists /\ log[v].content \in [Indexes -> Values \cup {NoValue}]
           /\ log[v].key \in Keys /\ log[v].mac \in Hashes
           /\ v \in Versions
<1>1. log \in Seq(Patches) /\ Len(log) \in Nat /\ Len(log) <= MaxVersion
      BY StateTypes
<1>2. log[v] \in Patches
      BY <1>1
<1>3. v \in Versions
      BY <1>1, BoundAssumption DEF Versions
<1> QED BY <1>2, <1>3 DEF Patches

\* A step gives one fetcher new local variables.
LEMMA Moved ==
    ASSUME f \in [Fetchers -> Locals], NEW p \in Fetchers, NEW l, f' = [f EXCEPT ![p] = l]
    PROVE  /\ f'[p] = l /\ \A q \in Fetchers : q # p => f'[q] = f[q]
           /\ l \in Locals => f' \in [Fetchers -> Locals]
OBVIOUS

\* A fetch that returns before the end of the page.
GivesUp(p) ==
    /\ f[p].pc \in {"fetch", "decode"}
    /\ holder' = NoOne
    /\ f' = [f EXCEPT ![p] = NoFetch]
    /\ ghost'.behind = ghost.behind /\ ghost'.cut = ghost.cut /\ ghost'.crashes = ghost.crashes
    /\ ghost'.faults >= ghost.faults
    /\ ghost'.faults = ghost.faults => /\ ghost.dropped \subseteq ghost'.dropped
                                       /\ \A n \in 1..Len(f[p].muts) : f[p].muts[n] \in ghost'.dropped
    /\ UNCHANGED <<log, db, sender, told, quiet>>

LEMMA FaultDoes ==
    ASSUME TypeOK, ghost' = [ghost EXCEPT !.faults = ghost.faults + 1]
    PROVE  /\ ghost'.behind = ghost.behind /\ ghost'.cut = ghost.cut /\ ghost'.crashes = ghost.crashes
           /\ ghost'.faults = ghost.faults + 1 /\ ghost'.faults > ghost.faults
           /\ EventTypes /\ UNCHANGED <<told, quiet>> => EventTypes'
<1>1. ghost.faults \in Nat /\ ghost.faults + 1 \in Nat
      BY StateTypes
<1>2. /\ ghost'.behind = ghost.behind /\ ghost'.cut = ghost.cut /\ ghost'.crashes = ghost.crashes
      /\ ghost'.faults = ghost.faults + 1
      BY DEF TypeOK, EventTypes
<1>3. EventTypes /\ UNCHANGED <<told, quiet>> => EventTypes'
      BY <1>1 DEF EventTypes
<1> QED BY <1>1, <1>2, <1>3

LEMMA DecodeErrorDoes ==
    ASSUME TypeOK, NEW p \in Fetchers, f[p].pc = "decode", DecodeError(p)
    PROVE  GivesUp(p) /\ EventTypes'
<1> DEFINE D == {f[p].muts[n] : n \in 1..Len(f[p].muts)}
<1>1. f[p].muts \in Seq(Versions)
      BY LocalTypes
<1>2. D \subseteq Versions
      BY <1>1
<1>3. ghost' = [ghost EXCEPT !.dropped = ghost.dropped \cup D]
      BY DEF DecodeError
<1>4. \A n \in 1..Len(f[p].muts) : f[p].muts[n] \in D
      OBVIOUS
<1> HIDE DEF D
<1>5. EventTypes'
      BY <1>2, <1>3 DEF EventTypes, TypeOK, DecodeError
<1>6. /\ ghost'.behind = ghost.behind /\ ghost'.cut = ghost.cut /\ ghost'.crashes = ghost.crashes
      /\ ghost'.faults = ghost.faults /\ ghost'.dropped = ghost.dropped \cup D
      BY <1>3 DEF EventTypes, TypeOK
<1>7. ghost.faults \in Nat
      BY StateTypes
<1> QED BY <1>4, <1>5, <1>6, <1>7 DEF GivesUp, DecodeError, Return, Local, server

LEMMA FetchFailsDoes ==
    ASSUME TypeOK, NEW p \in Fetchers, FetchFails(p)
    PROVE  GivesUp(p) /\ EventTypes'
<1>1. ghost' = [ghost EXCEPT !.faults = ghost.faults + 1] /\ ghost.faults \in Nat
      BY StateTypes DEF FetchFails, Fault
<1> QED BY <1>1, FaultDoes DEF FetchFails, GivesUp, Return, Local, server, TypeOK

LEMMA ContactsFailDoes ==
    ASSUME TypeOK, NEW p \in Fetchers, ContactsFail(p)
    PROVE  GivesUp(p) /\ EventTypes'
<1>1. ghost' = [ghost EXCEPT !.faults = ghost.faults + 1] /\ ghost.faults \in Nat
      BY StateTypes DEF ContactsFail
<1> QED BY <1>1, FaultDoes DEF ContactsFail, PageDecoded, GivesUp, Return, Local, server, TypeOK

LEMMA FetchDoes ==
    ASSUME TypeOK, NEW p \in Fetchers, FetchAppStatePatches(p)
    PROVE  /\ f[p].pc = "fetch" /\ f'[p].pc = "decode" /\ f'[p].want = FALSE
           /\ f'[p].ver = f[p].ver /\ f'[p].hash = f[p].hash /\ f'[p].muts = f[p].muts
           /\ f'[p].full = f[p].full
           /\ f'[p].snap = 0 => f'[p].at = f[p].ver + 1
           /\ f'[p].snap > 0 => f[p].want /\ f'[p].at = f'[p].snap + 1
           /\ \A q \in Fetchers : q # p => f'[q] = f[q]
           /\ f' \in [Fetchers -> Locals]
           /\ UNCHANGED <<log, notified, db, called, holder, checks, requested, asked, sender, told, quiet, ghost>>
<1>1. PICK s \in 0..Len(log) :
         /\ s = 0 <=> ~f[p].want \/ Len(log) = 0
         /\ LET base == IF s > 0 THEN s ELSE f[p].ver
            IN  \E to \in base..Len(log) :
                  Local(p, [f[p] EXCEPT !.pc = "decode", !.want = FALSE, !.snap = s, !.mass = s > 0,
                                         !.at = base + 1, !.to = to, !.more = to < Len(log)])
      BY DEF FetchAppStatePatches
<1> DEFINE base == IF s > 0 THEN s ELSE f[p].ver
<1>2. PICK to \in base..Len(log) :
         Local(p, [f[p] EXCEPT !.pc = "decode", !.want = FALSE, !.snap = s, !.mass = s > 0,
                                         !.at = base + 1, !.to = to, !.more = to < Len(log)])
      BY <1>1
<1>3. PICK at, mass, more : at = base + 1 /\ mass = (s > 0) /\ more = (to < Len(log))
      OBVIOUS
<1>4. Len(log) \in Nat /\ f[p] \in Locals /\ f[p].ver \in 0..Len(log) /\ f[p].want \in BOOLEAN
      BY LocalTypes, StateTypes
<1>5. mass \in BOOLEAN /\ more \in BOOLEAN
  <2>1. (s > 0) \in BOOLEAN /\ (to < Len(log)) \in BOOLEAN
        OBVIOUS
  <2> QED BY <2>1, <1>3
<1>6. PICK b : b = base
      OBVIOUS
<1>7. b \in Nat /\ b <= Len(log) /\ (s > 0 => b = s) /\ (s = 0 => b = f[p].ver) /\ at = b + 1
      BY <1>3, <1>4, <1>6
<1>8. to \in Nat /\ to <= Len(log)
      BY <1>4, <1>6, <1>7
<1>9. at \in 0..(Len(log) + 1) /\ to \in 0..Len(log)
      BY <1>4, <1>7, <1>8
<1>10. f' = [f EXCEPT ![p] = [f[p] EXCEPT !.pc = "decode", !.want = FALSE, !.snap = s, !.mass = mass,
                                         !.at = at, !.to = to, !.more = more]]
      BY <1>2, <1>3 DEF Local
<1> HIDE DEF base
<1>11. PICK l : l = [f[p] EXCEPT !.pc = "decode", !.want = FALSE, !.snap = s, !.mass = mass,
                                         !.at = at, !.to = to, !.more = more]
      OBVIOUS
<1>12. /\ l \in Locals /\ l.pc = "decode" /\ l.want = FALSE /\ l.snap = s /\ l.at = at
       /\ l.ver = f[p].ver /\ l.hash = f[p].hash /\ l.muts = f[p].muts /\ l.full = f[p].full
      BY <1>4, <1>5, <1>9, <1>11 DEF Locals
<1>13. f'[p] = l /\ (\A q \in Fetchers : q # p => f'[q] = f[q]) /\ f' \in [Fetchers -> Locals]
      BY <1>10, <1>11, <1>12, Moved DEF TypeOK, FetchTypes
<1>14. f'[p].snap = 0 => f'[p].at = f[p].ver + 1
      BY <1>12, <1>13, <1>7
<1>15. f'[p].snap > 0 => f[p].want /\ f'[p].at = f'[p].snap + 1
      BY <1>12, <1>13, <1>7, <1>1, <1>4
<1> QED BY <1>12, <1>13, <1>14, <1>15 DEF FetchAppStatePatches, server, keying

\* A snapshot or a patch has been decoded and is to be stored.
LEMMA SnapshotDoes ==
    ASSUME TypeOK, NEW p \in Fetchers, DecodeSnapshot(p)
    PROVE  /\ f[p].pc = "decode" /\ f[p].snap > 0
           /\ \/ GivesUp(p) /\ EventTypes' /\ UNCHANGED <<notified, called, requested, asked>>
                 /\ (checks' = checks \/ checks' = checks \cup {PageKeys(p)})
              \/ /\ f'[p].pc = "putver" /\ f'[p].ver = f[p].snap
                 /\ f'[p].hash = [x \in Values |-> f[p].hash[x] + HashOf(Content(f[p].snap))[x]]
                 /\ f'[p].snap = f[p].snap /\ f'[p].at = f[p].at /\ f'[p].to = f[p].to
                 /\ f'[p].want = f[p].want /\ f'[p].full = f[p].full
                 /\ \A q \in Fetchers : q # p => f'[q] = f[q]
                 /\ f' \in [Fetchers -> Locals]
                 /\ UNCHANGED <<log, notified, db, called, holder, checks, requested, asked, sender, told, quiet, ghost>>
<1> DEFINE s == f[p].snap
<1>1. f[p].pc = "decode" /\ f[p].snap > 0
      BY DEF DecodeSnapshot
<1>2. PICK hash : hash = [x \in Values |-> f[p].hash[x] + HashOf(Content(s))[x]]
      OBVIOUS
<1>3. hash \in Hashes
  <2>1. f[p].hash \in Hashes /\ HashOf(Content(s)) \in Hashes
        BY LocalTypes, HashTypes
  <2> QED BY <2>1, <1>2 DEF Hashes
<1>4. CASE DecodeError(p) /\ (checks' = checks \/ checks' = checks \cup {PageKeys(p)})
  <2>1. GivesUp(p) /\ EventTypes'
        BY <1>1, <1>4, DecodeErrorDoes
  <2>2. UNCHANGED <<notified, called, requested, asked>>
        BY <1>4 DEF DecodeError, server
  <2> QED BY <1>1, <1>4, <2>1, <2>2
<1>5. CASE /\ \E q \in Orders(s) :
                Local(p, [f[p] EXCEPT !.pc = "putver", !.ver = s, !.hash = hash, !.muts = q])
           /\ UNCHANGED <<server, db, called, holder, keying, sender, told, quiet, ghost>>
  <2>1. PICK q \in Orders(s) :
                Local(p, [f[p] EXCEPT !.pc = "putver", !.ver = s, !.hash = hash, !.muts = q])
        BY <1>5
  <2>2. s \in 0..Len(log) /\ Len(log) \in Nat /\ Len(log) <= MaxVersion /\ f[p] \in Locals
        BY LocalTypes, StateTypes
  <2>3. Records(s) \subseteq Versions
        BY <2>2, BoundAssumption DEF Records, Versions
  <2>4. PICK n \in 0..s : q \in [1..n -> Records(s)]
        BY <2>1 DEF Orders
  <2>5. q \in Seq(Versions)
        BY <2>2, <2>3, <2>4
  <2>6. PICK l : l = [f[p] EXCEPT !.pc = "putver", !.ver = s, !.hash = hash, !.muts = q]
        OBVIOUS
  <2>7. /\ l \in Locals /\ l.pc = "putver" /\ l.ver = s /\ l.hash = hash
        /\ l.snap = f[p].snap /\ l.at = f[p].at /\ l.to = f[p].to /\ l.want = f[p].want /\ l.full = f[p].full
        BY <2>2, <2>5, <2>6, <1>3 DEF Locals
  <2>8. f' = [f EXCEPT ![p] = l]
        BY <2>1, <2>6 DEF Local
  <2>9. f'[p] = l /\ (\A x \in Fetchers : x # p => f'[x] = f[x]) /\ f' \in [Fetchers -> Locals]
        BY <2>7, <2>8, Moved DEF TypeOK, FetchTypes
  <2>10. UNCHANGED <<log, notified, db, called, holder, checks, requested, asked, sender, told, quiet, ghost>>
        BY <1>5 DEF server, keying
  <2> QED BY <2>7, <2>9, <2>10, <1>1, <1>2
<1> QED BY <1>2, <1>4, <1>5, Zenon DEF DecodeSnapshot

LEMMA PatchDoes ==
    ASSUME TypeOK, NEW p \in Fetchers, DecodePatch(p), f[p].at > 0
    PROVE  /\ f[p].pc = "decode" /\ f[p].snap = 0 /\ f[p].at \in 1..Len(log)
           /\ \/ GivesUp(p) /\ EventTypes' /\ UNCHANGED <<notified, called, requested, asked>>
                 /\ (checks' = checks \/ checks' = checks \cup {PageKeys(p)})
              \/ /\ f'[p].pc = "putver" /\ f'[p].ver = f[p].at
                 /\ f'[p].hash = UpdateHash(f[p].hash, f[p].at, log[f[p].at].muts)
                 /\ f'[p].hash = log[f[p].at].mac
                 /\ f'[p].snap = 0 /\ f'[p].at = f[p].at /\ f'[p].to = f[p].to
                 /\ f'[p].want = f[p].want /\ f'[p].full = f[p].full
                 /\ Sets(log[f[p].at].muts) # {} => f'[p].muts = Append(f[p].muts, f[p].at)
                 /\ Sets(log[f[p].at].muts) = {} => f'[p].muts = f[p].muts
                 /\ \A q \in Fetchers : q # p => f'[q] = f[q]
                 /\ f' \in [Fetchers -> Locals]
                 /\ UNCHANGED <<log, notified, db, called, holder, checks, requested, asked, sender, told, quiet, ghost>>
<1> DEFINE m == log[f[p].at]
<1>1. f[p].pc = "decode" /\ f[p].snap = 0 /\ f[p].at <= f[p].to
      BY DEF DecodePatch
<1>0. f[p].at \in 1..Len(log)
      BY <1>1, LocalTypes, StateTypes
<1>2. PICK hash : hash = UpdateHash(f[p].hash, f[p].at, m.muts)
      OBVIOUS
<1>3. hash \in Hashes
  <2>1. f[p].hash \in Hashes
        BY LocalTypes
  <2> QED BY <2>1, <1>2 DEF Hashes, UpdateHash
<1>4. CASE DecodeError(p) /\ (checks' = checks \/ checks' = checks \cup {PageKeys(p)})
  <2>1. GivesUp(p) /\ EventTypes'
        BY <1>1, <1>4, DecodeErrorDoes
  <2>2. UNCHANGED <<notified, called, requested, asked>>
        BY <1>4 DEF DecodeError, server
  <2> QED BY <1>0, <1>1, <1>4, <2>1, <2>2
<1>5. CASE /\ m.mac = hash
           /\ Local(p, [f[p] EXCEPT !.pc = "putver", !.ver = f[p].at, !.hash = hash,
                         !.muts = IF Sets(m.muts) # {} THEN Append(f[p].muts, f[p].at) ELSE f[p].muts])
           /\ UNCHANGED <<server, db, called, holder, keying, sender, told, quiet, ghost>>
  <2>1. PICK q : q = IF Sets(m.muts) # {} THEN Append(f[p].muts, f[p].at) ELSE f[p].muts
        OBVIOUS
  <2>2. f[p] \in Locals /\ f[p].muts \in Seq(Versions) /\ Len(log) \in Nat /\ f[p].at \in Versions
        BY <1>0, LocalTypes, StateTypes, PatchTypes
  <2>3. q \in Seq(Versions)
        BY <2>1, <2>2
  <2>4. (Sets(m.muts) # {} => q = Append(f[p].muts, f[p].at)) /\ (Sets(m.muts) = {} => q = f[p].muts)
        BY <2>1, Zenon
  <2>5. f[p].at \in 0..Len(log)
        BY <1>0
  <2>6. PICK l : l = [f[p] EXCEPT !.pc = "putver", !.ver = f[p].at, !.hash = hash, !.muts = q]
        OBVIOUS
  <2>7. /\ l \in Locals /\ l.pc = "putver" /\ l.ver = f[p].at /\ l.hash = hash /\ l.muts = q
        /\ l.snap = f[p].snap /\ l.at = f[p].at /\ l.to = f[p].to /\ l.want = f[p].want /\ l.full = f[p].full
        BY <2>2, <2>3, <2>5, <2>6, <1>3 DEF Locals
  <2>8. f' = [f EXCEPT ![p] = l]
        BY <1>5, <2>1, <2>6, Zenon DEF Local
  <2>9. f'[p] = l /\ (\A x \in Fetchers : x # p => f'[x] = f[x]) /\ f' \in [Fetchers -> Locals]
        BY <2>7, <2>8, Moved DEF TypeOK, FetchTypes
  <2>10. UNCHANGED <<log, notified, db, called, holder, checks, requested, asked, sender, told, quiet, ghost>>
        BY <1>5 DEF server, keying
  <2>12. m.mac = hash
        BY <1>5
  <2> HIDE DEF m
  <2>11. log[f[p].at] = m
        BY DEF m
  <2> QED BY <2>4, <2>7, <2>9, <2>10, <2>11, <2>12, <1>0, <1>1, <1>2
<1> QED BY <1>2, <1>4, <1>5, Zenon DEF DecodePatch

\* PutAppStateVersion, or its failure.
LEMMA PutVersionDoes ==
    ASSUME TypeOK, NEW p \in Fetchers, PutAppStateVersion(p)
    PROVE  /\ f[p].pc = "putver" /\ f'[p].pc = "putmacs"
           /\ f'[p].ver = f[p].ver /\ f'[p].hash = f[p].hash /\ f'[p].snap = f[p].snap /\ f'[p].at = f[p].at
           /\ f'[p].to = f[p].to /\ f'[p].muts = f[p].muts /\ f'[p].want = f[p].want /\ f'[p].full = f[p].full
           /\ \A q \in Fetchers : q # p => f'[q] = f[q]
           /\ f' \in [Fetchers -> Locals]
           /\ UNCHANGED <<log, notified, called, holder, checks, requested, asked, sender, told>>
           /\ db'.macs = db.macs /\ StoreTypes' /\ EventTypes'
           /\ \/ /\ db'.ver = f[p].ver /\ db'.hash = f[p].hash /\ UNCHANGED ghost
                 /\ f[p].full => quiet' = f[p].ver
                 /\ ~f[p].full => quiet' = quiet
              \/ /\ UNCHANGED <<db, quiet>>
                 /\ ghost'.behind /\ ghost'.cut /\ ghost'.faults > 0 /\ ghost'.faults > ghost.faults
<1>1. PICK l : l = [f[p] EXCEPT !.pc = "putmacs"]
      OBVIOUS
<1>2. f[p] \in Locals /\ f[p].ver \in 0..Len(log) /\ f[p].hash \in Hashes /\ f[p].full \in BOOLEAN
      BY LocalTypes
<1>3. /\ l \in Locals /\ l.pc = "putmacs" /\ l.ver = f[p].ver /\ l.hash = f[p].hash
      /\ l.snap = f[p].snap /\ l.at = f[p].at /\ l.to = f[p].to /\ l.want = f[p].want /\ l.full = f[p].full
      /\ l.muts = f[p].muts
      BY <1>1, <1>2 DEF Locals
<1>4. f' = [f EXCEPT ![p] = l] /\ f[p].pc = "putver"
      BY <1>1 DEF PutAppStateVersion, Local
<1>5. f'[p] = l /\ (\A x \in Fetchers : x # p => f'[x] = f[x]) /\ f' \in [Fetchers -> Locals]
      BY <1>3, <1>4, Moved DEF TypeOK, FetchTypes
<1>6. UNCHANGED <<log, notified, called, holder, checks, requested, asked, sender, told>>
      BY DEF PutAppStateVersion, server, keying
<1>7. CASE /\ db' = [db EXCEPT !.ver = f[p].ver, !.hash = f[p].hash]
           /\ quiet' = IF f[p].full THEN f[p].ver ELSE quiet
           /\ UNCHANGED ghost
  <2>1. db'.macs = db.macs /\ db'.ver = f[p].ver /\ db'.hash = f[p].hash /\ StoreTypes'
        BY <1>2, <1>6, <1>7 DEF TypeOK, StoreTypes
  <2>2. (f[p].full => quiet' = f[p].ver) /\ (~f[p].full => quiet' = quiet)
        BY <1>7, <1>2
  <2>3. quiet' \in 0..MaxVersion
        BY <2>2, <1>2, StateTypes, BoundAssumption
  <2>4. EventTypes'
        BY <1>6, <1>7, <2>3 DEF TypeOK, EventTypes
  <2> QED BY <1>3, <1>4, <1>5, <1>6, <1>7, <2>1, <2>2, <2>4
<1>8. CASE VersionLost /\ UNCHANGED <<db, quiet>>
  <2>1. ghost' = [ghost EXCEPT !.faults = ghost.faults + 1, !.cut = TRUE, !.behind = TRUE]
        BY <1>8 DEF VersionLost
  <2>2. ghost.faults \in Nat
        BY StateTypes
  <2>3. ghost'.behind /\ ghost'.cut /\ ghost'.faults = ghost.faults + 1
        BY <2>1 DEF TypeOK, EventTypes
  <2>4. EventTypes'
    <3>1. PICK n \in Nat : n = ghost.faults + 1
          BY <2>2
    <3>4. PICK t \in BOOLEAN : t = TRUE
          BY Zenon
    <3>2. ghost' = [ghost EXCEPT !.faults = n, !.cut = t, !.behind = t]
          BY <2>1, <3>1, <3>4, Zenon
    <3> QED BY <1>6, <1>8, <3>2 DEF TypeOK, EventTypes
  <2>5. StoreTypes'
        BY <1>6, <1>8 DEF TypeOK, StoreTypes
  <2>6. db'.macs = db.macs /\ ghost'.faults > 0 /\ ghost'.faults > ghost.faults
        BY <2>2, <2>3, <1>8
  <2> QED BY <1>3, <1>4, <1>5, <1>6, <1>8, <2>3, <2>4, <2>5, <2>6
<1> QED BY <1>7, <1>8 DEF PutAppStateVersion

\* What the statements change in the store.
LEMMA AddedMACsTypes ==
    ASSUME TypeOK, NEW p \in Fetchers, f[p].snap = 0 => f[p].at \in 1..Len(log)
    PROVE  AddedMACs(p) \in SUBSET Rows
<1>1. Len(log) \in Nat /\ f[p].snap \in 0..Len(log) /\ Len(log) <= MaxVersion
      BY StateTypes, LocalTypes
<1>2. CASE f[p].snap > 0
  <2>1. f[p].snap \in 1..Len(log) /\ f[p].snap \in Versions
        BY <1>1, <1>2, BoundAssumption DEF Versions
  <2>2. \A i \in Indexes : Content(f[p].snap)[i] \in Values \cup {NoValue}
        BY <2>1, <1>2, PatchTypes DEF Content
  <2>3. SnapRows(Content(f[p].snap), f[p].snap) \subseteq Rows
        BY <2>1, <2>2, StoresSnapshot
  <2>4. AddedMACs(p) = SnapRows(Content(f[p].snap), f[p].snap)
        BY <1>2 DEF AddedMACs, SnapshotRows, SnapRows
  <2> QED BY <2>3, <2>4
<1>3. CASE ~(f[p].snap > 0)
  <2>1. f[p].at \in 1..Len(log)
        BY <1>1, <1>3
  <2>2. log[f[p].at].muts \in MutationLists /\ f[p].at \in Versions
        BY <2>1, PatchTypes
  <2>3. AddedMACs(p) = Added(f[p].at, log[f[p].at].muts)
        BY <1>3 DEF AddedMACs, Added, Row
  <2> QED BY <2>2, <2>3, AddedTypes
<1> QED BY <1>2, <1>3

LEMMA StoredMACsDoes ==
    ASSUME TypeOK, NEW p \in Fetchers, f[p].snap = 0 => f[p].at \in 1..Len(log),
           db' \in {db, DeleteMACs(db, RemovedMACs(p)), PutMACs(db, AddedMACs(p)), StoredMACs(p, db)}
    PROVE  /\ db'.ver = db.ver /\ db'.hash = db.hash /\ db'.keys = db.keys
           /\ db' \in [ver : 0..Len(log), hash : Hashes, macs : SUBSET Rows, keys : SUBSET Keys]
<1> DEFINE D == [ver : 0..Len(log), hash : Hashes, macs : SUBSET Rows, keys : SUBSET Keys]
           Like(d) == d \in D /\ d.ver = db.ver /\ d.hash = db.hash /\ d.keys = db.keys
<1>1. Like(db)
      BY DEF TypeOK, StoreTypes
<1>2. ASSUME NEW d, Like(d), NEW rows \in SUBSET Rows
      PROVE  Like(PutMACs(d, rows))
      BY <1>2 DEF PutMACs
<1>3. ASSUME NEW d, Like(d), NEW removed
      PROVE  Like(DeleteMACs(d, removed))
      BY <1>3 DEF DeleteMACs
<1>4. AddedMACs(p) \in SUBSET Rows
      BY AddedMACsTypes
<1> HIDE DEF Like
<1>5. Like(PutMACs(db, AddedMACs(p))) /\ Like(DeleteMACs(db, RemovedMACs(p)))
      BY <1>1, <1>2, <1>3, <1>4
<1>6. Like(StoredMACs(p, db))
      BY <1>2, <1>4, <1>5 DEF StoredMACs
<1>7. Like(db')
      BY <1>1, <1>5, <1>6
<1> QED BY <1>7 DEF Like

\* The other statements of storeMACs, or their failure; then the next patch.
LEMMA PutMACsDoes ==
    ASSUME TypeOK, NEW p \in Fetchers, PutMutationMACs(p), f[p].snap = 0 => f[p].at \in 1..Len(log)
    PROVE  /\ f[p].pc = "putmacs" /\ f'[p].pc = "decode"
           /\ f'[p].ver = f[p].ver /\ f'[p].hash = f[p].hash /\ f'[p].snap = 0
           /\ f[p].snap > 0 => f'[p].at = f[p].at
           /\ f[p].snap = 0 => f'[p].at = f[p].at + 1
           /\ f'[p].to = f[p].to /\ f'[p].muts = f[p].muts /\ f'[p].want = f[p].want /\ f'[p].full = f[p].full
           /\ \A q \in Fetchers : q # p => f'[q] = f[q]
           /\ f' \in [Fetchers -> Locals]
           /\ UNCHANGED <<log, notified, called, holder, checks, requested, asked, sender, told, quiet>>
           /\ EventTypes' /\ ghost'.behind = ghost.behind
           /\ db'.ver = db.ver /\ db'.hash = db.hash /\ StoreTypes'
           /\ \/ /\ db' = StoredMACs(p, db) /\ ghost'.faults = ghost.faults
                 /\ ghost'.crashes = ghost.crashes /\ ghost'.dropped = ghost.dropped
                 /\ ghost.cut => ghost'.cut
                 /\ ~ghost'.cut => ~ghost.cut /\ ~Twice(p)
              \/ ghost'.cut /\ ghost'.faults > 0 /\ ghost'.faults > ghost.faults
<1>1. PICK a : a = IF f[p].snap > 0 THEN f[p].at ELSE f[p].at + 1
      OBVIOUS
<1>2. /\ f[p] \in Locals /\ f[p].snap \in 0..Len(log) /\ f[p].at \in 0..(Len(log) + 1) /\ Len(log) \in Nat
      /\ 0 \in 0..Len(log)
      BY LocalTypes, StateTypes
<1>3. a \in 0..(Len(log) + 1) /\ (f[p].snap > 0 => a = f[p].at) /\ (f[p].snap = 0 => a = f[p].at + 1)
      BY <1>1, <1>2
<1>4. PICK l : l = [f[p] EXCEPT !.pc = "decode", !.snap = 0, !.at = a]
      OBVIOUS
<1>5. /\ l \in Locals /\ l.pc = "decode" /\ l.ver = f[p].ver /\ l.hash = f[p].hash
      /\ l.snap = 0 /\ l.at = a /\ l.to = f[p].to /\ l.want = f[p].want /\ l.full = f[p].full
      /\ l.muts = f[p].muts
      BY <1>2, <1>3, <1>4 DEF Locals
<1>6. f' = [f EXCEPT ![p] = l] /\ f[p].pc = "putmacs"
      BY <1>1, <1>4, Zenon DEF PutMutationMACs, Local
<1>7. f'[p] = l /\ (\A x \in Fetchers : x # p => f'[x] = f[x]) /\ f' \in [Fetchers -> Locals]
      BY <1>5, <1>6, Moved DEF TypeOK, FetchTypes
<1>8. UNCHANGED <<log, notified, called, holder, checks, requested, asked, sender, told, quiet>>
      BY DEF PutMutationMACs, server, keying
<1>9. CASE db' = StoredMACs(p, db) /\ ghost' = [ghost EXCEPT !.cut = ghost.cut \/ Twice(p)]
  <2>1. PICK t \in BOOLEAN : t = (ghost.cut \/ Twice(p))
        BY Zenon
  <2>2. ghost' = [ghost EXCEPT !.cut = t]
        BY <1>9, <2>1, Zenon
  <2>3. EventTypes'
        BY <1>8, <2>2 DEF TypeOK, EventTypes
  <2>4. /\ ghost'.behind = ghost.behind /\ ghost'.faults = ghost.faults /\ ghost'.crashes = ghost.crashes
        /\ ghost'.dropped = ghost.dropped /\ ghost'.cut = t
        BY <2>2 DEF TypeOK, EventTypes
  <2>5. (ghost.cut => t) /\ (~t => ~ghost.cut /\ ~Twice(p))
        BY <2>1, Zenon
  <2>6. db'.ver = db.ver /\ db'.hash = db.hash /\ StoreTypes'
        BY <1>8, <1>9, StoredMACsDoes DEF StoreTypes
  <2> QED BY <1>3, <1>5, <1>6, <1>7, <1>8, <1>9, <2>3, <2>4, <2>5, <2>6
<1>10. CASE MACsLost /\ db' \in {db, DeleteMACs(db, RemovedMACs(p)), PutMACs(db, AddedMACs(p))}
  <2>1. ghost' = [ghost EXCEPT !.faults = ghost.faults + 1, !.cut = TRUE]
        BY <1>10 DEF MACsLost
  <2>2. ghost.faults \in Nat
        BY StateTypes
  <2>3. ghost'.behind = ghost.behind /\ ghost'.cut /\ ghost'.faults = ghost.faults + 1
        BY <2>1 DEF TypeOK, EventTypes
  <2>4. EventTypes'
    <3>1. PICK n \in Nat : n = ghost.faults + 1
          BY <2>2
    <3>2. PICK t \in BOOLEAN : t = TRUE
          BY Zenon
    <3>3. ghost' = [ghost EXCEPT !.faults = n, !.cut = t]
          BY <2>1, <3>1, <3>2, Zenon
    <3> QED BY <1>8, <3>3 DEF TypeOK, EventTypes
  <2>6. ghost'.faults > 0 /\ ghost'.faults > ghost.faults
        BY <2>2, <2>3
  <2>7. db'.ver = db.ver /\ db'.hash = db.hash /\ StoreTypes'
        BY <1>8, <1>10, StoredMACsDoes DEF StoreTypes
  <2> QED BY <1>3, <1>5, <1>6, <1>7, <1>8, <1>10, <2>3, <2>4, <2>6, <2>7
<1> QED BY <1>9, <1>10 DEF PutMutationMACs

LEMMA NoFetchTypes ==
    ASSUME Len(log) \in Nat
    PROVE  /\ NoFetch \in Locals /\ NoFetch.pc = "off" /\ NoFetch.ver = 0 /\ NoFetch.snap = 0
           /\ NoFetch.want = FALSE /\ NoFetch.full = FALSE /\ NoFetch.muts = <<>>
BY HashTypes DEF NoFetch, Locals

\* The end of a page.
LEMMA DispatchDoes ==
    ASSUME TypeOK, NEW p \in Fetchers, DispatchAppState(p)
    PROVE  /\ f[p].pc = "decode" /\ f[p].snap = 0
           /\ f[p].full => told' = told
           /\ ~f[p].full => told' = told \o f[p].muts
           /\ \/ /\ f'[p].pc = "fetch" /\ holder' = holder /\ f'[p].ver = f[p].ver /\ f'[p].hash = f[p].hash
                 /\ f'[p].snap = 0 /\ f'[p].want = f[p].want /\ f'[p].full = f[p].full /\ f'[p].muts = <<>>
              \/ f'[p] = NoFetch /\ holder' = NoOne
           /\ \A q \in Fetchers : q # p => f'[q] = f[q]
           /\ f' \in [Fetchers -> Locals]
           /\ UNCHANGED <<log, notified, db, called, checks, requested, asked, sender, quiet, ghost>>
<1>1. /\ f[p] \in Locals /\ f[p].full \in BOOLEAN /\ f[p].more \in BOOLEAN /\ Len(log) \in Nat
      BY LocalTypes, StateTypes
<1>2. f[p].pc = "decode" /\ f[p].snap = 0
      BY DEF DispatchAppState, PageDecoded
<1>3. (f[p].full => told' = told) /\ (~f[p].full => told' = told \o f[p].muts)
      BY <1>1, Zenon DEF DispatchAppState, DispatchEvts
<1>4. UNCHANGED <<log, notified, db, called, checks, requested, asked, sender, quiet, ghost>>
      BY DEF DispatchAppState, server, keying
<1>5. CASE f[p].more
  <2>9. <<>> \in Seq(Versions)
        OBVIOUS
  <2>0. PICK e \in Seq(Versions) : e = <<>>
        BY <2>9, Zenon
  <2>1. PICK l : l = [f[p] EXCEPT !.pc = "fetch", !.muts = e]
        OBVIOUS
  <2>2. f' = [f EXCEPT ![p] = l] /\ holder' = holder
        BY <1>5, <2>0, <2>1 DEF DispatchAppState, NextPage, Local
  <2>3. /\ l \in Locals /\ l.pc = "fetch" /\ l.ver = f[p].ver /\ l.hash = f[p].hash /\ l.snap = f[p].snap
        /\ l.want = f[p].want /\ l.full = f[p].full /\ l.muts = e
        BY <1>1, <2>1 DEF Locals
  <2>4. f'[p] = l /\ (\A x \in Fetchers : x # p => f'[x] = f[x]) /\ f' \in [Fetchers -> Locals]
        BY <2>2, <2>3, Moved DEF TypeOK, FetchTypes
  <2> QED BY <1>2, <1>3, <1>4, <2>0, <2>2, <2>3, <2>4
<1>6. CASE ~f[p].more
  <2>1. f' = [f EXCEPT ![p] = NoFetch] /\ holder' = NoOne
        BY <1>6 DEF DispatchAppState, Return, Local
  <2>2. f'[p] = NoFetch /\ (\A x \in Fetchers : x # p => f'[x] = f[x]) /\ f' \in [Fetchers -> Locals]
        BY <1>1, <2>1, NoFetchTypes, Moved DEF TypeOK, FetchTypes
  <2> QED BY <1>2, <1>3, <1>4, <2>1, <2>2
<1> QED BY <1>1, <1>5, <1>6

\* A fetch begins, or finds that it is not needed.
LEMMA StartDoes ==
    ASSUME TypeOK, NEW p \in Fetchers, FetchStarts(p)
    PROVE  /\ holder = NoOne
           /\ UNCHANGED <<log, notified, checks, requested, asked, quiet, ghost>>
           /\ called' \in [Fetchers -> [on : BOOLEAN, full : BOOLEAN, onlyIf : BOOLEAN]]
           /\ \/ /\ called[p].full
                 /\ db'.ver = 0 /\ db'.hash = NoHash /\ db'.macs = {} /\ db'.keys = db.keys /\ told' = <<>>
                 /\ sender.pc = "encode" => sender'.torn
              \/ /\ ~called[p].full
                 /\ db' = db /\ told' = told
                 /\ sender.torn => sender'.torn
           /\ sender'.pc = sender.pc /\ sender'.ver = sender.ver /\ sender'.muts = sender.muts
           /\ sender'.key = sender.key /\ sender'.hash = sender.hash
           /\ SendTypes' /\ StoreTypes'
           /\ \/ UNCHANGED <<holder, f>>
              \/ /\ holder' = p /\ f'[p].pc = "fetch" /\ f'[p].ver = db'.ver /\ f'[p].hash = db'.hash
                 /\ f'[p].snap = 0 /\ f'[p].muts = <<>>
                 /\ f'[p].full <=> db'.ver = 0
                 /\ f'[p].want <=> db'.ver = 0
                 /\ \A q \in Fetchers : q # p => f'[q] = f[q]
                 /\ f' \in [Fetchers -> Locals]
<1>1. PICK d : d = IF called[p].full THEN NoVersion(db) ELSE db
      OBVIOUS
<1>2. /\ db' = d
      /\ told' = IF called[p].full THEN <<>> ELSE told
      /\ sender' = [sender EXCEPT !.torn = sender.torn \/ (called[p].full /\ sender.pc = "encode")]
      /\ called' = [called EXCEPT ![p] = NoCall]
      /\ holder = NoOne
      BY <1>1, Zenon DEF FetchStarts, LockFree
<1>3. UNCHANGED <<log, notified, checks, requested, asked, quiet, ghost>>
      BY DEF FetchStarts, server, keying
<1>4. called' \in [Fetchers -> [on : BOOLEAN, full : BOOLEAN, onlyIf : BOOLEAN]]
      BY <1>2 DEF TypeOK, FetchTypes, NoCall
<1>5. called[p].full \in BOOLEAN /\ sender.torn \in BOOLEAN
      BY StateTypes DEF TypeOK, FetchTypes
<1>6. db \in [ver : 0..Len(log), hash : Hashes, macs : SUBSET Rows, keys : SUBSET Keys] /\ Len(log) \in Nat
      BY StateTypes DEF TypeOK, StoreTypes
<1>7. PICK t \in BOOLEAN : t = (sender.torn \/ (called[p].full /\ sender.pc = "encode"))
      BY Zenon
<1>8. sender' = [sender EXCEPT !.torn = t]
      BY <1>2, <1>7, Zenon
<1>9. /\ sender'.pc = sender.pc /\ sender'.ver = sender.ver /\ sender'.muts = sender.muts
      /\ sender'.key = sender.key /\ sender'.hash = sender.hash /\ sender'.torn = t
      /\ SendTypes'
      BY <1>8 DEF TypeOK, SendTypes
<1>10. (sender.torn => t) /\ (called[p].full /\ sender.pc = "encode" => t)
      BY <1>7, <1>5, Zenon
<1>11. (sender.torn => sender'.torn) /\ (called[p].full /\ sender.pc = "encode" => sender'.torn)
      BY <1>9, <1>10
<1>12. \/ /\ called[p].full
          /\ db'.ver = 0 /\ db'.hash = NoHash /\ db'.macs = {} /\ db'.keys = db.keys /\ told' = <<>>
       \/ ~called[p].full /\ db' = db /\ told' = told
  <2>1. CASE called[p].full
    <3>1. db' = NoVersion(db) /\ told' = <<>>
          BY <1>1, <1>2, <2>1
    <3> QED BY <2>1, <3>1, <1>6 DEF NoVersion
  <2>2. CASE ~called[p].full
        BY <1>1, <1>2, <2>2
  <2> QED BY <2>1, <2>2
<1>13. StoreTypes'
  <2>1. d \in [ver : 0..Len(log), hash : Hashes, macs : SUBSET Rows, keys : SUBSET Keys]
    <3>1. 0 \in 0..Len(log)
          BY <1>6
    <3>2. NoVersion(db) \in [ver : 0..Len(log), hash : Hashes, macs : SUBSET Rows, keys : SUBSET Keys]
          BY <3>1, <1>6, HashTypes DEF NoVersion
    <3> QED BY <3>2, <1>1, <1>6
  <2> QED BY <2>1, <1>2, <1>3 DEF StoreTypes
<1>14. CASE holder' = p /\ Local(p, [NoFetch EXCEPT !.pc = "fetch", !.full = (d.ver = 0), !.want = (d.ver = 0),
                                               !.ver = d.ver, !.hash = d.hash])
  <2>1. PICK b \in BOOLEAN : b = (d.ver = 0)
        BY Zenon
  <2>2. PICK l : l = [NoFetch EXCEPT !.pc = "fetch", !.full = b, !.want = b, !.ver = d.ver, !.hash = d.hash]
        OBVIOUS
  <2>3. d.ver \in 0..Len(log) /\ d.hash \in Hashes
        BY <1>2, <1>3, <1>13 DEF StoreTypes
  <2>4. NoFetch \in Locals /\ NoFetch.snap = 0 /\ NoFetch.muts = <<>>
        BY <1>6, NoFetchTypes
  <2>5. /\ l \in Locals /\ l.pc = "fetch" /\ l.ver = d.ver /\ l.hash = d.hash
        /\ l.full = b /\ l.want = b
        BY <2>2, <2>3, <2>4 DEF Locals
  <2>6. l.snap = 0 /\ l.muts = <<>>
        BY <2>2, <2>4 DEF Locals
  <2>7. f' = [f EXCEPT ![p] = l]
        BY <1>14, <2>1, <2>2, Zenon DEF Local
  <2>8. f'[p] = l /\ (\A x \in Fetchers : x # p => f'[x] = f[x]) /\ f' \in [Fetchers -> Locals]
        BY <2>5, <2>7, Moved DEF TypeOK, FetchTypes
  <2>9. (f'[p].full <=> db'.ver = 0) /\ (f'[p].want <=> db'.ver = 0)
    <3>1. b <=> db'.ver = 0
          BY <2>1, <1>2, Zenon
    <3> QED BY <3>1, <2>5, <2>8
  <2> QED BY <1>2, <1>3, <1>4, <1>9, <1>11, <1>12, <1>13, <1>14, <2>5, <2>6, <2>8, <2>9
<1>15. CASE UNCHANGED <<holder, f>>
      BY <1>2, <1>3, <1>4, <1>9, <1>11, <1>12, <1>13, <1>15
<1> QED BY <1>1, <1>14, <1>15, Zenon DEF FetchStarts

\* No statement of storeMACs is lost and no mutation thrown away.
GhostSame ==
    /\ ghost'.behind = ghost.behind /\ ghost'.cut = ghost.cut /\ ghost'.crashes = ghost.crashes
    /\ ghost'.faults >= ghost.faults /\ ghost'.dropped = ghost.dropped

\* A step that leaves the patches, the fetches, the events and the stored version alone.
Aside ==
    /\ UNCHANGED <<log, holder, f, told, quiet>>
    /\ db'.ver = db.ver /\ db'.hash = db.hash /\ db'.macs = db.macs
    /\ GhostSame

LEMMA GhostKept ==
    ASSUME TypeOK, UNCHANGED <<told, quiet>>,
           \/ UNCHANGED ghost
           \/ Fault
           \/ Trouble /\ ghost' = [ghost EXCEPT !.resets = ghost.resets + 1]
           \/ \E b \in BOOLEAN : ghost' = [ghost EXCEPT !.missed = b]
    PROVE  GhostSame /\ EventTypes'
<1>1. ghost.faults \in Nat /\ ghost.crashes \in Nat /\ ghost.resets \in Nat
      BY StateTypes, BoundAssumption
<1>2. CASE UNCHANGED ghost
      BY <1>1, <1>2 DEF GhostSame, TypeOK, EventTypes
<1>3. CASE Fault
  <2>1. PICK n \in Nat : n = ghost.faults + 1
        BY <1>1
  <2>2. ghost' = [ghost EXCEPT !.faults = n]
        BY <1>3, <2>1 DEF Fault
  <2>3. EventTypes'
        BY <2>2 DEF TypeOK, EventTypes
  <2>4. GhostSame
        BY <1>1, <2>1, <2>2 DEF GhostSame, TypeOK, EventTypes
  <2> QED BY <2>3, <2>4
<1>4. CASE Trouble /\ ghost' = [ghost EXCEPT !.resets = ghost.resets + 1]
  <2>1. PICK n \in 0..MaxTrouble : n = ghost.resets + 1
        BY <1>1, <1>4, BoundAssumption DEF Trouble
  <2>2. ghost' = [ghost EXCEPT !.resets = n]
        BY <1>4, <2>1
  <2>3. EventTypes'
        BY <2>2 DEF TypeOK, EventTypes
  <2>4. GhostSame
        BY <1>1, <2>2 DEF GhostSame, TypeOK, EventTypes
  <2> QED BY <2>3, <2>4
<1>5. CASE \E b \in BOOLEAN : ghost' = [ghost EXCEPT !.missed = b]
  <2>1. PICK b \in BOOLEAN : ghost' = [ghost EXCEPT !.missed = b]
        BY <1>5
  <2>3. EventTypes'
        BY <2>1 DEF TypeOK, EventTypes
  <2>4. GhostSame
        BY <1>1, <2>1 DEF GhostSame, TypeOK, EventTypes
  <2> QED BY <2>3, <2>4
<1> QED BY <1>2, <1>3, <1>4, <1>5

LEMMA CallsTypes ==
    ASSUME TypeOK, NEW p \in Fetchers, NEW full \in BOOLEAN, NEW onlyIf \in BOOLEAN, Calls(p, full, onlyIf)
    PROVE  called' \in [Fetchers -> [on : BOOLEAN, full : BOOLEAN, onlyIf : BOOLEAN]]
<1>1. called \in [Fetchers -> [on : BOOLEAN, full : BOOLEAN, onlyIf : BOOLEAN]]
      BY DEF TypeOK, FetchTypes
<1>2. Call(full, onlyIf) \in [on : BOOLEAN, full : BOOLEAN, onlyIf : BOOLEAN]
      BY DEF Call
<1>3. called' = [called EXCEPT ![p] = Call(full, onlyIf)]
      BY DEF Calls
<1> QED BY <1>1, <1>2, <1>3

LEMMA NotificationDoes ==
    ASSUME TypeOK, HandleAppStateNotification
    PROVE  Aside /\ UNCHANGED sender /\ TypeOK'
<1>1. "sync" \in Fetchers /\ FALSE \in BOOLEAN
      BY DEF Fetchers
<1>2. called' \in [Fetchers -> [on : BOOLEAN, full : BOOLEAN, onlyIf : BOOLEAN]]
      BY <1>1, CallsTypes DEF HandleAppStateNotification
<1>3. UNCHANGED <<log, db, holder, f, checks, requested, asked, sender, told, quiet, ghost>> /\ notified' = FALSE
      BY DEF HandleAppStateNotification, keying
<1>4. GhostSame /\ EventTypes'
      BY <1>3, GhostKept
<1>5. ServerTypes' /\ StoreTypes' /\ FetchTypes' /\ KeyTypes' /\ SendTypes'
      BY <1>2, <1>3 DEF TypeOK, ServerTypes, StoreTypes, FetchTypes, KeyTypes, SendTypes, Locals
<1> QED BY <1>3, <1>4, <1>5 DEF Aside, TypeOK

LEMMA FullSyncDoes ==
    ASSUME TypeOK, UserFullSync
    PROVE  Aside /\ UNCHANGED sender /\ TypeOK'
<1>1. "user" \in Fetchers /\ FALSE \in BOOLEAN /\ TRUE \in BOOLEAN
      BY DEF Fetchers
<1>2. called' \in [Fetchers -> [on : BOOLEAN, full : BOOLEAN, onlyIf : BOOLEAN]]
      BY <1>1, CallsTypes DEF UserFullSync
<1>3. UNCHANGED <<log, notified, db, holder, f, checks, requested, asked, sender, told, quiet>>
      BY DEF UserFullSync, keying, server
<1>4. GhostSame /\ EventTypes'
      BY <1>3, GhostKept DEF UserFullSync
<1>5. ServerTypes' /\ StoreTypes' /\ FetchTypes' /\ KeyTypes' /\ SendTypes'
      BY <1>2, <1>3 DEF TypeOK, ServerTypes, StoreTypes, FetchTypes, KeyTypes, SendTypes, Locals
<1> QED BY <1>3, <1>4, <1>5 DEF Aside, TypeOK

LEMMA RequestDoes ==
    ASSUME TypeOK, NEW ks \in checks, RequestMissingAppStateKeys(ks)
    PROVE  Aside /\ UNCHANGED sender /\ TypeOK'
<1>1. PICK filtered : /\ filtered \subseteq ks
                      /\ requested' = requested \cup filtered
                      /\ \/ asked' = asked \cup filtered /\ UNCHANGED ghost
                         \/ Fault /\ UNCHANGED asked
  <2>1. PICK again \in BOOLEAN :
            LET missing == ks \ db.keys
                filtered == IF again THEN missing ELSE missing \ requested
            IN  /\ requested' = requested \cup filtered
                /\ \/ asked' = asked \cup filtered /\ UNCHANGED ghost
                   \/ filtered # {} /\ Fault /\ UNCHANGED asked
        BY DEF RequestMissingAppStateKeys
  <2>2. PICK g : g = IF again THEN ks \ db.keys ELSE (ks \ db.keys) \ requested
        OBVIOUS
  <2>3. g \subseteq ks
        BY <2>2
  <2> QED BY <2>1, <2>2, <2>3, Zenon
<1>2. UNCHANGED <<log, notified, db, called, holder, f, sender, told, quiet>> /\ checks' = checks \ {ks}
      BY DEF RequestMissingAppStateKeys, server, fetching
<1>3. GhostSame /\ EventTypes'
      BY <1>1, <1>2, GhostKept
<1>4. KeyTypes'
      BY <1>1, <1>2 DEF TypeOK, KeyTypes
<1>5. ServerTypes' /\ StoreTypes' /\ FetchTypes' /\ SendTypes'
      BY <1>2 DEF TypeOK, ServerTypes, StoreTypes, FetchTypes, SendTypes, Locals
<1> QED BY <1>2, <1>3, <1>4, <1>5 DEF Aside, TypeOK

LEMMA KeyShareDoes ==
    ASSUME TypeOK, NEW k \in Keys, HandleAppStateSyncKeyShare(k)
    PROVE  Aside /\ UNCHANGED sender /\ TypeOK'
<1>1. "share" \in Fetchers /\ FALSE \in BOOLEAN
      BY DEF Fetchers
<1>0. PICK b \in BOOLEAN : b = ~IsReRequest(k)
      BY Zenon
<1>2. called' \in [Fetchers -> [on : BOOLEAN, full : BOOLEAN, onlyIf : BOOLEAN]]
  <2>1. Calls("share", FALSE, b)
        BY <1>0, Zenon DEF HandleAppStateSyncKeyShare
  <2> QED BY <2>1, <1>1, CallsTypes
<1>3. UNCHANGED <<log, notified, holder, f, checks, requested, sender, told, quiet>> /\ asked' = asked \ {k}
      BY DEF HandleAppStateSyncKeyShare, server
<1>4. \/ db' = PutKey(db, k) /\ \E c \in BOOLEAN : ghost' = [ghost EXCEPT !.missed = c]
      \/ Fault /\ UNCHANGED db
      BY Zenon DEF HandleAppStateSyncKeyShare
<1>5. GhostSame /\ EventTypes'
      BY <1>3, <1>4, GhostKept
<1>6. /\ db'.ver = db.ver /\ db'.hash = db.hash /\ db'.macs = db.macs /\ StoreTypes'
      BY <1>3, <1>4 DEF TypeOK, StoreTypes, PutKey
<1>7. ServerTypes' /\ FetchTypes' /\ KeyTypes' /\ SendTypes'
      BY <1>2, <1>3 DEF TypeOK, ServerTypes, FetchTypes, KeyTypes, SendTypes, Locals
<1> QED BY <1>3, <1>5, <1>6, <1>7 DEF Aside, TypeOK

LEMMA NoSendTypes ==
    ASSUME NEW n \in 0..MaxSends
    PROVE  /\ NoSend(n).pc = "off"
           /\ NoSend(n) \in [pc : {"off", "encode"}, ver : 0..MaxVersion, muts : Sends \cup {<<>>},
                             key : Keys \cup {0}, hash : Hashes, torn : BOOLEAN, n : 0..MaxSends]
BY HashTypes, BoundAssumption DEF NoSend

LEMMA SendReadsDoes ==
    ASSUME TypeOK, NEW i \in Sends, SendReads(i)
    PROVE  /\ Aside /\ TypeOK' /\ UNCHANGED <<db, ghost>> /\ sender'.pc = "encode" /\ sender'.ver = db.ver
           /\ sender'.hash = db.hash /\ sender'.muts = i /\ sender'.key \in Keys /\ db.ver < MaxVersion
           /\ ~sender'.torn => ~Storing /\ ~ghost.cut
<1>1. PICK latest \in db.keys :
         sender' = [pc |-> "encode", ver |-> db.ver, muts |-> i, key |-> latest, hash |-> db.hash,
                    torn |-> Storing \/ ghost.cut, n |-> sender.n + 1]
      BY DEF SendReads
<1>2. PICK t \in BOOLEAN : t = (Storing \/ ghost.cut)
      BY Zenon
<1>3. PICK m \in 0..MaxSends : m = sender.n + 1
      BY StateTypes, BoundAssumption DEF SendReads
<1>4. sender' = [pc |-> "encode", ver |-> db.ver, muts |-> i, key |-> latest, hash |-> db.hash,
                 torn |-> t, n |-> m]
      BY <1>1, <1>2, <1>3, Zenon
<1>5. latest \in Keys /\ db.ver \in 0..MaxVersion /\ db.hash \in Hashes
      BY StateTypes, BoundAssumption
<1>6. SendTypes'
      BY <1>4, <1>5 DEF SendTypes
<1>7. /\ sender'.pc = "encode" /\ sender'.ver = db.ver /\ sender'.torn = t
      /\ sender'.hash = db.hash /\ sender'.muts = i /\ sender'.key \in Keys
      BY <1>4, <1>5
<1>8. ~sender'.torn => ~Storing /\ ~ghost.cut
  <2>1. ~t => ~Storing /\ ~ghost.cut
        BY <1>2, Zenon
  <2> QED BY <2>1, <1>7
<1>9. UNCHANGED <<log, notified, db, called, holder, f, checks, requested, asked, told, quiet, ghost>>
      BY DEF SendReads, server, fetching, keying
<1>10. db.ver < MaxVersion
      BY DEF SendReads
<1>11. GhostSame /\ EventTypes'
      BY <1>9, GhostKept
<1>12. ServerTypes' /\ StoreTypes' /\ FetchTypes' /\ KeyTypes'
      BY <1>9 DEF TypeOK, ServerTypes, StoreTypes, FetchTypes, KeyTypes, Locals
<1> QED BY <1>6, <1>7, <1>8, <1>9, <1>10, <1>11, <1>12 DEF Aside, TypeOK

LEMMA RefusedDoes ==
    ASSUME TypeOK, SendRefused
    PROVE  Aside /\ sender'.pc = "off" /\ TypeOK'
<1>1. UNCHANGED <<log, notified, db, called, holder, f, checks, requested, asked, told, quiet, ghost>>
      BY DEF SendRefused, server, fetching, keying
<1>2. sender' = NoSend(sender.n) /\ sender.n \in 0..MaxSends
      BY StateTypes DEF SendRefused
<1>3. GhostSame /\ EventTypes'
      BY <1>1, GhostKept
<1>4. sender'.pc = "off" /\ SendTypes'
      BY <1>2, NoSendTypes DEF SendTypes
<1>5. ServerTypes' /\ StoreTypes' /\ FetchTypes' /\ KeyTypes'
      BY <1>1 DEF TypeOK, ServerTypes, StoreTypes, FetchTypes, KeyTypes, Locals
<1> QED BY <1>1, <1>3, <1>4, <1>5 DEF Aside, TypeOK

\* The server has one more patch.
LEMMA Grown ==
    ASSUME TypeOK, NEW m \in Patches, log' = Append(log, m), Len(log) < MaxVersion
    PROVE  /\ log' \in Seq(Patches) /\ Len(log') = Len(log) + 1 /\ Len(log') <= MaxVersion /\ Len(log) \in Nat
           /\ log'[Len(log) + 1] = m
           /\ \A v \in 1..Len(log) : log'[v] = log[v]
           /\ \A v \in 0..Len(log) : ContentOf(log', v) = ContentOf(log, v)
           /\ Locals \subseteq Locals'
<1>1. log \in Seq(Patches) /\ Len(log) \in Nat
      BY StateTypes
<1>2. log' \in Seq(Patches) /\ Len(log') = Len(log) + 1 /\ log'[Len(log) + 1] = m
      BY <1>1
<1>3. \A v \in 1..Len(log) : log'[v] = log[v]
      BY <1>1
<1>4. Len(log') <= MaxVersion
      BY <1>1, <1>2, BoundAssumption
<1>5. ASSUME NEW v \in 0..Len(log)
      PROVE  ContentOf(log', v) = ContentOf(log, v)
  <2>1. v = 0 \/ log'[v] = log[v]
        BY <1>1, <1>3
  <2> QED BY <2>1 DEF ContentOf
<1>6. Locals \subseteq Locals'
  <2>1. 0..Len(log) \subseteq 0..Len(log') /\ 0..(Len(log) + 1) \subseteq 0..(Len(log') + 1)
        BY <1>1, <1>2
  <2> QED BY <2>1 DEF Locals
<1> QED BY <1>1, <1>2, <1>3, <1>4, <1>5, <1>6

Grows(m) ==
    /\ m \in Patches /\ Len(log) < MaxVersion /\ log' = Append(log, m)
    /\ UNCHANGED <<db, holder, f, told, quiet>>
    /\ GhostSame

LEMMA GrownTypes ==
    ASSUME TypeOK, NEW m, Grows(m), EventTypes', SendTypes', KeyTypes', notified' \in BOOLEAN,
           called' \in [Fetchers -> [on : BOOLEAN, full : BOOLEAN, onlyIf : BOOLEAN]]
    PROVE  TypeOK'
<1>1. /\ log' \in Seq(Patches) /\ Len(log') = Len(log) + 1 /\ Len(log') <= MaxVersion /\ Len(log) \in Nat
      /\ Locals \subseteq Locals'
      BY Grown DEF Grows
<1>2. ServerTypes'
      BY <1>1 DEF ServerTypes
<1>3. StoreTypes'
  <2>1. 0..Len(log) \subseteq 0..Len(log')
        BY <1>1
  <2> QED BY <2>1 DEF TypeOK, StoreTypes, Grows
<1>4. FetchTypes'
  <2>1. f' = f /\ holder' = holder /\ f \in [Fetchers -> Locals] /\ holder \in Fetchers \cup {NoOne}
        BY DEF TypeOK, FetchTypes, Grows
  <2>2. f' \in [Fetchers -> Locals']
        BY <1>1, <2>1
  <2> QED BY <2>1, <2>2 DEF FetchTypes
<1> QED BY <1>2, <1>3, <1>4 DEF TypeOK

LEMMA NextContentTypes ==
    ASSUME TypeOK, NEW m \in MutationLists, Len(log) < MaxVersion
    PROVE  /\ NextContent(m) \in [Indexes -> Values \cup {NoValue}]
           /\ NextContent(m) = After(ContentOf(log, Len(log)), Len(log) + 1, m)
           /\ Len(log) \in Nat /\ Len(log) + 1 \in Versions
<1>1. Len(log) \in Nat /\ Len(log) + 1 \in Versions
      BY StateTypes, BoundAssumption DEF Versions
<1>2. Content(Len(log)) \in [Indexes -> Values \cup {NoValue}]
  <2>1. CASE Len(log) = 0
        BY <2>1 DEF Content, NoContent
  <2>2. CASE Len(log) # 0
    <3>1. Len(log) \in 1..Len(log)
          BY <1>1, <2>2
    <3> QED BY <2>2, <3>1, PatchTypes DEF Content
  <2> QED BY <2>1, <2>2
<1> QED BY <1>1, <1>2, AfterTypes DEF NextContent, Content, ContentOf

SentPatch ==
    [muts |-> sender.muts, key |-> sender.key, mac |-> EncodedHash, torn |-> sender.torn,
     content |-> NextContent(sender.muts)]

LEMMA SendDoes ==
    ASSUME TypeOK, SendInv, SendAppState
    PROVE  /\ Grows(SentPatch) /\ TypeOK' /\ sender.pc = "encode" /\ sender.ver = Len(log)
           /\ sender'.pc = "off"
<1>1. sender.pc = "encode" /\ sender.ver = Len(log) /\ log' = Append(log, SentPatch)
      BY DEF SendAppState, BaseIsCurrent, SentPatch
<1>2. sender.muts \in MutationLists /\ sender.key \in Keys /\ sender.ver < MaxVersion
      BY <1>1, UpdateAssumption DEF SendInv
<1>3. sender.torn \in BOOLEAN /\ sender.hash \in Hashes /\ sender.n \in 0..MaxSends
      BY StateTypes
<1>4. EncodedHash \in Hashes
      BY <1>3 DEF EncodedHash, UpdateHash, Hashes
<1>5. SentPatch \in Patches
  <2>1. NextContent(sender.muts) \in [Indexes -> Values \cup {NoValue}]
        BY <1>1, <1>2, NextContentTypes
  <2> QED BY <1>2, <1>3, <1>4, <2>1 DEF SentPatch, Patches
<1>6. UNCHANGED <<notified, db, holder, f, checks, requested, asked, told, quiet>>
      BY DEF SendAppState, keying
<1>7. sender'.pc = "off" /\ SendTypes'
      BY <1>3, NoSendTypes DEF SendAppState, SendTypes
<1>8. \/ Calls("sync", FALSE, FALSE) /\ UNCHANGED ghost
      \/ Fault /\ UNCHANGED called
      BY DEF SendAppState
<1>9. GhostSame /\ EventTypes'
      BY <1>6, <1>8, GhostKept
<1>10. called' \in [Fetchers -> [on : BOOLEAN, full : BOOLEAN, onlyIf : BOOLEAN]]
  <2>1. CASE Calls("sync", FALSE, FALSE)
    <3>1. "sync" \in Fetchers /\ FALSE \in BOOLEAN
          BY DEF Fetchers
    <3> QED BY <2>1, <3>1, CallsTypes
  <2>2. CASE UNCHANGED called
        BY <2>2 DEF TypeOK, FetchTypes
  <2> QED BY <1>8, <2>1, <2>2
<1>11. Grows(SentPatch)
      BY <1>1, <1>2, <1>5, <1>6, <1>9 DEF Grows
<1>12. KeyTypes' /\ notified' \in BOOLEAN
      BY <1>6 DEF TypeOK, KeyTypes, ServerTypes
<1> QED BY <1>1, <1>7, <1>9, <1>10, <1>11, <1>12, GrownTypes

OtherPatch(u) ==
    [muts |-> u.muts, key |-> u.key, mac |-> HashOf(NextContent(u.muts)), torn |-> FALSE,
     content |-> NextContent(u.muts)]

LEMMA OtherDeviceDoes ==
    ASSUME TypeOK, NEW u \in Updates, OtherDevice(u)
    PROVE  Grows(OtherPatch(u)) /\ UNCHANGED sender /\ TypeOK' /\ u.muts \in MutationLists
<1>1. Len(log) < MaxVersion /\ log' = Append(log, OtherPatch(u)) /\ notified' = TRUE
      BY DEF OtherDevice, OtherPatch
<1>2. UNCHANGED <<db, called, holder, f, checks, requested, asked, sender, told, quiet, ghost>>
      BY DEF OtherDevice, fetching, keying
<1>3. u.muts \in MutationLists /\ u.key \in Keys
      BY UpdateAssumption
<1>4. OtherPatch(u) \in Patches
  <2>1. NextContent(u.muts) \in [Indexes -> Values \cup {NoValue}]
        BY <1>1, <1>3, NextContentTypes
  <2>2. HashOf(NextContent(u.muts)) \in Hashes
        BY HashTypes
  <2> QED BY <1>3, <2>1, <2>2 DEF OtherPatch, Patches
<1>5. GhostSame /\ EventTypes'
      BY <1>2, GhostKept
<1>6. Grows(OtherPatch(u))
      BY <1>1, <1>2, <1>4, <1>5 DEF Grows
<1>7. SendTypes' /\ KeyTypes'
      BY <1>2 DEF TypeOK, KeyTypes, SendTypes
<1>8. called' \in [Fetchers -> [on : BOOLEAN, full : BOOLEAN, onlyIf : BOOLEAN]] /\ notified' \in BOOLEAN
      BY <1>1, <1>2 DEF TypeOK, FetchTypes
<1> QED BY <1>2, <1>3, <1>5, <1>6, <1>7, <1>8, GrownTypes

LEMMA FetchAt ==
    ASSUME TypeOK, PlaceInv, NEW p \in Fetchers
    PROVE  /\ f[p].pc = "decode" => f[p].at > 0 /\ (f[p].snap = 0 => f[p].at = f[p].ver + 1)
           /\ f[p].pc \in {"putver", "putmacs"} /\ f[p].snap = 0 => f[p].at \in 1..Len(log)
           /\ f[p].pc = "decode" /\ f[p].snap > 0 => f[p].ver = 0
<1>1. /\ f[p].snap \in 0..Len(log) /\ f[p].at \in 0..(Len(log) + 1)
      /\ f[p].ver \in 0..Len(log) /\ Len(log) \in Nat
      BY LocalTypes, StateTypes
<1> QED BY <1>1 DEF PlaceInv, Place

LEMMA CrashDoes ==
    ASSUME TypeOK, PlaceInv, Crash
    PROVE  /\ UNCHANGED <<log, told, quiet>> /\ db'.ver = db.ver /\ db'.hash = db.hash
           /\ ~Storing => db' = db
           /\ holder' = NoOne /\ \A p \in Fetchers : f'[p] = NoFetch
           /\ sender'.pc = "off"
           /\ ghost'.crashes > 0 /\ ghost'.faults = ghost.faults /\ ghost'.behind = ghost.behind
           /\ ~ghost'.cut => ~ghost.cut /\ ~Storing
           /\ ghost.cut => ghost'.cut
           /\ TypeOK'
<1>1. UNCHANGED <<log, notified, asked, told, quiet>>
      BY DEF Crash, server
<1>17. /\ db'.ver = db.ver /\ db'.hash = db.hash /\ (~Storing => db' = db)
       /\ db' \in [ver : 0..Len(log), hash : Hashes, macs : SUBSET Rows, keys : SUBSET Keys]
  <2>1. CASE UNCHANGED db
        BY <2>1 DEF TypeOK, StoreTypes
  <2>2. ASSUME NEW p \in Fetchers, f[p].pc = "putmacs", db' = DeleteMACs(db, RemovedMACs(p))
        PROVE  /\ db'.ver = db.ver /\ db'.hash = db.hash /\ (~Storing => db' = db)
               /\ db' \in [ver : 0..Len(log), hash : Hashes, macs : SUBSET Rows, keys : SUBSET Keys]
        BY <2>2, FetchAt, StoredMACsDoes DEF Storing
  <2> QED BY <2>1, <2>2 DEF Crash
<1>2. holder' = NoOne /\ f' = [p \in Fetchers |-> NoFetch] /\ called' = [p \in Fetchers |-> NoCall]
      /\ checks' = {} /\ requested' = {} /\ sender' = NoSend(sender.n)
      BY DEF Crash
<1>3. ghost.faults \in Nat /\ ghost.crashes \in Nat /\ ghost.resets \in Nat /\ sender.n \in 0..MaxSends
      /\ ghost.cut \in BOOLEAN /\ Len(log) \in Nat
      BY StateTypes, BoundAssumption
<1>4. PICK n \in 0..MaxTrouble : n = ghost.crashes + 1
      BY <1>3, BoundAssumption DEF Crash, Trouble
<1>5. PICK t \in BOOLEAN : t = (ghost.cut \/ Storing)
      BY Zenon
<1>6. ghost' = [ghost EXCEPT !.crashes = n, !.cut = t]
      BY <1>4, <1>5, Zenon DEF Crash
<1>7. EventTypes'
      BY <1>1, <1>6 DEF TypeOK, EventTypes
<1>8. ghost'.crashes = n /\ ghost'.faults = ghost.faults /\ ghost'.behind = ghost.behind /\ ghost'.cut = t
      BY <1>6 DEF TypeOK, EventTypes
<1>9. (~t => ~ghost.cut /\ ~Storing) /\ (ghost.cut => t)
      BY <1>5, <1>3, Zenon
<1>10. sender'.pc = "off" /\ SendTypes'
      BY <1>2, <1>3, NoSendTypes DEF SendTypes
<1>11. FetchTypes'
  <2>1. NoFetch \in Locals'
        BY <1>1, <1>3, NoFetchTypes DEF Locals
  <2>2. NoCall \in [on : BOOLEAN, full : BOOLEAN, onlyIf : BOOLEAN]
        BY DEF NoCall
  <2> QED BY <2>1, <2>2, <1>2 DEF FetchTypes
<1>12. ServerTypes' /\ StoreTypes' /\ KeyTypes'
      BY <1>1, <1>2, <1>17 DEF TypeOK, ServerTypes, StoreTypes, KeyTypes
<1>13. TypeOK'
      BY <1>7, <1>10, <1>11, <1>12 DEF TypeOK
<1>14. ghost'.crashes > 0
      BY <1>3, <1>4, <1>8
<1>15. \A p \in Fetchers : f'[p] = NoFetch
      BY <1>2
<1>16. (~ghost'.cut => ~ghost.cut /\ ~Storing) /\ (ghost.cut => ghost'.cut)
      BY <1>8, <1>9
<1> QED BY <1>1, <1>2, <1>8, <1>10, <1>13, <1>14, <1>15, <1>16, <1>17

(***************************************************************************)
(* Every step keeps the types, and is one of twelve kinds.                 *)
(***************************************************************************)
LEMMA PageKeysTypes ==
    ASSUME TypeOK, PlaceInv, NEW p \in Fetchers, f[p].pc = "decode"
    PROVE  PageKeys(p) \in SUBSET Keys
<1>1. /\ f[p].snap \in 0..Len(log) /\ f[p].at \in 0..(Len(log) + 1) /\ f[p].to \in 0..Len(log)
      /\ f[p].ver \in 0..Len(log) /\ Len(log) \in Nat
      BY LocalTypes, StateTypes
<1>2. f[p].at > 0
      BY <1>1 DEF PlaceInv, Place
<1>3. \A w \in 1..Len(log) : log[w].key \in Keys
      BY PatchTypes
<1>4. {log[w].key : w \in f[p].at..f[p].to} \subseteq Keys
      BY <1>1, <1>2, <1>3
<1>5. ASSUME f[p].snap > 0
      PROVE  SnapshotKeys(f[p].snap) \subseteq Keys
  <2>1. f[p].snap \in Nat /\ f[p].snap \in 1..Len(log)
        BY <1>1, <1>5
  <2>2. \A w \in {f[p].snap} \cup Records(f[p].snap) : w \in 1..Len(log)
        BY <1>1, <2>1 DEF Records
  <2> QED BY <1>3, <2>2 DEF SnapshotKeys
<1> QED BY <1>4, <1>5 DEF PageKeys

LEMMA GivesUpTypes ==
    ASSUME TypeOK, PlaceInv, NEW p \in Fetchers, GivesUp(p), EventTypes', UNCHANGED <<notified, called, requested, asked>>,
           checks' = checks \/ (checks' = checks \cup {PageKeys(p)} /\ f[p].pc = "decode")
    PROVE  TypeOK'
<1>1. UNCHANGED <<log, db, sender>> /\ holder' = NoOne /\ f' = [f EXCEPT ![p] = NoFetch]
      BY DEF GivesUp
<1>2. f' \in [Fetchers -> Locals]
      BY <1>1, StateTypes, NoFetchTypes, Moved DEF TypeOK, FetchTypes
<1>3. f' \in [Fetchers -> Locals'] /\ holder' \in Fetchers \cup {NoOne}
      BY <1>1, <1>2 DEF Locals
<1>4. FetchTypes'
      BY <1>3 DEF FetchTypes, TypeOK
<1>5. KeyTypes'
      BY PageKeysTypes DEF TypeOK, KeyTypes
<1>6. ServerTypes' /\ StoreTypes' /\ SendTypes'
      BY <1>1 DEF TypeOK, ServerTypes, StoreTypes, SendTypes
<1> QED BY <1>4, <1>5, <1>6 DEF TypeOK

\* A step of a fetch that goes on.
LEMMA LocalTypesKept ==
    ASSUME TypeOK, f' \in [Fetchers -> Locals], UNCHANGED <<log, notified, called, checks, requested, asked>>,
           holder' \in Fetchers \cup {NoOne}, StoreTypes', SendTypes', EventTypes'
    PROVE  TypeOK'
<1>1. f' \in [Fetchers -> Locals']
      BY DEF Locals
<1> QED BY <1>1 DEF TypeOK, ServerTypes, FetchTypes, KeyTypes

Steps ==
    \/ \E p \in Fetchers : FetchStarts(p)
    \/ \E p \in Fetchers : GivesUp(p)
    \/ \E p \in Fetchers : FetchAppStatePatches(p)
    \/ \E p \in Fetchers : DecodeSnapshot(p) /\ ~GivesUp(p)
    \/ \E p \in Fetchers : DecodePatch(p) /\ ~GivesUp(p)
    \/ \E p \in Fetchers : PutAppStateVersion(p)
    \/ \E p \in Fetchers : PutMutationMACs(p)
    \/ \E p \in Fetchers : DispatchAppState(p)
    \/ Aside /\ (UNCHANGED sender \/ sender'.pc = "off" \/ \E m \in Sends : SendReads(m))
    \/ SendAppState
    \/ \E u \in Updates : OtherDevice(u)
    \/ Crash

LEMMA TypeStep ==
    ASSUME TypeOK, PlaceInv, SendInv, Next
    PROVE  TypeOK' /\ Steps
<1>0. /\ ServerTypes /\ StoreTypes /\ FetchTypes /\ KeyTypes /\ SendTypes /\ EventTypes
      /\ holder \in Fetchers \cup {NoOne}
      BY DEF TypeOK, FetchTypes
<1>1. ASSUME NEW p \in Fetchers, FetchStarts(p)
      PROVE  TypeOK' /\ Steps
  <2>1. f' \in [Fetchers -> Locals'] /\ holder' \in Fetchers \cup {NoOne}
        BY <1>0, <1>1, StartDoes DEF FetchTypes, Locals
  <2>2. FetchTypes'
        BY <2>1, <1>1, StartDoes DEF FetchTypes
  <2>3. StoreTypes' /\ SendTypes' /\ UNCHANGED <<log, notified, checks, requested, asked, quiet, ghost>>
        BY <1>1, StartDoes
  <2>4. told' = <<>> \/ told' = told
        BY <1>1, StartDoes
  <2>5. EventTypes'
    <3>1. <<>> \in Seq(Versions)
          OBVIOUS
    <3>2. told' \in Seq(Versions)
          BY <2>4, <3>1, <1>0, Zenon DEF EventTypes
    <3> QED BY <2>3, <3>2, <1>0 DEF EventTypes
  <2>6. ServerTypes' /\ KeyTypes'
        BY <2>3, <1>0 DEF ServerTypes, KeyTypes
  <2> QED BY <1>1, <2>2, <2>3, <2>5, <2>6 DEF TypeOK, Steps
<1>2. ASSUME NEW p \in Fetchers, FetchAppStatePatches(p)
      PROVE  TypeOK' /\ Steps
  <2>1. /\ f' \in [Fetchers -> Locals]
        /\ UNCHANGED <<log, notified, db, called, holder, checks, requested, asked, sender, told, quiet, ghost>>
        BY <1>2, FetchDoes
  <2>2. StoreTypes' /\ SendTypes' /\ EventTypes'
        BY <2>1, <1>0 DEF StoreTypes, SendTypes, EventTypes
  <2> QED BY <1>0, <1>2, <2>1, <2>2, LocalTypesKept DEF Steps
<1>3. ASSUME NEW p \in Fetchers, DecodeSnapshot(p)
      PROVE  TypeOK' /\ Steps
  <2>1. CASE GivesUp(p)
    <3>1. EventTypes' /\ UNCHANGED <<notified, called, requested, asked>> /\ f[p].pc = "decode"
          /\ (checks' = checks \/ checks' = checks \cup {PageKeys(p)})
      <4>1. f[p].pc = "decode"
            BY <1>3, SnapshotDoes
      <4>2. holder' = NoOne /\ f'[p] = NoFetch
            BY <2>1, <1>0 DEF GivesUp, FetchTypes
      <4>3. NoFetch.pc = "off"
            BY DEF NoFetch
      <4> QED BY <1>3, <4>1, <4>2, <4>3, SnapshotDoes
    <3> QED BY <2>1, <3>1, GivesUpTypes DEF Steps
  <2>2. CASE ~GivesUp(p)
    <3>1. /\ f' \in [Fetchers -> Locals]
          /\ UNCHANGED <<log, notified, db, called, holder, checks, requested, asked, sender, told, quiet, ghost>>
          BY <1>3, <2>2, SnapshotDoes
    <3>2. StoreTypes' /\ SendTypes' /\ EventTypes'
          BY <3>1, <1>0 DEF StoreTypes, SendTypes, EventTypes
    <3> QED BY <1>0, <1>3, <2>2, <3>1, <3>2, LocalTypesKept DEF Steps
  <2> QED BY <2>1, <2>2
<1>4. ASSUME NEW p \in Fetchers, DecodePatch(p)
      PROVE  TypeOK' /\ Steps
  <2>0. f[p].pc = "decode" /\ f[p].at > 0
        BY <1>4, FetchAt DEF DecodePatch
  <2>1. CASE GivesUp(p)
    <3>1. EventTypes' /\ UNCHANGED <<notified, called, requested, asked>>
          /\ (checks' = checks \/ checks' = checks \cup {PageKeys(p)})
      <4>2. holder' = NoOne /\ f'[p] = NoFetch
            BY <2>1, <1>0 DEF GivesUp, FetchTypes
      <4>3. NoFetch.pc = "off"
            BY DEF NoFetch
      <4> QED BY <1>4, <2>0, <4>2, <4>3, PatchDoes
    <3> QED BY <2>0, <2>1, <3>1, GivesUpTypes DEF Steps
  <2>2. CASE ~GivesUp(p)
    <3>1. /\ f' \in [Fetchers -> Locals]
          /\ UNCHANGED <<log, notified, db, called, holder, checks, requested, asked, sender, told, quiet, ghost>>
          BY <1>4, <2>0, <2>2, PatchDoes
    <3>2. StoreTypes' /\ SendTypes' /\ EventTypes'
          BY <3>1, <1>0 DEF StoreTypes, SendTypes, EventTypes
    <3> QED BY <1>0, <1>4, <2>2, <3>1, <3>2, LocalTypesKept DEF Steps
  <2> QED BY <2>1, <2>2
<1>5. ASSUME NEW p \in Fetchers, PutAppStateVersion(p)
      PROVE  TypeOK' /\ Steps
  <2>1. /\ f' \in [Fetchers -> Locals] /\ StoreTypes' /\ EventTypes'
        /\ UNCHANGED <<log, notified, called, holder, checks, requested, asked, sender, told>>
        BY <1>5, PutVersionDoes
  <2>2. SendTypes'
        BY <2>1, <1>0 DEF SendTypes
  <2> QED BY <1>0, <1>5, <2>1, <2>2, LocalTypesKept DEF Steps
<1>6. ASSUME NEW p \in Fetchers, PutMutationMACs(p)
      PROVE  TypeOK' /\ Steps
  <2>0. f[p].snap = 0 => f[p].at \in 1..Len(log)
        BY <1>6, FetchAt DEF PutMutationMACs
  <2>1. /\ f' \in [Fetchers -> Locals] /\ EventTypes'
        /\ UNCHANGED <<log, notified, called, holder, checks, requested, asked, sender, told, quiet>>
        /\ StoreTypes'
        BY <1>6, <2>0, PutMACsDoes
  <2>2. SendTypes'
        BY <2>1, <1>0 DEF SendTypes
  <2> QED BY <1>0, <1>6, <2>1, <2>2, LocalTypesKept DEF Steps
<1>7. ASSUME NEW p \in Fetchers, DispatchAppState(p)
      PROVE  TypeOK' /\ Steps
  <2>1. /\ f' \in [Fetchers -> Locals] /\ (holder' = holder \/ holder' = NoOne)
        /\ UNCHANGED <<log, notified, db, called, checks, requested, asked, sender, quiet, ghost>>
        /\ told' = told \/ told' = told \o f[p].muts
        BY <1>7, DispatchDoes, LocalTypes
  <2>2. told' \in Seq(Versions)
    <3>1. told \in Seq(Versions) /\ f[p].muts \in Seq(Versions)
          BY LocalTypes, StateTypes
    <3>2. told \o f[p].muts \in Seq(Versions)
          BY <3>1
    <3> QED BY <3>1, <3>2, <2>1, Zenon
  <2>3. SendTypes' /\ StoreTypes' /\ EventTypes'
        BY <2>1, <2>2, <1>0 DEF SendTypes, StoreTypes, EventTypes
  <2> QED BY <1>0, <1>7, <2>1, <2>3, LocalTypesKept DEF Steps
<1>8. ASSUME NEW p \in Fetchers, FetchFails(p)
      PROVE  TypeOK' /\ Steps
  <2>1. GivesUp(p) /\ EventTypes' /\ UNCHANGED <<notified, called, checks, requested, asked>>
        BY <1>8, FetchFailsDoes DEF FetchFails, server, keying
  <2> QED BY <2>1, GivesUpTypes DEF Steps
<1>9. ASSUME NEW p \in Fetchers, ContactsFail(p)
      PROVE  TypeOK' /\ Steps
  <2>1. GivesUp(p) /\ EventTypes' /\ UNCHANGED <<notified, called, checks, requested, asked>>
        BY <1>9, ContactsFailDoes DEF ContactsFail, server, keying
  <2> QED BY <2>1, GivesUpTypes DEF Steps
<1>10. CASE HandleAppStateNotification
      BY <1>10, NotificationDoes DEF Steps
<1>11. CASE UserFullSync
      BY <1>11, FullSyncDoes DEF Steps
<1>12. ASSUME NEW ks \in checks, RequestMissingAppStateKeys(ks)
       PROVE  TypeOK' /\ Steps
      BY <1>12, RequestDoes DEF Steps
<1>13. ASSUME NEW k \in Keys, HandleAppStateSyncKeyShare(k)
       PROVE  TypeOK' /\ Steps
      BY <1>13, KeyShareDoes DEF Steps
<1>14. ASSUME NEW m \in Sends, SendReads(m)
       PROVE  TypeOK' /\ Steps
      BY <1>14, SendReadsDoes DEF Steps
<1>15. CASE SendAppState
      BY <1>15, SendDoes DEF Steps
<1>16. CASE SendRefused
      BY <1>16, RefusedDoes DEF Steps
<1>17. ASSUME NEW u \in Updates, OtherDevice(u)
       PROVE  TypeOK' /\ Steps
      BY <1>17, OtherDeviceDoes DEF Steps
<1>18. CASE Crash
      BY <1>18, CrashDoes DEF Steps
<1>19. asked \subseteq Keys
      BY <1>0 DEF KeyTypes
<1> HIDE DEF Steps
<1> QED
    BY <1>1, <1>2, <1>3, <1>4, <1>5, <1>6, <1>7, <1>8, <1>9, <1>10, <1>11, <1>12, <1>13, <1>14, <1>15, <1>16,
       <1>17, <1>18, <1>19
    DEF Next, Fetching, RequestsKeys, PhoneReplies, PhoneAnswers, PhoneShares, Sending, Environment

(***************************************************************************)
(* Each part of the invariant is kept.                                     *)
(***************************************************************************)
LEMMA Alone ==
    ASSUME LockInv
    PROVE  /\ holder = NoOne => \A q \in Fetchers : f[q].pc = "off"
           /\ \A p \in Fetchers : f[p].pc # "off" => holder = p /\ \A q \in Fetchers : q # p => f[q].pc = "off"
BY DEF LockInv, Fetchers, NoOne

LEMMA GivesUpDoes ==
    ASSUME TypeOK, NEW p \in Fetchers, GivesUp(p)
    PROVE  /\ f'[p].pc = "off" /\ f'[p].snap = 0 /\ f'[p].want = FALSE /\ f[p].pc \in {"fetch", "decode"}
           /\ \A q \in Fetchers : q # p => f'[q] = f[q]
<1>1. f' = [f EXCEPT ![p] = NoFetch] /\ f \in [Fetchers -> Locals]
      BY DEF GivesUp, TypeOK, FetchTypes
<1>2. f'[p] = NoFetch /\ \A q \in Fetchers : q # p => f'[q] = f[q]
      BY <1>1
<1> QED BY <1>2 DEF NoFetch, GivesUp

LEMMA LockStep ==
    ASSUME TypeOK, LockInv, PlaceInv, SendInv, Steps
    PROVE  LockInv'
<1>1. ASSUME NEW p \in Fetchers, FetchStarts(p)
      PROVE  LockInv'
      BY <1>1, StartDoes, Alone DEF LockInv
<1>2. ASSUME NEW p \in Fetchers, GivesUp(p)
      PROVE  LockInv'
  <2>1. f[p].pc # "off" /\ holder' = NoOne
        BY <1>2 DEF GivesUp
  <2> QED BY <1>2, <2>1, GivesUpDoes, Alone DEF LockInv, Fetchers, NoOne
<1>3. ASSUME NEW p \in Fetchers, FetchAppStatePatches(p)
      PROVE  LockInv'
      BY <1>3, FetchDoes DEF LockInv
<1>4. ASSUME NEW p \in Fetchers, DecodeSnapshot(p), ~GivesUp(p)
      PROVE  LockInv'
      BY <1>4, SnapshotDoes DEF LockInv
<1>5. ASSUME NEW p \in Fetchers, DecodePatch(p), ~GivesUp(p)
      PROVE  LockInv'
  <2>1. f[p].at > 0
        BY <1>5, FetchAt DEF DecodePatch
  <2> QED BY <1>5, <2>1, PatchDoes DEF LockInv
<1>6. ASSUME NEW p \in Fetchers, PutAppStateVersion(p)
      PROVE  LockInv'
      BY <1>6, PutVersionDoes DEF LockInv
<1>7. ASSUME NEW p \in Fetchers, PutMutationMACs(p)
      PROVE  LockInv'
  <2>1. f[p].snap = 0 => f[p].at \in 1..Len(log)
        BY <1>7, FetchAt DEF PutMutationMACs
  <2> QED BY <1>7, <2>1, PutMACsDoes DEF LockInv
<1>8. ASSUME NEW p \in Fetchers, DispatchAppState(p)
      PROVE  LockInv'
  <2>1. NoFetch.pc = "off"
        BY DEF NoFetch
  <2> QED BY <1>8, <2>1, DispatchDoes, Alone DEF LockInv, Fetchers, NoOne
<1>9. ASSUME UNCHANGED <<f, holder>>
      PROVE  LockInv'
      BY <1>9 DEF LockInv
<1>10. CASE Crash
  <2>1. NoFetch.pc = "off"
        BY DEF NoFetch
  <2> QED BY <1>10, <2>1, CrashDoes DEF LockInv, Fetchers, NoOne
<1>11. ASSUME NEW m, Grows(m)
       PROVE  LockInv'
      BY <1>9, <1>11 DEF Grows
<1>12. Aside => LockInv'
      BY <1>9 DEF Aside
<1> QED BY <1>1, <1>2, <1>3, <1>4, <1>5, <1>6, <1>7, <1>8, <1>10, <1>11, <1>12, SendDoes, OtherDeviceDoes DEF Steps

LEMMA PlaceStep ==
    ASSUME TypeOK, LockInv, PlaceInv, SendInv, TypeOK', Steps
    PROVE  PlaceInv'
<1> USE DEF Place
<1>0. ASSUME NEW p \in Fetchers, Place(p)', \A q \in Fetchers : q # p => f'[q] = f[q], UNCHANGED log
      PROVE  PlaceInv'
      BY <1>0 DEF PlaceInv
<1>1. ASSUME NEW p \in Fetchers, FetchStarts(p)
      PROVE  PlaceInv'
  <2>1. CASE UNCHANGED f
        BY <1>1, <2>1, StartDoes DEF PlaceInv
  <2>2. CASE ~UNCHANGED f
    <3>1. /\ f'[p].pc = "fetch" /\ f'[p].ver = db'.ver /\ f'[p].snap = 0
          /\ f'[p].full <=> db'.ver = 0
          /\ f'[p].want <=> db'.ver = 0
          /\ UNCHANGED log /\ \A q \in Fetchers : q # p => f'[q] = f[q]
          BY <1>1, <2>2, StartDoes
    <3> QED BY <3>1, <1>0
  <2> QED BY <2>1, <2>2
<1>2. ASSUME NEW p \in Fetchers, GivesUp(p)
      PROVE  PlaceInv'
  <2>1. UNCHANGED log
        BY <1>2 DEF GivesUp
  <2>4. f'[p].pc = "off" /\ f'[p].want = FALSE /\ f'[p].snap = 0 /\ \A q \in Fetchers : q # p => f'[q] = f[q]
        BY <1>2, GivesUpDoes
  <2>2. f'[p].pc = "off" /\ ~f'[p].want /\ ~(f'[p].snap > 0) /\ \A q \in Fetchers : q # p => f'[q] = f[q]
        BY <2>4
  <2>3. Place(p)'
        BY <2>2
  <2> QED BY <1>0, <2>1, <2>2, <2>3
<1>3. ASSUME NEW p \in Fetchers, FetchAppStatePatches(p)
      PROVE  PlaceInv'
  <2>1. Place(p)'
    <3>1. f[p].ver \in Nat /\ f'[p].snap \in Nat
      <4>1. f'[p] \in Locals /\ Len(log) \in Nat
            BY <1>3, FetchDoes, StateTypes
      <4> QED BY <4>1, LocalTypes DEF Locals
    <3>2. /\ f'[p].pc = "decode" /\ ~f'[p].want /\ f'[p].ver = f[p].ver /\ f'[p].full = f[p].full
          /\ f'[p].snap = 0 => f'[p].at = f[p].ver + 1
          /\ f'[p].snap > 0 => f[p].want /\ f'[p].at = f'[p].snap + 1
          BY <1>3, FetchDoes
    <3>3. f[p].want => f[p].full /\ f[p].ver = 0
          BY DEF PlaceInv
    <3>4. f'[p].snap > 0 => f'[p].full /\ f'[p].ver = 0
          BY <3>2, <3>3
    <3>5. ~(f'[p].snap > 0) => f'[p].ver = f'[p].at - 1
          BY <3>1, <3>2
    <3> QED BY <3>2, <3>4, <3>5
  <2> QED BY <1>0, <1>3, <2>1, FetchDoes
<1>4. ASSUME NEW p \in Fetchers, DecodeSnapshot(p), ~GivesUp(p)
      PROVE  PlaceInv'
  <2>1. /\ f'[p].pc = "putver" /\ f'[p].ver = f[p].snap /\ f'[p].snap = f[p].snap /\ f'[p].at = f[p].at
        /\ f'[p].want = f[p].want /\ f'[p].full = f[p].full /\ f[p].pc = "decode" /\ f[p].snap > 0
        /\ UNCHANGED log /\ \A q \in Fetchers : q # p => f'[q] = f[q]
        BY <1>4, SnapshotDoes
  <2>2. ~f'[p].want
        BY <2>1 DEF PlaceInv
  <2>3. Place(p)'
        BY <2>1, <2>2 DEF PlaceInv
  <2> QED BY <1>0, <2>1, <2>3
<1>5. ASSUME NEW p \in Fetchers, DecodePatch(p), ~GivesUp(p)
      PROVE  PlaceInv'
  <2>1. f[p].at > 0
        BY <1>5, FetchAt DEF DecodePatch
  <2> QED BY <1>0, <1>5, <2>1, PatchDoes DEF PlaceInv
<1>6. ASSUME NEW p \in Fetchers, PutAppStateVersion(p)
      PROVE  PlaceInv'
      BY <1>0, <1>6, PutVersionDoes DEF PlaceInv
<1>7. ASSUME NEW p \in Fetchers, PutMutationMACs(p)
      PROVE  PlaceInv'
  <2>1. f[p].snap = 0 => f[p].at \in 1..Len(log)
        BY <1>7, FetchAt DEF PutMutationMACs
  <2>2. f[p].snap \in Nat /\ f[p].at \in Nat /\ f[p].ver \in Nat
        BY LocalTypes, StateTypes
  <2>3. /\ f[p].pc = "putmacs" /\ f'[p].pc = "decode" /\ f'[p].ver = f[p].ver /\ f'[p].snap = 0
        /\ f[p].snap > 0 => f'[p].at = f[p].at
        /\ f[p].snap = 0 => f'[p].at = f[p].at + 1
        /\ f'[p].want = f[p].want
        /\ UNCHANGED log /\ \A q \in Fetchers : q # p => f'[q] = f[q]
        BY <1>7, <2>1, PutMACsDoes
  <2>4. ~f'[p].want /\ ~(f'[p].snap > 0)
        BY <2>3 DEF PlaceInv
  <2>5. f'[p].ver = f'[p].at - 1
    <3>1. CASE f[p].snap > 0
          BY <3>1, <2>2, <2>3 DEF PlaceInv
    <3>2. CASE f[p].snap = 0
          BY <3>2, <2>2, <2>3 DEF PlaceInv
    <3> QED BY <3>1, <3>2, <2>2
  <2>6. Place(p)'
        BY <2>3, <2>4, <2>5
  <2> QED BY <1>0, <2>3, <2>6
<1>8. ASSUME NEW p \in Fetchers, DispatchAppState(p)
      PROVE  PlaceInv'
  <2>1. NoFetch.pc = "off" /\ NoFetch.want = FALSE /\ NoFetch.snap = 0
        BY DEF NoFetch
  <2> QED BY <1>0, <1>8, <2>1, DispatchDoes DEF PlaceInv
<1>9. ASSUME UNCHANGED <<f, log>>
      PROVE  PlaceInv'
      BY <1>9 DEF PlaceInv
<1>10. CASE Crash
  <2>1. NoFetch.pc = "off" /\ NoFetch.want = FALSE /\ NoFetch.snap = 0
        BY DEF NoFetch
  <2> QED BY <1>10, <2>1, CrashDoes DEF PlaceInv
<1>11. ASSUME NEW m, Grows(m)
       PROVE  PlaceInv'
      BY <1>11, Grown DEF PlaceInv, Grows
<1>12. Aside => PlaceInv'
      BY <1>9 DEF Aside
<1> QED BY <1>1, <1>2, <1>3, <1>4, <1>5, <1>6, <1>7, <1>8, <1>10, <1>11, <1>12, SendDoes, OtherDeviceDoes DEF Steps

LEMMA VersionStep ==
    ASSUME TypeOK, LockInv, PlaceInv, SendInv, VersionInv, TypeOK', Steps
    PROVE  VersionInv'
<1> DEFINE Ghosts == ghost.behind => ghost.cut /\ ghost.faults > 0
<1>0. ASSUME NEW p \in Fetchers, f[p].pc # "off", \A q \in Fetchers : q # p => f'[q] = f[q],
             f'[p].pc # "off" => Level(p)', Ghosts'
      PROVE  VersionInv'
  <2>1. \A q \in Fetchers : q # p => f'[q].pc = "off"
        BY <1>0, Alone
  <2> QED BY <1>0, <2>1 DEF VersionInv, Working
<1>00. Ghosts /\ ghost.faults \in Nat /\ ghost.crashes \in Nat /\ (UNCHANGED ghost => Ghosts')
      BY StateTypes, BoundAssumption DEF VersionInv
<1>000. GhostSame => Ghosts'
  <2>1. TypeOK' => ghost'.faults \in Nat
        BY DEF TypeOK, EventTypes
  <2> QED BY <1>00, <2>1 DEF GhostSame
<1>1. ASSUME NEW p \in Fetchers, FetchStarts(p)
      PROVE  VersionInv'
  <2>1. UNCHANGED ghost /\ \A q \in Fetchers : f[q].pc = "off"
        BY <1>1, StartDoes, Alone
  <2>2. CASE UNCHANGED f
        BY <1>00, <2>1, <2>2 DEF VersionInv, Working
  <2>3. CASE ~UNCHANGED f
    <3>1. f'[p].pc = "fetch" /\ f'[p].ver = db'.ver /\ \A q \in Fetchers : q # p => f'[q] = f[q]
          BY <1>1, <2>3, StartDoes
    <3>2. db'.ver \in Int
          BY <1>1, StateTypes, StartDoes DEF StoreTypes
    <3> QED BY <1>00, <2>1, <3>1, <3>2 DEF VersionInv, Working, Level
  <2> QED BY <2>2, <2>3
<1>2. ASSUME NEW p \in Fetchers, GivesUp(p)
      PROVE  VersionInv'
  <2>1. Ghosts'
    <3>1. ghost'.faults \in Nat
          BY DEF TypeOK, EventTypes
    <3> QED BY <1>2, <1>00, <3>1 DEF GivesUp
  <2>2. f[p].pc # "off" /\ f'[p].pc = "off" /\ \A q \in Fetchers : q # p => f'[q] = f[q]
        BY <1>2, GivesUpDoes
  <2> QED BY <1>0, <2>1, <2>2
<1>3. ASSUME NEW p \in Fetchers, FetchAppStatePatches(p)
      PROVE  VersionInv'
  <2>1. /\ f[p].pc = "fetch" /\ f'[p].pc = "decode" /\ f'[p].ver = f[p].ver /\ UNCHANGED <<db, ghost>>
        /\ \A q \in Fetchers : q # p => f'[q] = f[q]
        BY <1>3, FetchDoes
  <2>2. Level(p)'
        BY <2>1 DEF VersionInv, Working, Level
  <2> QED BY <1>0, <1>00, <2>1, <2>2
<1>4. ASSUME NEW p \in Fetchers, DecodeSnapshot(p), ~GivesUp(p)
      PROVE  VersionInv'
  <2>1. /\ f[p].pc = "decode" /\ f'[p].pc = "putver" /\ f'[p].ver = f[p].snap /\ f[p].snap > 0
        /\ f'[p].snap = f[p].snap /\ UNCHANGED <<db, ghost>>
        /\ \A q \in Fetchers : q # p => f'[q] = f[q]
        BY <1>4, SnapshotDoes
  <2>2. db.ver <= f[p].ver /\ f[p].ver = 0 /\ db.ver \in Nat /\ f[p].snap \in Nat
        BY <2>1, FetchAt, StateTypes, LocalTypes DEF VersionInv, Working, Level
  <2>3. db.ver = 0 /\ db'.ver = 0 /\ Before(p)' = 0
        BY <2>1, <2>2 DEF Before
  <2>4. Level(p)'
        BY <2>1, <2>2, <2>3 DEF Level
  <2> QED BY <1>0, <1>00, <2>1, <2>4
<1>5. ASSUME NEW p \in Fetchers, DecodePatch(p), ~GivesUp(p)
      PROVE  VersionInv'
  <2>0. f[p].at > 0
        BY <1>5, FetchAt DEF DecodePatch
  <2>1. /\ f[p].pc = "decode" /\ f'[p].pc = "putver" /\ f'[p].ver = f[p].at /\ f[p].snap = 0
        /\ f'[p].snap = 0 /\ f'[p].at = f[p].at /\ UNCHANGED <<db, ghost>>
        /\ \A q \in Fetchers : q # p => f'[q] = f[q]
        BY <1>5, <2>0, PatchDoes
  <2>2. db.ver <= f[p].ver /\ f[p].at = f[p].ver + 1 /\ db.ver \in Nat /\ f[p].ver \in Nat
        BY <2>1, FetchAt, StateTypes, LocalTypes DEF VersionInv, Working, Level
  <2>3. Before(p)' = f[p].ver
        BY <2>1, <2>2 DEF Before
  <2>4. ~ghost.behind => db.ver = f[p].ver
        BY <2>1 DEF VersionInv, Working, Level
  <2>5. Level(p)'
        BY <2>1, <2>2, <2>3, <2>4 DEF Level
  <2> QED BY <1>0, <1>00, <2>1, <2>5
<1>6. ASSUME NEW p \in Fetchers, PutAppStateVersion(p)
      PROVE  VersionInv'
  <2>1. /\ f[p].pc = "putver" /\ f'[p].pc = "putmacs" /\ f'[p].ver = f[p].ver
        /\ \A q \in Fetchers : q # p => f'[q] = f[q]
        BY <1>6, PutVersionDoes
  <2>2. db.ver <= f[p].ver /\ f[p].ver \in Nat
        BY <2>1, LocalTypes DEF VersionInv, Working, Level
  <2>3. CASE db'.ver = f[p].ver /\ UNCHANGED ghost
    <3>1. Level(p)'
          BY <2>1, <2>2, <2>3 DEF Level
    <3> QED BY <1>0, <1>00, <2>1, <2>3, <3>1
  <2>4. CASE UNCHANGED db /\ ghost'.behind /\ ghost'.cut /\ ghost'.faults > 0
    <3>1. Level(p)'
          BY <2>1, <2>2, <2>4 DEF Level
    <3> QED BY <1>0, <2>1, <2>4, <3>1
  <2> QED BY <1>6, <2>3, <2>4, PutVersionDoes
<1>7. ASSUME NEW p \in Fetchers, PutMutationMACs(p)
      PROVE  VersionInv'
  <2>0. f[p].snap = 0 => f[p].at \in 1..Len(log)
        BY <1>7, FetchAt DEF PutMutationMACs
  <2>1. /\ f[p].pc = "putmacs" /\ f'[p].pc = "decode" /\ f'[p].ver = f[p].ver
        /\ \A q \in Fetchers : q # p => f'[q] = f[q]
        /\ ghost'.behind = ghost.behind
        BY <1>7, <2>0, PutMACsDoes
  <2>2. db'.ver = db.ver
        BY <1>7, <2>0, PutMACsDoes
  <2>3. Level(p)'
        BY <2>1, <2>2 DEF VersionInv, Working, Level
  <2>4. Ghosts'
        BY <1>7, <1>00, <2>0, PutMACsDoes
  <2> QED BY <1>0, <2>1, <2>3, <2>4
<1>8. ASSUME NEW p \in Fetchers, DispatchAppState(p)
      PROVE  VersionInv'
  <2>1. /\ f[p].pc = "decode" /\ UNCHANGED <<db, ghost>>
        /\ \A q \in Fetchers : q # p => f'[q] = f[q]
        /\ \/ f'[p].pc = "fetch" /\ f'[p].ver = f[p].ver
           \/ f'[p] = NoFetch
        BY <1>8, DispatchDoes
  <2>2. f'[p].pc # "off" => Level(p)'
    <3>1. NoFetch.pc = "off"
          BY DEF NoFetch
    <3> QED BY <2>1, <3>1 DEF VersionInv, Working, Level
  <2> QED BY <1>0, <1>00, <2>1, <2>2
<1>9. ASSUME UNCHANGED f, db'.ver = db.ver, GhostSame
      PROVE  VersionInv'
  <2>1. ghost'.behind = ghost.behind
        BY <1>9 DEF GhostSame
  <2> QED BY <1>9, <1>000, <2>1 DEF VersionInv, Working, Level, Before
<1>10. CASE Crash
  <2>1. NoFetch.pc = "off"
        BY DEF NoFetch
  <2>2. Ghosts'
        BY <1>10, <1>00, CrashDoes
  <2> QED BY <1>10, <2>1, <2>2, CrashDoes DEF VersionInv, Working
<1>11. ASSUME NEW m, Grows(m)
       PROVE  VersionInv'
      BY <1>9, <1>11 DEF Grows
<1>12. Aside => VersionInv'
      BY <1>9 DEF Aside
<1> QED BY <1>1, <1>2, <1>3, <1>4, <1>5, <1>6, <1>7, <1>8, <1>10, <1>11, <1>12, SendDoes, OtherDeviceDoes DEF Steps

\* Where the stored version is when no statement was lost.
LEMMA NotBehind ==
    ASSUME TypeOK, PlaceInv, VersionInv, ~ghost.cut \/ ~ghost.behind, NEW p \in Fetchers, f[p].pc # "off"
    PROVE  /\ f[p].pc = "putver" => db.ver = Before(p)
           /\ f[p].pc # "putver" => db.ver = f[p].ver
BY DEF VersionInv, Working, Level

\* The statements of storeMACs take the MACs to the stored version.
LEMMA MACsStep ==
    ASSUME TypeOK, CollectionInv, PlaceInv, VersionInv, ~ghost.cut, NEW p \in Fetchers, f[p].pc = "putmacs",
           ~Twice(p), MACsAre(Before(p)), db' = StoredMACs(p, db)
    PROVE  Stored(db'.macs, ContentOf(log, db.ver), db.ver)
<1>1. /\ f[p].snap \in 0..Len(log) /\ f[p].at \in 0..(Len(log) + 1) /\ f[p].ver \in 0..Len(log)
      /\ Len(log) \in Nat /\ Len(log) <= MaxVersion /\ db.macs \in SUBSET Rows
      /\ db \in [ver : 0..Len(log), hash : Hashes, macs : SUBSET Rows, keys : SUBSET Keys]
      BY LocalTypes, StateTypes DEF TypeOK, StoreTypes
<1>2. db.ver = f[p].ver /\ f[p].ver > 0
      BY NotBehind DEF PlaceInv, Place
<1>3. CASE f[p].snap > 0
  <2>1. PICK s : s = f[p].snap
        OBVIOUS
  <2>2. s \in Nat /\ s \in Versions /\ db.ver = s /\ s \in 1..Len(log)
        BY <2>1, <1>1, <1>2, <1>3, BoundAssumption DEF PlaceInv, Place, Versions
  <2>3. db.macs = {}
    <3>1. Before(p) = 0
          BY <1>3 DEF Before
    <3>2. ContentOf(log, 0) = NoContent
          BY DEF ContentOf
    <3> QED BY <3>1, <3>2, <1>1, StoredNothing DEF MACsAre
  <2>4. PICK c : c = ContentOf(log, s)
        OBVIOUS
  <2>5. SnapshotRows(s) = SnapRows(c, s)
        BY <2>4, ContentIs DEF SnapshotRows, SnapRows
  <2>6. Stored(SnapRows(c, s), c, s) /\ \A r, q \in SnapRows(c, s) : r.index = q.index => r = q
    <3>1. \A i \in Indexes : c[i] \in Values \cup {NoValue}
          BY <2>2, <2>4, PatchTypes DEF ContentOf
    <3> QED BY <2>2, <3>1, StoresSnapshot
  <2>7. PICK rows : rows = SnapRows(c, s)
        OBVIOUS
  <2>8. DeleteMACs(db, RemovedMACs(p)) = db
    <3>1. RemovedMACs(p) = {}
          BY <1>3 DEF RemovedMACs
    <3> QED BY <3>1, <2>3, <1>1 DEF DeleteMACs
  <2>9. db' = PutMACs(db, rows)
        BY <1>3, <2>1, <2>5, <2>7, <2>8 DEF StoredMACs, AddedMACs
  <2>10. db'.macs = rows
        BY <2>3, <2>6, <2>7, <2>9, <1>1, <1>2 DEF PutMACs
  <2> QED BY <2>2, <2>4, <2>6, <2>7, <2>10
<1>4. CASE ~(f[p].snap > 0)
  <2>1. f[p].snap = 0 /\ f[p].at = f[p].ver
        BY <1>1, <1>4 DEF PlaceInv, Place
  <2>2. PICK v \in Nat : f[p].at = v + 1 /\ v = f[p].at - 1
        BY <1>1, <1>2, <2>1
  <2>3. v + 1 \in 1..Len(log) /\ db.ver = v + 1 /\ Before(p) = v
        BY <1>1, <1>2, <2>1, <2>2 DEF Before
  <2>4. PICK m \in MutationLists : m = log[v + 1].muts
        BY <2>3, PatchTypes
  <2>5. v + 1 \in Versions /\ Distinct(m)
        BY <2>1, <2>2, <2>3, <2>4, PatchTypes DEF Twice
  <2>6. PICK c, d : c = ContentOf(log, v) /\ d = ContentOf(log, v + 1)
        OBVIOUS
  <2>7. d = After(c, v + 1, m)
    <3>1. d = log[v + 1].content /\ c = ContentOf(log, (v + 1) - 1)
          BY <2>3, <2>6 DEF ContentOf
    <3> QED BY <3>1, <2>3, <2>4 DEF CollectionInv
  <2>8. PICK macs \in SUBSET Rows : macs = db.macs
        BY <1>1
  <2>9. Stored(macs, c, v)
        BY <2>3, <2>6, <2>8 DEF MACsAre
  <2>10. /\ Stored(Kept(macs, m) \cup Added(v + 1, m), d, v + 1)
         /\ \A r \in Added(v + 1, m), q \in Kept(macs, m) : r.ver # q.ver
         /\ \A r, q \in Added(v + 1, m) : r.index = q.index => r = q
        BY <2>5, <2>7, <2>9, StoresPatch
  <2>11. PICK K, A : K = Kept(macs, m) /\ A = Added(v + 1, m)
        OBVIOUS
  <2>12. RemovedMACs(p) = Removed(m) /\ AddedMACs(p) = A
        BY <2>1, <2>2, <2>4, <2>11 DEF RemovedMACs, AddedMACs, Removed, Added, Row
  <2>13. PICK e : e = DeleteMACs(db, RemovedMACs(p))
        OBVIOUS
  <2>14. e.ver = db.ver /\ e.macs = K /\ e = [db EXCEPT !.macs = K]
        BY <1>1, <2>8, <2>11, <2>12, <2>13 DEF DeleteMACs, Kept
  <2>15. db' = PutMACs(e, A)
        BY <2>12, <2>13 DEF StoredMACs
  <2>16. db' = [e EXCEPT !.macs = e.macs \cup A]
    <3>1. \A r \in A, q \in e.macs : r.ver # q.ver
          BY <2>10, <2>11, <2>14
    <3>2. \A r \in A, q \in e.macs \cup A : ~(r # q /\ r.ver = q.ver /\ r.index = q.index)
          BY <2>10, <2>11, <3>1
    <3>3. A \cap e.macs = {}
          BY <3>1
    <3> QED BY <1>2, <2>14, <2>15, <3>2, <3>3 DEF PutMACs
  <2>17. db'.macs = K \cup A
        BY <1>1, <2>14, <2>16
  <2> QED BY <2>3, <2>6, <2>10, <2>11, <2>17
<1> QED BY <1>3, <1>4

\* A patch that is decoded has the hash of the version it makes: updateHash computes it, or,
\* for a patch that mentions an index twice, the MAC that it was compared with shows it.
LEMMA PatchHash ==
    ASSUME TypeOK, CollectionInv, UploadsVerify, NEW v \in Nat, v + 1 \in 1..Len(log), MACsAre(v), NEW h,
           v \in 0..Len(log),
           h = UpdateHash(HashOf(ContentOf(log, v)), v + 1, log[v + 1].muts), h = log[v + 1].mac
    PROVE  h = HashOf(ContentOf(log, v + 1))
<1>1. PICK m \in MutationLists : m = log[v + 1].muts
      BY PatchTypes
<1>2. v + 1 \in Versions /\ db.macs \in SUBSET Rows
      BY PatchTypes, StateTypes
<1>3. CASE Distinct(m)
  <2>1. PICK c, d : c = ContentOf(log, v) /\ d = ContentOf(log, v + 1)
        OBVIOUS
  <2>2. d = After(c, v + 1, m)
    <3>1. d = log[v + 1].content /\ c = ContentOf(log, (v + 1) - 1)
          BY <2>1 DEF ContentOf
    <3> QED BY <3>1, <1>1 DEF CollectionInv
  <2>3. Owned(log, c, v)
    <3>1. CASE v = 0
          BY <2>1, <3>1 DEF ContentOf, Owned, NoContent
    <3>2. CASE v # 0
          BY <2>1, <3>2 DEF ContentOf, CollectionInv
    <3> QED BY <3>1, <3>2
  <2>4. \A i \in Indexes : PrevMAC(i) = c[i]
        BY <1>2, <2>1, FindsLastMAC DEF MACsAre, PrevMAC
  <2>5. UpdateHash(HashOf(c), v + 1, m) = HashOf(d)
        BY <1>2, <1>3, <2>2, <2>3, <2>4, HashStep
  <2> QED BY <1>1, <2>1, <2>5
<1>4. CASE ~Distinct(m)
  <2>1. Verifies(v + 1)
        BY <1>1, <1>4 DEF UploadsVerify, CollectionInv
  <2> QED BY <2>1, ContentIs DEF Verifies
<1> QED BY <1>3, <1>4

LEMMA MACsSame ==
    ASSUME UNCHANGED log
    PROVE  \A v : ContentOf(log', v) = ContentOf(log, v)
OBVIOUS

LEMMA StepStep ==
    ASSUME TypeOK, CollectionInv, UploadsVerify, LockInv, PlaceInv, SendInv, VersionInv, StepInv, TypeOK', Steps
    PROVE  StepInv'
<1> USE DEF MACsAre
<1>0. ASSUME NEW p \in Fetchers, f[p].pc # "off", \A q \in Fetchers : q # p => f'[q] = f[q], UNCHANGED log,
             db'.hash = HashOf(ContentOf(log, db'.ver)),
             f'[p].pc # "putmacs" => Stored(db'.macs, ContentOf(log, db'.ver), db'.ver),
             f'[p].pc # "off" => f'[p].hash = HashOf(ContentOf(log, f'[p].ver)),
             f'[p].pc = "putmacs" => Stored(db'.macs, ContentOf(log, Before(p)'), Before(p)')
      PROVE  StepInv'
  <2>1. \A q \in Fetchers : q # p => f'[q].pc = "off"
        BY <1>0, Alone
  <2>2. log' = log
        BY <1>0
  <2>3. (~Storing)' => f'[p].pc # "putmacs"
        BY DEF Storing
  <2>4. \A q \in Fetchers : Working(q)' => q = p
        BY <2>1 DEF Working
  <2>5. \A q \in Fetchers : f'[q].pc = "putmacs" => q = p
        BY <2>1
  <2> QED BY <1>0, <2>2, <2>3, <2>4, <2>5 DEF StepInv, Working
<1>00. ASSUME NEW p \in Fetchers, f[p].pc # "off", ~ghost.cut
       PROVE  /\ db.hash = HashOf(ContentOf(log, db.ver))
              /\ f[p].pc # "putmacs" => Stored(db.macs, ContentOf(log, db.ver), db.ver)
              /\ f[p].hash = HashOf(ContentOf(log, f[p].ver))
              /\ f[p].pc = "putmacs" => Stored(db.macs, ContentOf(log, Before(p)), Before(p))
  <2>1. f[p].pc # "putmacs" => ~Storing
        BY <1>00, Alone DEF Storing
  <2> QED BY <1>00, <2>1 DEF StepInv, Working
<1>1. ASSUME NEW p \in Fetchers, FetchStarts(p), ~ghost'.cut
      PROVE  StepInv'
  <2>1. UNCHANGED <<ghost, log>> /\ (\A q \in Fetchers : f[q].pc = "off") /\ ~ghost.cut
        BY <1>1, StartDoes, Alone
  <2>2. ~Storing /\ db.hash = HashOf(ContentOf(log, db.ver)) /\ Stored(db.macs, ContentOf(log, db.ver), db.ver)
        BY <2>1 DEF StepInv, Storing
  <2>3. db'.hash = HashOf(ContentOf(log, db'.ver)) /\ Stored(db'.macs, ContentOf(log, db'.ver), db'.ver)
    <3>1. CASE db' = db
          BY <2>2, <3>1
    <3>2. CASE db'.ver = 0 /\ db'.hash = NoHash /\ db'.macs = {}
          BY <3>2, HashTypes, StoredNothing DEF ContentOf
    <3> QED BY <1>1, <3>1, <3>2, StartDoes
  <2>4. CASE UNCHANGED f
    <3>1. (\A q \in Fetchers : ~Working(q)') /\ (\A q \in Fetchers : f'[q].pc # "putmacs")
          BY <2>1, <2>4 DEF Working
    <3> QED BY <2>1, <2>3, <3>1 DEF StepInv
  <2>5. CASE ~UNCHANGED f
    <3>1. /\ f'[p].pc = "fetch" /\ f'[p].ver = db'.ver /\ f'[p].hash = db'.hash
          /\ \A q \in Fetchers : q # p => f'[q] = f[q]
          BY <1>1, <2>5, StartDoes
    <3>2. \A q \in Fetchers : f'[q].pc # "putmacs" /\ (Working(q)' => q = p)
          BY <2>1, <3>1 DEF Working
    <3> QED BY <2>1, <2>3, <3>1, <3>2 DEF StepInv
  <2> QED BY <2>4, <2>5
<1>2. ASSUME NEW p \in Fetchers, GivesUp(p), ~ghost'.cut
      PROVE  StepInv'
  <2>1. UNCHANGED <<log, db>> /\ ~ghost.cut
        BY <1>2 DEF GivesUp
  <2>2. f[p].pc \in {"fetch", "decode"} /\ f'[p].pc = "off" /\ \A q \in Fetchers : q # p => f'[q] = f[q]
        BY <1>2, GivesUpDoes
  <2> QED BY <1>0, <1>00, <2>1, <2>2
<1>3. ASSUME NEW p \in Fetchers, FetchAppStatePatches(p), ~ghost'.cut
      PROVE  StepInv'
  <2>1. /\ f[p].pc = "fetch" /\ f'[p].pc = "decode" /\ f'[p].ver = f[p].ver /\ f'[p].hash = f[p].hash
        /\ UNCHANGED <<log, db, ghost>>
        /\ \A q \in Fetchers : q # p => f'[q] = f[q]
        BY <1>3, FetchDoes
  <2> QED BY <1>0, <1>00, <1>3, <2>1
<1>4. ASSUME NEW p \in Fetchers, DecodeSnapshot(p), ~GivesUp(p), ~ghost'.cut
      PROVE  StepInv'
  <2>1. /\ f[p].pc = "decode" /\ f'[p].pc = "putver" /\ f'[p].ver = f[p].snap /\ f[p].snap > 0
        /\ f'[p].hash = [x \in Values |-> f[p].hash[x] + HashOf(Content(f[p].snap))[x]]
        /\ UNCHANGED <<log, db, ghost>>
        /\ \A q \in Fetchers : q # p => f'[q] = f[q]
        BY <1>4, SnapshotDoes
  <2>2. f[p].hash = NoHash
        BY <1>00, <1>4, <2>1, FetchAt, HashTypes DEF ContentOf
  <2>3. PICK h \in Hashes : h = HashOf(ContentOf(log, f[p].snap))
        BY HashTypes
  <2>4. [x \in Values |-> NoHash[x] + h[x]] = h
        BY DEF NoHash, Hashes
  <2>5. f'[p].hash = h
        BY <2>1, <2>2, <2>3, <2>4, ContentIs
  <2> QED BY <1>0, <1>00, <1>4, <2>1, <2>3, <2>5
<1>5. ASSUME NEW p \in Fetchers, DecodePatch(p), ~GivesUp(p), ~ghost'.cut
      PROVE  StepInv'
  <2>0. f[p].at > 0
        BY <1>5, FetchAt DEF DecodePatch
  <2>1. /\ f[p].pc = "decode" /\ f'[p].pc = "putver" /\ f'[p].ver = f[p].at /\ f[p].snap = 0
        /\ f'[p].hash = UpdateHash(f[p].hash, f[p].at, log[f[p].at].muts) /\ f'[p].hash = log[f[p].at].mac
        /\ f[p].at \in 1..Len(log)
        /\ UNCHANGED <<log, db, ghost>>
        /\ \A q \in Fetchers : q # p => f'[q] = f[q]
        BY <1>5, <2>0, PatchDoes
  <2>2. PICK v \in Nat : v = f[p].ver
        BY LocalTypes
  <2>3. f[p].at = v + 1 /\ v + 1 \in 1..Len(log) /\ db.ver = v
        BY <1>5, <2>1, <2>2, FetchAt, NotBehind
  <2>4. MACsAre(v) /\ f[p].hash = HashOf(ContentOf(log, v)) /\ v \in 0..Len(log)
        BY <1>00, <1>5, <2>1, <2>2, <2>3, LocalTypes
  <2>6. /\ f'[p].hash = UpdateHash(HashOf(ContentOf(log, v)), v + 1, log[v + 1].muts)
        /\ f'[p].hash = log[v + 1].mac
        BY <2>1, <2>3, <2>4
  <2>5. f'[p].hash = HashOf(ContentOf(log, f'[p].ver))
        BY <2>1, <2>3, <2>4, <2>6, PatchHash
  <2> QED BY <1>0, <1>00, <1>5, <2>1, <2>5
<1>6. ASSUME NEW p \in Fetchers, PutAppStateVersion(p), ~ghost'.cut
      PROVE  StepInv'
  <2>1. /\ f[p].pc = "putver" /\ f'[p].pc = "putmacs" /\ f'[p].ver = f[p].ver /\ f'[p].hash = f[p].hash
        /\ f'[p].snap = f[p].snap /\ f'[p].at = f[p].at
        /\ UNCHANGED <<log, ghost>> /\ db'.macs = db.macs /\ db'.ver = f[p].ver /\ db'.hash = f[p].hash
        /\ \A q \in Fetchers : q # p => f'[q] = f[q]
        BY <1>6, PutVersionDoes
  <2>2. Before(p)' = Before(p) /\ Before(p) = db.ver
        BY <1>6, <2>1, NotBehind DEF Before
  <2> QED BY <1>0, <1>00, <1>6, <2>1, <2>2
<1>7. ASSUME NEW p \in Fetchers, PutMutationMACs(p), ~ghost'.cut
      PROVE  StepInv'
  <2>0. f[p].snap = 0 => f[p].at \in 1..Len(log)
        BY <1>7, FetchAt DEF PutMutationMACs
  <2>1. /\ f[p].pc = "putmacs" /\ f'[p].pc = "decode" /\ f'[p].ver = f[p].ver /\ f'[p].hash = f[p].hash
        /\ \A q \in Fetchers : q # p => f'[q] = f[q]
        /\ db' = StoredMACs(p, db) /\ UNCHANGED log /\ ~ghost.cut /\ ~Twice(p)
        BY <1>7, <2>0, PutMACsDoes
  <2>2. db'.ver = db.ver /\ db'.hash = db.hash
        BY <1>7, <2>0, PutMACsDoes
  <2>3. Stored(db'.macs, ContentOf(log, db'.ver), db'.ver)
        BY <1>00, <1>7, <2>1, <2>2, MACsStep
  <2> QED BY <1>0, <1>00, <1>7, <2>1, <2>2, <2>3
<1>8. ASSUME NEW p \in Fetchers, DispatchAppState(p), ~ghost'.cut
      PROVE  StepInv'
  <2>1. /\ f[p].pc = "decode" /\ UNCHANGED <<log, db, ghost>>
        /\ \A q \in Fetchers : q # p => f'[q] = f[q]
        /\ \/ f'[p].pc = "fetch" /\ f'[p].ver = f[p].ver /\ f'[p].hash = f[p].hash
           \/ f'[p] = NoFetch
        BY <1>8, DispatchDoes
  <2>2. NoFetch.pc = "off"
        BY DEF NoFetch
  <2>3. f'[p].pc # "putmacs" /\ (f'[p].pc # "off" => f'[p].ver = f[p].ver /\ f'[p].hash = f[p].hash)
        BY <2>1, <2>2
  <2> QED BY <1>0, <1>00, <1>8, <2>1, <2>3
<1>9. ASSUME UNCHANGED f, db'.ver = db.ver, db'.hash = db.hash, db'.macs = db.macs, ghost'.cut = ghost.cut,
             \A v \in 0..Len(log) : ContentOf(log', v) = ContentOf(log, v)
      PROVE  StepInv'
  <2>1. db.ver \in 0..Len(log) /\ \A p \in Fetchers : f[p].ver \in 0..Len(log)
        BY StateTypes, LocalTypes
  <2>2. \A p \in Fetchers : f[p].pc = "putmacs" => Before(p) \in 0..Len(log)
    <3> SUFFICES ASSUME NEW p \in Fetchers, f[p].pc = "putmacs"
                 PROVE  Before(p) \in 0..Len(log)
        OBVIOUS
    <3>1. f[p].snap = 0 => f[p].at \in 1..Len(log)
          BY FetchAt
    <3>2. f[p].snap \in Nat /\ Len(log) \in Nat
          BY LocalTypes, StateTypes
    <3> QED BY <3>1, <3>2 DEF Before
  <2>3. /\ \A p \in Fetchers : Working(p)' <=> Working(p)
        /\ Storing' <=> Storing
        /\ \A p \in Fetchers : Before(p)' = Before(p)
        BY <1>9 DEF Working, Storing, Before
  <2>4. SUFFICES ASSUME ~ghost'.cut
                 PROVE  /\ db'.hash = HashOf(ContentOf(log', db'.ver))
                        /\ ~Storing' => Stored(db'.macs, ContentOf(log', db'.ver), db'.ver)
                        /\ \A p \in Fetchers : Working(p)' => f'[p].hash = HashOf(ContentOf(log', f'[p].ver))
                        /\ \A p \in Fetchers : f'[p].pc = "putmacs"
                              => Stored(db'.macs, ContentOf(log', Before(p)'), Before(p)')
        BY DEF StepInv
  <2>5. ~ghost.cut
        BY <1>9, <2>4
  <2>6. db'.hash = HashOf(ContentOf(log', db'.ver)) /\ (~Storing' => Stored(db'.macs, ContentOf(log', db'.ver), db'.ver))
        BY <1>9, <2>1, <2>3, <2>5 DEF StepInv
  <2>7. \A p \in Fetchers : Working(p)' => f'[p].hash = HashOf(ContentOf(log', f'[p].ver))
        BY <1>9, <2>1, <2>3, <2>5 DEF StepInv
  <2>8. \A p \in Fetchers : f'[p].pc = "putmacs" => Stored(db'.macs, ContentOf(log', Before(p)'), Before(p)')
        BY <1>9, <2>2, <2>3, <2>5 DEF StepInv
  <2> QED BY <2>6, <2>7, <2>8
<1>10. CASE Crash /\ ~ghost'.cut
  <2>1. NoFetch.pc = "off"
        BY DEF NoFetch
  <2>2. UNCHANGED <<log, db>> /\ ~ghost.cut /\ ~Storing /\ \A p \in Fetchers : f'[p] = NoFetch
        BY <1>10, CrashDoes
  <2>3. db.hash = HashOf(ContentOf(log, db.ver)) /\ Stored(db.macs, ContentOf(log, db.ver), db.ver)
        BY <2>2 DEF StepInv
  <2>4. \A p \in Fetchers : ~Working(p)' /\ f'[p].pc # "putmacs"
        BY <2>1, <2>2 DEF Working
  <2> QED BY <2>2, <2>3, <2>4 DEF StepInv
<1>11. ASSUME NEW m, Grows(m)
       PROVE  StepInv'
      BY <1>9, <1>11, Grown DEF Grows, GhostSame
<1>12. Aside => StepInv'
      BY <1>9, MACsSame DEF Aside, GhostSame
<1>13. CASE ghost'.cut
      BY <1>13 DEF StepInv
<1> QED BY <1>1, <1>2, <1>3, <1>4, <1>5, <1>6, <1>7, <1>8, <1>10, <1>11, <1>12, <1>13, SendDoes, OtherDeviceDoes DEF Steps

\* An upload based on the last version, from the store as it is: no fetch stores anything.
Current ==
    /\ ~ghost.cut /\ db.ver = Len(log)
    /\ \A p \in Fetchers : f[p].pc \notin {"putver", "putmacs"}

\* A current store has nothing to decode.
LEMMA NothingToDecode ==
    ASSUME TypeOK, LockInv, PlaceInv, VersionInv, Current, NEW p \in Fetchers,
           DecodeSnapshot(p) \/ DecodePatch(p)
    PROVE  GivesUp(p)
<1>1. f[p].pc = "decode" /\ db.ver = Len(log) /\ ~ghost.cut
      BY DEF DecodeSnapshot, DecodePatch, Current
<1>2. db.ver = f[p].ver /\ Len(log) \in Nat /\ Len(log) > 0
      BY <1>1, NotBehind, StateTypes DEF PlaceInv
<1>3. ~(f[p].snap > 0)
      BY <1>1, <1>2, FetchAt
<1>4. f[p].to \in 0..Len(log) /\ (f[p].snap = 0 => f[p].at = Len(log) + 1)
      BY <1>1, <1>2, FetchAt, LocalTypes
<1>5. ~DecodeSnapshot(p)
      BY <1>3 DEF DecodeSnapshot
<1>6. DecodePatch(p) => f[p].snap = 0 /\ f[p].at <= f[p].to
      BY DEF DecodePatch
<1> QED BY <1>2, <1>4, <1>5, <1>6

LEMMA SendStep ==
    ASSUME TypeOK, LockInv, PlaceInv, VersionInv, StepInv, SendInv, TypeOK', Steps
    PROVE  SendInv'
<1>0. ASSUME UNCHANGED <<sender, log>>, sender.pc = "encode" /\ ~sender.torn /\ Current => Current'
      PROVE  SendInv'
      BY <1>0 DEF SendInv, Current
<1>1. ASSUME NEW p \in Fetchers, FetchStarts(p)
      PROVE  SendInv'
  <2>1. /\ UNCHANGED <<log, ghost>>
        /\ sender'.pc = sender.pc /\ sender'.ver = sender.ver /\ sender'.muts = sender.muts
        /\ sender'.key = sender.key /\ sender'.hash = sender.hash
        BY <1>1, StartDoes
  <2>2. CASE sender.pc = "encode" /\ ~sender'.torn
    <3>1. db' = db /\ ~sender.torn
          BY <1>1, <2>2, StartDoes
    <3>2. \A q \in Fetchers : f'[q].pc \in {"putver", "putmacs"} => f[q].pc \in {"putver", "putmacs"}
          BY <1>1, StartDoes
    <3> QED BY <2>1, <3>1, <3>2 DEF SendInv
  <2>3. CASE ~(sender.pc = "encode" /\ ~sender'.torn)
        BY <2>1, <2>3 DEF SendInv
  <2> QED BY <2>2, <2>3
<1>2. ASSUME NEW p \in Fetchers, GivesUp(p)
      PROVE  SendInv'
  <2>1. UNCHANGED <<log, db, sender>> /\ ghost'.cut = ghost.cut
        BY <1>2 DEF GivesUp
  <2>2. \A q \in Fetchers : f'[q].pc \in {"putver", "putmacs"} => f[q].pc \in {"putver", "putmacs"}
        BY <1>2, GivesUpDoes
  <2> QED BY <1>0, <2>1, <2>2 DEF Current
<1>3. ASSUME NEW p \in Fetchers, FetchAppStatePatches(p)
      PROVE  SendInv'
  <2>1. UNCHANGED <<log, db, sender, ghost>>
        BY <1>3, FetchDoes
  <2>2. \A q \in Fetchers : f'[q].pc \in {"putver", "putmacs"} => f[q].pc \in {"putver", "putmacs"}
        BY <1>3, FetchDoes
  <2> QED BY <1>0, <2>1, <2>2 DEF Current
<1>4. ASSUME NEW p \in Fetchers, DecodeSnapshot(p), ~GivesUp(p)
      PROVE  SendInv'
  <2>1. ~Current
        BY <1>4, NothingToDecode
  <2> QED BY <1>0, <1>4, <2>1, SnapshotDoes
<1>5. ASSUME NEW p \in Fetchers, DecodePatch(p), ~GivesUp(p)
      PROVE  SendInv'
  <2>0. f[p].at > 0
        BY <1>5, FetchAt DEF DecodePatch
  <2>1. ~Current
        BY <1>5, NothingToDecode
  <2> QED BY <1>0, <1>5, <2>0, <2>1, PatchDoes
<1>6. ASSUME NEW p \in Fetchers, PutAppStateVersion(p)
      PROVE  SendInv'
  <2>1. ~Current
        BY <1>6 DEF Current, PutAppStateVersion
  <2> QED BY <1>0, <1>6, <2>1, PutVersionDoes
<1>7. ASSUME NEW p \in Fetchers, PutMutationMACs(p)
      PROVE  SendInv'
  <2>0. f[p].snap = 0 => f[p].at \in 1..Len(log)
        BY <1>7, FetchAt DEF PutMutationMACs
  <2>1. ~Current
        BY <1>7 DEF Current, PutMutationMACs
  <2> QED BY <1>0, <1>7, <2>0, <2>1, PutMACsDoes
<1>8. ASSUME NEW p \in Fetchers, DispatchAppState(p)
      PROVE  SendInv'
  <2>1. UNCHANGED <<log, db, sender, ghost>>
        BY <1>8, DispatchDoes
  <2>2. \A q \in Fetchers : f'[q].pc \in {"putver", "putmacs"} => f[q].pc \in {"putver", "putmacs"}
    <3>1. NoFetch.pc = "off"
          BY DEF NoFetch
    <3> QED BY <1>8, <3>1, DispatchDoes
  <2> QED BY <1>0, <2>1, <2>2 DEF Current
<1>9. CASE Aside /\ UNCHANGED sender
      BY <1>0, <1>9 DEF Aside, GhostSame, Current
<1>10. ASSUME sender'.pc = "off"
       PROVE  SendInv'
      BY <1>10 DEF SendInv
<1>11. ASSUME NEW i \in Sends, SendReads(i)
       PROVE  SendInv'
  <2>1. /\ Aside /\ UNCHANGED <<db, ghost>> /\ sender'.pc = "encode" /\ sender'.ver = db.ver
        /\ sender'.hash = db.hash /\ sender'.muts = i /\ sender'.key \in Keys /\ db.ver < MaxVersion
        /\ ~sender'.torn => ~Storing /\ ~ghost.cut
        BY <1>11, SendReadsDoes
  <2>2. db.ver <= Len(log) /\ Len(log) \in Nat
        BY StateTypes
  <2>3. ASSUME ~sender'.torn
        PROVE  db.hash = HashOf(ContentOf(log, db.ver)) /\ (db.ver = Len(log) => Current)
    <3>1. ~Storing /\ ~ghost.cut
          BY <2>1, <2>3
    <3>2. db.hash = HashOf(ContentOf(log, db.ver))
          BY <3>1 DEF StepInv
    <3>3. ASSUME db.ver = Len(log), NEW p \in Fetchers
          PROVE  f[p].pc \notin {"putver", "putmacs"}
      <4>1. f[p].pc # "putmacs"
            BY <3>1 DEF Storing
      <4>2. CASE f[p].pc = "putver"
        <5>1. Before(p) = Len(log)
              BY <3>1, <3>3, <4>2, NotBehind
        <5>2. f[p].snap = 0 => f[p].at \in 1..Len(log)
              BY <4>2, FetchAt
        <5>3. f[p].snap \in Nat /\ Len(log) > 0
              BY LocalTypes, StateTypes DEF PlaceInv
        <5> QED BY <2>2, <5>1, <5>2, <5>3 DEF Before
      <4> QED BY <4>1, <4>2
    <3> QED BY <3>1, <3>2, <3>3 DEF Current
  <2>4. UNCHANGED <<log, f>>
        BY <2>1 DEF Aside
  <2> QED BY <2>1, <2>2, <2>3, <2>4 DEF SendInv, Current
<1>12. ASSUME NEW m, Grows(m), UNCHANGED sender
       PROVE  SendInv'
  <2>1. /\ Len(log') = Len(log) + 1 /\ Len(log) \in Nat
        /\ \A v \in 0..Len(log) : ContentOf(log', v) = ContentOf(log, v)
        BY <1>12, Grown DEF Grows
  <2>2. sender.ver \in Nat
        BY StateTypes, BoundAssumption
  <2> QED BY <1>12, <2>1, <2>2 DEF SendInv
<1> QED BY <1>1, <1>2, <1>3, <1>4, <1>5, <1>6, <1>7, <1>8, <1>9, <1>10, <1>11, <1>12, SendDoes, OtherDeviceDoes,
           CrashDoes DEF Steps

\* The program's uploads and those of other devices: the collection after the new patch.
LEMMA NewPatch ==
    ASSUME TypeOK, NEW m, Grows(m), m.muts \in MutationLists, m.content = NextContent(m.muts)
    PROVE  /\ Len(log) \in Nat /\ Len(log) + 1 \in Versions
           /\ Len(log') = Len(log) + 1 /\ log'[Len(log) + 1] = m
           /\ \A v \in 1..Len(log) : log'[v] = log[v]
           /\ \A v \in 0..Len(log) : ContentOf(log', v) = ContentOf(log, v)
           /\ ContentOf(log', Len(log) + 1) = m.content
           /\ m.content = After(ContentOf(log, Len(log)), Len(log) + 1, m.muts)
<1>1. /\ Len(log') = Len(log) + 1 /\ Len(log) \in Nat /\ log'[Len(log) + 1] = m
      /\ \A v \in 1..Len(log) : log'[v] = log[v]
      /\ \A v \in 0..Len(log) : ContentOf(log', v) = ContentOf(log, v)
      BY Grown DEF Grows
<1>2. /\ Len(log) + 1 \in Versions
      /\ NextContent(m.muts) = After(ContentOf(log, Len(log)), Len(log) + 1, m.muts)
      BY NextContentTypes DEF Grows
<1>3. ContentOf(log', Len(log) + 1) = m.content
  <2>1. Len(log) + 1 # 0
        BY <1>1
  <2> QED BY <1>1, <2>1 DEF ContentOf
<1> QED BY <1>1, <1>2, <1>3

\* The values of a version are those of mutations of their indexes.
LEMMA ContentOwned ==
    ASSUME CollectionInv, NEW v \in 0..Len(log), Len(log) \in Nat
    PROVE  Owned(log, ContentOf(log, v), v)
<1>1. CASE v = 0
      BY <1>1 DEF ContentOf, Owned, NoContent
<1>2. CASE v # 0
      BY <1>2 DEF ContentOf, CollectionInv
<1> QED BY <1>1, <1>2

LEMMA CollectionStep ==
    ASSUME TypeOK, CollectionInv, LockInv, PlaceInv, SendInv, TypeOK', Steps
    PROVE  CollectionInv'
<1>0. ASSUME UNCHANGED log
      PROVE  CollectionInv'
      BY <1>0 DEF CollectionInv
<1>1. ASSUME NEW m, Grows(m), m.muts \in MutationLists, m.content = NextContent(m.muts), m.torn => Distinct(m.muts)
      PROVE  CollectionInv'
  <2>1. PICK n \in Nat : n = Len(log)
        BY StateTypes
  <2>2. /\ n + 1 \in Versions /\ Len(log') = n + 1 /\ log'[n + 1] = m
        /\ \A v \in 1..n : log'[v] = log[v]
        /\ \A v \in 0..n : ContentOf(log', v) = ContentOf(log, v)
        /\ m.content = After(ContentOf(log, n), n + 1, m.muts)
        BY <1>1, <2>1, NewPatch
  <2>3. \A x \in Values : x[1] \in Nat /\ x[1] > 0
        BY ValueIs, BoundAssumption DEF Versions
  <2>4. ASSUME NEW c, NEW v \in 0..n, Owned(log, c, v)
        PROVE  Owned(log', c, v) /\ Owned(log', c, n + 1)
    <3> SUFFICES ASSUME NEW i \in Indexes, c[i] # NoValue
                 PROVE  /\ c[i] \in Values /\ c[i][1] <= v /\ c[i][1] <= n + 1
                        /\ c[i][2] \in DOMAIN log'[c[i][1]].muts
                        /\ log'[c[i][1]].muts[c[i][2]].index = i
        BY DEF Owned
    <3>1. /\ c[i] \in Values /\ c[i][1] <= v
          /\ c[i][2] \in DOMAIN log[c[i][1]].muts
          /\ log[c[i][1]].muts[c[i][2]].index = i
          BY <2>4 DEF Owned
    <3>2. c[i][1] \in 1..n
          BY <2>3, <3>1
    <3> QED BY <2>2, <3>1, <3>2
  <2>5. Owned(log', m.content, n + 1)
    <3>1. PICK c : c = ContentOf(log, n)
          OBVIOUS
    <3>2. n \in 0..n /\ Owned(log, c, n)
          BY <2>1, <3>1, ContentOwned
    <3>3. Owned(log', c, n + 1)
          BY <2>4, <3>2
    <3>4. PICK u \in MutationLists : u = m.muts
          BY <1>1
    <3> SUFFICES ASSUME NEW i \in Indexes, m.content[i] # NoValue
                 PROVE  /\ m.content[i] \in Values /\ m.content[i][1] <= n + 1
                        /\ m.content[i][2] \in DOMAIN log'[m.content[i][1]].muts
                        /\ log'[m.content[i][1]].muts[m.content[i][2]].index = i
        BY DEF Owned
    <3>5. CASE \A k \in DOMAIN u : u[k].index # i
      <4>1. m.content[i] = c[i]
            BY <2>2, <3>1, <3>4, <3>5, AfterIs
      <4> QED BY <3>3, <4>1 DEF Owned
    <3>6. CASE \E k \in DOMAIN u : u[k].index = i
      <4>1. PICK k \in DOMAIN u : u[k].index = i /\ m.content[i] = <<n + 1, k>>
            BY <2>2, <3>1, <3>4, <3>6, AfterIs
      <4>2. <<n + 1, k>> \in Values
            BY <2>2, ListTypes, ValueIs
      <4> QED BY <2>2, <3>4, <4>1, <4>2
    <3> QED BY <3>5, <3>6
  <2> SUFFICES ASSUME NEW v \in 1..(n + 1)
               PROVE  /\ log'[v].content = After(ContentOf(log', v - 1), v, log'[v].muts)
                      /\ Owned(log', log'[v].content, v)
                      /\ log'[v].torn => Distinct(log'[v].muts)
      BY <2>2 DEF CollectionInv
  <2>6. CASE v = n + 1
    <3>1. v - 1 = n /\ n \in 0..n
          BY <2>6
    <3> QED BY <1>1, <2>2, <2>5, <2>6, <3>1
  <2>7. CASE v # n + 1
    <3>1. v \in 1..n /\ v \in 0..n /\ v - 1 \in 0..n
          BY <2>7
    <3>2. /\ log[v].content = After(ContentOf(log, v - 1), v, log[v].muts)
          /\ Owned(log, log[v].content, v)
          /\ log[v].torn => Distinct(log[v].muts)
          BY <2>1, <3>1 DEF CollectionInv
    <3> QED BY <2>2, <2>4, <3>1, <3>2
  <2> QED BY <2>6, <2>7
<1>2. CASE SendAppState
  <2>1. Grows(SentPatch) /\ sender.muts \in Sends
        BY <1>2, SendDoes DEF SendInv
  <2>2. sender.muts \in MutationLists /\ Distinct(sender.muts)
        BY <2>1, UpdateAssumption
  <2>3. SentPatch.muts = sender.muts /\ SentPatch.content = NextContent(sender.muts)
        BY DEF SentPatch
  <2> QED BY <1>1, <2>1, <2>2, <2>3
<1>3. ASSUME NEW u \in Updates, OtherDevice(u)
      PROVE  CollectionInv'
  <2>1. Grows(OtherPatch(u)) /\ u.muts \in MutationLists
        BY <1>3, OtherDeviceDoes
  <2>2. OtherPatch(u).muts = u.muts /\ OtherPatch(u).content = NextContent(u.muts) /\ OtherPatch(u).torn = FALSE
        BY DEF OtherPatch
  <2> QED BY <1>1, <2>1, <2>2
<1>4. Aside => CollectionInv'
      BY <1>0 DEF Aside
<1>5. ASSUME NEW p \in Fetchers, FetchStarts(p) \/ GivesUp(p) \/ FetchAppStatePatches(p) \/ PutAppStateVersion(p)
                 \/ DispatchAppState(p)
      PROVE  CollectionInv'
      BY <1>0, <1>5, StartDoes, FetchDoes, PutVersionDoes, DispatchDoes DEF GivesUp
<1>6. ASSUME NEW p \in Fetchers, DecodeSnapshot(p), ~GivesUp(p)
      PROVE  CollectionInv'
      BY <1>0, <1>6, SnapshotDoes
<1>7. ASSUME NEW p \in Fetchers, DecodePatch(p), ~GivesUp(p)
      PROVE  CollectionInv'
  <2>1. f[p].at > 0
        BY <1>7, FetchAt DEF DecodePatch
  <2> QED BY <1>0, <1>7, <2>1, PatchDoes
<1>8. ASSUME NEW p \in Fetchers, PutMutationMACs(p)
      PROVE  CollectionInv'
  <2>1. f[p].snap = 0 => f[p].at \in 1..Len(log)
        BY <1>8, FetchAt DEF PutMutationMACs
  <2> QED BY <1>0, <1>8, <2>1, PutMACsDoes
<1> QED BY <1>0, <1>2, <1>3, <1>4, <1>5, <1>6, <1>7, <1>8, CrashDoes DEF Steps

LEMMA UploadStep ==
    ASSUME TypeOK, CollectionInv, LockInv, PlaceInv, VersionInv, StepInv, SendInv, UploadsVerify, TypeOK', Steps
    PROVE  UploadsVerify'
<1>0. ASSUME UNCHANGED log
      PROVE  UploadsVerify'
      BY <1>0 DEF UploadsVerify, Verifies, Content
<1>1. ASSUME NEW m, Grows(m), m.muts \in MutationLists, m.content = NextContent(m.muts), m.torn \/ m.mac = HashOf(m.content)
      PROVE  UploadsVerify'
  <2>1. /\ Len(log') = Len(log) + 1 /\ Len(log) \in Nat /\ log'[Len(log) + 1] = m
        /\ \A v \in 1..Len(log) : log'[v] = log[v]
        BY <1>1, NewPatch
  <2>0. \A v \in 1..Len(log) : log[v].mac = HashOf(log[v].content) \/ log[v].torn
        BY DEF UploadsVerify, Verifies, Content
  <2> SUFFICES ASSUME NEW v \in 1..Len(log')
               PROVE  log'[v].mac = HashOf(log'[v].content) \/ log'[v].torn
      BY <2>1 DEF UploadsVerify, Verifies, Content
  <2>2. CASE v = Len(log) + 1
        BY <1>1, <2>1, <2>2
  <2>3. CASE v # Len(log) + 1
    <3>1. v \in 1..Len(log)
          BY <2>1, <2>3
    <3> QED BY <2>0, <2>1, <3>1
  <2> QED BY <2>2, <2>3
<1>2. CASE SendAppState
  <2>1. Grows(SentPatch) /\ sender.pc = "encode" /\ sender.ver = Len(log) /\ sender.muts \in Sends
        BY <1>2, SendDoes DEF SendInv
  <2>2. /\ SentPatch.torn = sender.torn /\ SentPatch.mac = EncodedHash /\ SentPatch.muts = sender.muts
        /\ SentPatch.content = NextContent(sender.muts)
        BY DEF SentPatch
  <2>3. PICK m \in MutationLists : m = sender.muts /\ Distinct(m)
        BY <2>1, UpdateAssumption
  <2>4. CASE ~sender.torn
    <3>1. PICK v \in Nat : v = Len(log)
          BY StateTypes
    <3>2. PICK c : c = ContentOf(log, v)
          OBVIOUS
    <3>3. v + 1 \in Versions /\ NextContent(m) = After(c, v + 1, m)
          BY <2>1, <2>3, <3>1, <3>2, NextContentTypes DEF Grows
    <3>4. sender.hash = HashOf(c) /\ Current /\ db.ver = v
          BY <2>1, <2>4, <3>1, <3>2 DEF SendInv, Current
    <3>5. Stored(db.macs, c, v) /\ db.macs \in SUBSET Rows
      <4>1. ~Storing /\ ~ghost.cut
            BY <3>4 DEF Current, Storing
      <4> QED BY <3>2, <3>4, <4>1, StateTypes DEF StepInv, MACsAre
    <3>6. \A i \in Indexes : PrevMAC(i) = c[i]
          BY <3>5, FindsLastMAC DEF PrevMAC
    <3>7. Owned(log, c, v)
          BY <3>1, <3>2, ContentOwned
    <3>8. UpdateHash(HashOf(c), v + 1, m) = HashOf(NextContent(m))
          BY <2>3, <3>3, <3>6, <3>7, HashStep
    <3>9. EncodedHash = HashOf(NextContent(m))
          BY <2>1, <2>3, <3>1, <3>4, <3>8 DEF EncodedHash
    <3> QED BY <1>1, <2>1, <2>2, <2>3, <3>9
  <2>5. CASE sender.torn
        BY <1>1, <2>1, <2>2, <2>3, <2>5
  <2> QED BY <2>4, <2>5
<1>3. ASSUME NEW u \in Updates, OtherDevice(u)
      PROVE  UploadsVerify'
  <2>1. Grows(OtherPatch(u)) /\ u.muts \in MutationLists
        BY <1>3, OtherDeviceDoes
  <2>2. /\ OtherPatch(u).muts = u.muts /\ OtherPatch(u).content = NextContent(u.muts)
        /\ OtherPatch(u).mac = HashOf(NextContent(u.muts))
        BY DEF OtherPatch
  <2> QED BY <1>1, <2>1, <2>2
<1>4. Aside => UploadsVerify'
      BY <1>0 DEF Aside
<1>5. ASSUME NEW p \in Fetchers, FetchStarts(p) \/ GivesUp(p) \/ FetchAppStatePatches(p) \/ PutAppStateVersion(p)
                 \/ DispatchAppState(p)
      PROVE  UploadsVerify'
      BY <1>0, <1>5, StartDoes, FetchDoes, PutVersionDoes, DispatchDoes DEF GivesUp
<1>6. ASSUME NEW p \in Fetchers, DecodeSnapshot(p), ~GivesUp(p)
      PROVE  UploadsVerify'
      BY <1>0, <1>6, SnapshotDoes
<1>7. ASSUME NEW p \in Fetchers, DecodePatch(p), ~GivesUp(p)
      PROVE  UploadsVerify'
  <2>1. f[p].at > 0
        BY <1>7, FetchAt DEF DecodePatch
  <2> QED BY <1>0, <1>7, <2>1, PatchDoes
<1>8. ASSUME NEW p \in Fetchers, PutMutationMACs(p)
      PROVE  UploadsVerify'
  <2>1. f[p].snap = 0 => f[p].at \in 1..Len(log)
        BY <1>8, FetchAt DEF PutMutationMACs
  <2> QED BY <1>0, <1>8, <2>1, PutMACsDoes
<1> QED BY <1>0, <1>2, <1>3, <1>4, <1>5, <1>6, <1>7, <1>8, CrashDoes DEF Steps

(***************************************************************************)
(* The events: sequences of versions in order.                             *)
(***************************************************************************)
LEMMA EmptySequence ==
    /\ Sorted(<<>>) /\ \A v : AtMost(<<>>, v)
    /\ \A s : Under(s, <<>>) /\ Under(<<>>, s)
    /\ \A v : ~Has(<<>>, v)
BY DEF Sorted, AtMost, Under, Has

LEMMA AppendedSequence ==
    ASSUME NEW s \in Seq(Versions), NEW v \in Nat, NEW w \in Versions, v < w, Sorted(s), AtMost(s, v),
           NEW r \in Seq(Versions), Under(r, s), AtMost(r, v)
    PROVE  Sorted(Append(s, w)) /\ AtMost(Append(s, w), w) /\ Under(r, Append(s, w))
<1>0. PICK t : t = Append(s, w)
      OBVIOUS
<1>1. /\ Len(t) = Len(s) + 1 /\ Len(s) \in Nat /\ t[Len(s) + 1] = w
      /\ \A a \in 1..Len(s) : t[a] = s[a] /\ s[a] \in Nat /\ s[a] <= v
  <2>1. /\ Len(t) = Len(s) + 1 /\ Len(s) \in Nat /\ t[Len(s) + 1] = w
        /\ \A a \in 1..Len(s) : t[a] = s[a] /\ s[a] \in Versions
        BY <1>0
  <2>2. \A a \in 1..Len(s) : s[a] \in Nat
        BY <2>1, BoundAssumption DEF Versions
  <2> QED BY <2>1, <2>2 DEF AtMost
<1>2. \A a \in 1..Len(r) : r[a] \in Nat /\ r[a] <= v
      BY BoundAssumption DEF AtMost, Versions
<1>3. w \in Nat
      BY BoundAssumption DEF Versions
<1>4. \A a \in 1..Len(t) : a \in 1..Len(s) \/ a = Len(s) + 1
      BY <1>1
<1> HIDE DEF AtMost
<1>5. AtMost(t, w)
      BY <1>1, <1>3, <1>4 DEF AtMost
<1>6. Sorted(t)
  <2> SUFFICES ASSUME NEW a \in 1..Len(t), NEW b \in 1..Len(t), a < b
               PROVE  t[a] < t[b]
      BY DEF Sorted
  <2>1. a \in 1..Len(s)
        BY <1>1
  <2>2. CASE b \in 1..Len(s)
        BY <1>1, <2>1, <2>2 DEF Sorted
  <2>3. CASE b = Len(s) + 1
        BY <1>1, <1>3, <2>1, <2>3
  <2> QED BY <1>4, <2>2, <2>3
<1>7. Under(r, t)
  <2> SUFFICES ASSUME NEW a \in 1..Len(r), NEW b \in 1..Len(t)
               PROVE  r[a] < t[b]
      BY DEF Under
  <2>2. CASE b \in 1..Len(s)
        BY <1>1, <2>2 DEF Under
  <2>3. CASE b = Len(s) + 1
        BY <1>1, <1>2, <1>3, <2>3
  <2> QED BY <1>4, <2>2, <2>3
<1> QED BY <1>0, <1>5, <1>6, <1>7

LEMMA JoinedSequence ==
    ASSUME NEW s \in Seq(Versions), NEW t \in Seq(Versions)
    PROVE  /\ \A v : Has(s \o t, v) <=> Has(s, v) \/ Has(t, v)
           /\ \A v : AtMost(s, v) /\ AtMost(t, v) => AtMost(s \o t, v)
           /\ Sorted(s) /\ Sorted(t) /\ Under(s, t) => Sorted(s \o t)
<1>0. PICK u : u = s \o t
      OBVIOUS
<1>1. /\ Len(u) = Len(s) + Len(t) /\ Len(s) \in Nat /\ Len(t) \in Nat
      /\ \A a \in 1..Len(s) : u[a] = s[a]
      /\ \A b \in 1..Len(t) : u[Len(s) + b] = t[b]
      BY <1>0
<1>2. \A a \in 1..Len(u) : a \in 1..Len(s) \/ (a - Len(s) \in 1..Len(t) /\ u[a] = t[a - Len(s)])
  <2> SUFFICES ASSUME NEW a \in 1..Len(u), a \notin 1..Len(s)
               PROVE  a - Len(s) \in 1..Len(t) /\ u[a] = t[a - Len(s)]
      OBVIOUS
  <2>1. a - Len(s) \in 1..Len(t) /\ a = Len(s) + (a - Len(s))
        BY <1>1
  <2> QED BY <1>1, <2>1
<1>3. \A b \in 1..Len(t) : Len(s) + b \in 1..Len(u)
      BY <1>1
<1>4. \A a \in 1..Len(s) : a \in 1..Len(u)
      BY <1>1
<1>5. ASSUME NEW v
      PROVE  Has(u, v) <=> Has(s, v) \/ Has(t, v)
  <2>1. Has(s, v) => Has(u, v)
        BY <1>1, <1>4 DEF Has
  <2>2. Has(t, v) => Has(u, v)
        BY <1>1, <1>3 DEF Has
  <2>3. Has(u, v) => Has(s, v) \/ Has(t, v)
        BY <1>1, <1>2 DEF Has
  <2> QED BY <2>1, <2>2, <2>3
<1>6. \A v : AtMost(s, v) /\ AtMost(t, v) => AtMost(u, v)
      BY <1>1, <1>2 DEF AtMost
<1>7. ASSUME Sorted(s), Sorted(t), Under(s, t)
      PROVE  Sorted(u)
  <2> SUFFICES ASSUME NEW a \in 1..Len(u), NEW b \in 1..Len(u), a < b
               PROVE  u[a] < u[b]
      BY DEF Sorted
  <2>1. CASE b \in 1..Len(s)
    <3>1. a \in 1..Len(s)
          BY <1>1, <2>1
    <3> QED BY <1>1, <1>7, <2>1, <3>1 DEF Sorted
  <2>2. CASE b \notin 1..Len(s) /\ a \in 1..Len(s)
        BY <1>1, <1>2, <1>7, <2>2 DEF Under
  <2>3. CASE b \notin 1..Len(s) /\ a \notin 1..Len(s)
    <3>1. /\ a - Len(s) \in 1..Len(t) /\ u[a] = t[a - Len(s)]
          /\ b - Len(s) \in 1..Len(t) /\ u[b] = t[b - Len(s)] /\ a - Len(s) < b - Len(s)
          BY <1>1, <1>2, <2>3
    <3> QED BY <1>7, <3>1 DEF Sorted
  <2> QED BY <2>1, <2>2, <2>3
<1> QED BY <1>0, <1>5, <1>6, <1>7

LEMMA AtMostMore ==
    ASSUME NEW s \in Seq(Versions), NEW v \in Nat, NEW w \in Nat, v <= w, AtMost(s, v)
    PROVE  AtMost(s, w)
<1>1. \A a \in 1..Len(s) : s[a] \in Nat
      BY BoundAssumption DEF Versions
<1> QED BY <1>1 DEF AtMost

LEMMA HasAppended ==
    ASSUME NEW s \in Seq(Versions), NEW w \in Versions
    PROVE  Has(Append(s, w), w) /\ \A v : Has(s, v) => Has(Append(s, w), v)
<1>0. PICK t : t = Append(s, w)
      OBVIOUS
<1>1. /\ Len(t) = Len(s) + 1 /\ Len(s) \in Nat /\ t[Len(s) + 1] = w
      /\ \A a \in 1..Len(s) : t[a] = s[a]
      BY <1>0
<1>2. Len(s) + 1 \in 1..Len(t) /\ \A a \in 1..Len(s) : a \in 1..Len(t)
      BY <1>1
<1>3. Has(t, w) /\ \A v : Has(s, v) => Has(t, v)
      BY <1>1, <1>2 DEF Has
<1> QED BY <1>0, <1>3

LEMMA OrderStep ==
    ASSUME TypeOK, LockInv, PlaceInv, VersionInv, SendInv, OrderInv, TypeOK', Steps
    PROVE  OrderInv'
<1>0. ASSUME NEW p \in Fetchers, f[p].pc # "off", \A q \in Fetchers : q # p => f'[q] = f[q],
             Sorted(told'), AtMost(told', db'.ver),
             f'[p].pc # "off" /\ ~f'[p].full =>
                 Sorted(f'[p].muts) /\ AtMost(f'[p].muts, f'[p].ver) /\ Under(told', f'[p].muts)
      PROVE  OrderInv'
  <2>1. \A q \in Fetchers : Working(q)' => q = p /\ f'[p].pc # "off"
        BY <1>0, Alone DEF Working
  <2> QED BY <1>0, <2>1 DEF OrderInv
<1>00. ASSUME NEW p \in Fetchers, f[p].pc # "off", ~ghost.behind
       PROVE  /\ Sorted(told) /\ AtMost(told, db.ver)
              /\ ~f[p].full => Sorted(f[p].muts) /\ AtMost(f[p].muts, f[p].ver) /\ Under(told, f[p].muts)
      BY <1>00 DEF OrderInv, Working
<1>1. ASSUME NEW p \in Fetchers, FetchStarts(p), ~ghost'.behind
      PROVE  OrderInv'
  <2>1. UNCHANGED ghost /\ ~ghost.behind /\ \A q \in Fetchers : f[q].pc = "off"
        BY <1>1, StartDoes, Alone
  <2>2. Sorted(told') /\ AtMost(told', db'.ver)
    <3>1. CASE told' = <<>>
          BY <3>1, EmptySequence
    <3>2. CASE told' = told /\ db' = db
          BY <2>1, <3>2 DEF OrderInv
    <3> QED BY <1>1, <3>1, <3>2, StartDoes
  <2>3. ASSUME NEW q \in Fetchers, f'[q].pc # "off"
        PROVE  f'[q].muts = <<>>
        BY <1>1, <2>1, <2>3, StartDoes
  <2> QED BY <2>2, <2>3, EmptySequence DEF OrderInv, Working
<1>2. ASSUME NEW p \in Fetchers, GivesUp(p), ~ghost'.behind
      PROVE  OrderInv'
  <2>1. UNCHANGED <<told, db>> /\ ~ghost.behind
        BY <1>2 DEF GivesUp
  <2>2. f[p].pc # "off" /\ f'[p].pc = "off" /\ \A q \in Fetchers : q # p => f'[q] = f[q]
        BY <1>2, GivesUpDoes
  <2> QED BY <1>0, <1>00, <2>1, <2>2
<1>3. ASSUME NEW p \in Fetchers, FetchAppStatePatches(p), ~ghost'.behind
      PROVE  OrderInv'
  <2>1. /\ f[p].pc = "fetch" /\ f'[p].ver = f[p].ver /\ f'[p].muts = f[p].muts /\ f'[p].full = f[p].full
        /\ UNCHANGED <<told, db, ghost>>
        /\ \A q \in Fetchers : q # p => f'[q] = f[q]
        BY <1>3, FetchDoes
  <2> QED BY <1>0, <1>00, <1>3, <2>1
<1>4. ASSUME NEW p \in Fetchers, DecodeSnapshot(p), ~GivesUp(p), ~ghost'.behind
      PROVE  OrderInv'
  <2>1. /\ f[p].pc = "decode" /\ f[p].snap > 0 /\ f'[p].full = f[p].full /\ UNCHANGED <<told, db, ghost>>
        /\ \A q \in Fetchers : q # p => f'[q] = f[q]
        BY <1>4, SnapshotDoes
  <2>2. f'[p].full
        BY <2>1 DEF PlaceInv, Place
  <2> QED BY <1>0, <1>00, <1>4, <2>1, <2>2
<1>5. ASSUME NEW p \in Fetchers, DecodePatch(p), ~GivesUp(p), ~ghost'.behind
      PROVE  OrderInv'
  <2>0. f[p].at > 0
        BY <1>5, FetchAt DEF DecodePatch
  <2>1. /\ f[p].pc = "decode" /\ f[p].snap = 0 /\ f'[p].ver = f[p].at /\ f'[p].full = f[p].full
        /\ f[p].at \in 1..Len(log)
        /\ Sets(log[f[p].at].muts) # {} => f'[p].muts = Append(f[p].muts, f[p].at)
        /\ Sets(log[f[p].at].muts) = {} => f'[p].muts = f[p].muts
        /\ UNCHANGED <<told, db, ghost>>
        /\ \A q \in Fetchers : q # p => f'[q] = f[q]
        BY <1>5, <2>0, PatchDoes
  <2>2. /\ f[p].ver \in Nat /\ f[p].at = f[p].ver + 1 /\ f[p].ver < f[p].at /\ f[p].at \in Nat
        /\ f[p].at \in Versions /\ f[p].muts \in Seq(Versions) /\ told \in Seq(Versions)
    <3>1. f[p].ver \in Nat /\ f[p].muts \in Seq(Versions) /\ told \in Seq(Versions)
          BY LocalTypes, StateTypes
    <3>2. f[p].at = f[p].ver + 1
          BY <2>1, FetchAt
    <3>3. f[p].at \in Versions
          BY <2>1, PatchTypes
    <3> QED BY <3>1, <3>2, <3>3
  <2>3. db.ver = f[p].ver
        BY <1>5, <2>1 DEF VersionInv, Working, Level
  <2>4. ASSUME ~f'[p].full
        PROVE  Sorted(f'[p].muts) /\ AtMost(f'[p].muts, f'[p].ver) /\ Under(told', f'[p].muts)
    <3>1. Sorted(f[p].muts) /\ AtMost(f[p].muts, f[p].ver) /\ Under(told, f[p].muts) /\ AtMost(told, f[p].ver)
          BY <1>00, <1>5, <2>1, <2>3, <2>4
    <3>2. CASE Sets(log[f[p].at].muts) # {}
      <4>1. PICK m, a : m = f[p].muts /\ a = f[p].at
            OBVIOUS
      <4>2. Sorted(Append(m, a)) /\ AtMost(Append(m, a), a) /\ Under(told, Append(m, a))
            BY <4>1, <2>2, <3>1, AppendedSequence
      <4> QED BY <2>1, <3>2, <4>1, <4>2
    <3>3. CASE Sets(log[f[p].at].muts) = {}
      <4>1. AtMost(f[p].muts, f[p].at)
            BY <2>2, <3>1, AtMostMore
      <4> QED BY <2>1, <3>1, <3>3, <4>1
    <3> QED BY <3>2, <3>3
  <2> QED BY <1>0, <1>00, <1>5, <2>1, <2>4
<1>6. ASSUME NEW p \in Fetchers, PutAppStateVersion(p), ~ghost'.behind
      PROVE  OrderInv'
  <2>1. /\ f[p].pc = "putver" /\ f'[p].ver = f[p].ver /\ f'[p].muts = f[p].muts /\ f'[p].full = f[p].full
        /\ UNCHANGED <<told, ghost>> /\ db'.ver = f[p].ver
        /\ \A q \in Fetchers : q # p => f'[q] = f[q]
        BY <1>6, PutVersionDoes
  <2>2. db.ver <= f[p].ver /\ db.ver \in Nat /\ f[p].ver \in Nat /\ told \in Seq(Versions)
        BY <2>1, StateTypes, LocalTypes DEF VersionInv, Working, Level
  <2>3. AtMost(told', db'.ver)
        BY <1>00, <1>6, <2>1, <2>2, AtMostMore
  <2> QED BY <1>0, <1>00, <1>6, <2>1, <2>3
<1>7. ASSUME NEW p \in Fetchers, PutMutationMACs(p), ~ghost'.behind
      PROVE  OrderInv'
  <2>0. f[p].snap = 0 => f[p].at \in 1..Len(log)
        BY <1>7, FetchAt DEF PutMutationMACs
  <2>1. /\ f[p].pc = "putmacs" /\ f'[p].ver = f[p].ver /\ f'[p].muts = f[p].muts /\ f'[p].full = f[p].full
        /\ \A q \in Fetchers : q # p => f'[q] = f[q]
        /\ UNCHANGED told /\ ~ghost.behind
        BY <1>7, <2>0, PutMACsDoes
  <2>2. db'.ver = db.ver
        BY <1>7, <2>0, PutMACsDoes
  <2> QED BY <1>0, <1>00, <2>1, <2>2
<1>8. ASSUME NEW p \in Fetchers, DispatchAppState(p), ~ghost'.behind
      PROVE  OrderInv'
  <2>1. /\ f[p].pc = "decode" /\ UNCHANGED <<db, ghost>>
        /\ \A q \in Fetchers : q # p => f'[q] = f[q]
        /\ f'[p].muts = <<>> \/ f'[p] = NoFetch
        /\ f[p].full => told' = told
        /\ ~f[p].full => told' = told \o f[p].muts
        BY <1>8, DispatchDoes
  <2>2. NoFetch.muts = <<>>
        BY DEF NoFetch
  <2>3. f'[p].muts = <<>>
        BY <2>1, <2>2
  <2>4. Sorted(told') /\ AtMost(told', db'.ver)
    <3>1. CASE f[p].full
          BY <1>00, <1>8, <2>1, <3>1
    <3>2. CASE ~f[p].full
      <4>1. told \in Seq(Versions) /\ f[p].muts \in Seq(Versions) /\ told' = told \o f[p].muts
            BY <2>1, <3>2, StateTypes, LocalTypes
      <4>2. db.ver = f[p].ver
            BY <1>8, <2>1 DEF VersionInv, Working, Level
      <4>3. /\ Sorted(told) /\ AtMost(told, db.ver) /\ Sorted(f[p].muts)
            /\ AtMost(f[p].muts, db.ver) /\ Under(told, f[p].muts)
            BY <1>00, <1>8, <2>1, <3>2, <4>2
      <4>4. PICK m : m = f[p].muts
            OBVIOUS
      <4>5. Sorted(told \o m) /\ AtMost(told \o m, db.ver)
            BY <4>1, <4>3, <4>4, JoinedSequence
      <4> QED BY <2>1, <4>1, <4>4, <4>5
    <3> QED BY <3>1, <3>2
  <2> QED BY <1>0, <2>1, <2>3, <2>4, EmptySequence
<1>9. ASSUME UNCHANGED <<f, told>>, db'.ver = db.ver, GhostSame
      PROVE  OrderInv'
      BY <1>9 DEF OrderInv, Working, GhostSame
<1>10. CASE Crash
  <2>1. \A p \in Fetchers : ~Working(p)'
    <3>1. NoFetch.pc = "off"
          BY DEF NoFetch
    <3> QED BY <1>10, <3>1, CrashDoes DEF Working
  <2>2. UNCHANGED told /\ db'.ver = db.ver /\ ghost'.behind = ghost.behind
        BY <1>10, CrashDoes
  <2> QED BY <2>1, <2>2 DEF OrderInv
<1>11. ASSUME NEW m, Grows(m)
       PROVE  OrderInv'
      BY <1>9, <1>11 DEF Grows
<1>12. Aside => OrderInv'
      BY <1>9 DEF Aside
<1>13. CASE ghost'.behind
      BY <1>13 DEF OrderInv
<1> QED BY <1>1, <1>2, <1>3, <1>4, <1>5, <1>6, <1>7, <1>8, <1>10, <1>11, <1>12, <1>13, SendDoes, OtherDeviceDoes DEF Steps

LEMMA TellStep ==
    ASSUME TypeOK, LockInv, PlaceInv, VersionInv, SendInv, TellInv, TypeOK', Steps
    PROVE  TellInv'
<1> DEFINE Clean == ghost.faults = 0 /\ ghost.crashes = 0
\* Only fetcher p works after the step.
<1>0. ASSUME NEW p \in Fetchers, f[p].pc # "off", \A q \in Fetchers : q # p => f'[q] = f[q],
             f'[p].pc # "off" /\ f'[p].full => db'.ver <= quiet',
             f'[p].pc \in {"putver", "putmacs"} /\ ~f'[p].full /\ Sets(log'[f'[p].ver].muts) # {}
                 => Has(f'[p].muts, f'[p].ver),
             Clean' => \A v \in (quiet' + 1)..db'.ver : Sets(log'[v].muts) # {} =>
                           \/ v \in ghost'.dropped
                           \/ Has(told', v)
                           \/ f'[p].pc # "off" /\ ~f'[p].full /\ Has(f'[p].muts, v)
      PROVE  TellInv'
  <2>1. \A q \in Fetchers : q # p => f'[q].pc = "off"
        BY <1>0, Alone
  <2>2. \A q \in Fetchers : Working(q)' /\ f'[q].full => db'.ver <= quiet'
        BY <1>0, <2>1 DEF Working
  <2>3. \A q \in Fetchers : f'[q].pc \in {"putver", "putmacs"} /\ ~f'[q].full /\ Sets(log'[f'[q].ver].muts) # {}
                 => Has(f'[q].muts, f'[q].ver)
        BY <1>0, <2>1
  <2>4. \A v : (v \in ghost'.dropped \/ Has(told', v) \/ (f'[p].pc # "off" /\ ~f'[p].full /\ Has(f'[p].muts, v)))
                  => Known(v)'
        BY <1>0 DEF Known, Working
  <2> QED BY <1>0, <2>2, <2>3, <2>4 DEF TellInv
\* Only fetcher p worked before the step.
<1>00. ASSUME NEW p \in Fetchers, f[p].pc # "off"
       PROVE  /\ f[p].full => db.ver <= quiet
              /\ f[p].pc \in {"putver", "putmacs"} /\ ~f[p].full /\ Sets(log[f[p].ver].muts) # {}
                   => Has(f[p].muts, f[p].ver)
              /\ Clean => \A v \in (quiet + 1)..db.ver : Sets(log[v].muts) # {} =>
                           \/ v \in ghost.dropped
                           \/ Has(told, v)
                           \/ ~f[p].full /\ Has(f[p].muts, v)
  <2>1. \A q \in Fetchers : q # p => f[q].pc = "off"
        BY <1>00, Alone
  <2>2. \A v : Known(v) => v \in ghost.dropped \/ Has(told, v) \/ (~f[p].full /\ Has(f[p].muts, v))
        BY <2>1 DEF Known, Working
  <2> QED BY <1>00, <2>2 DEF TellInv, Working
<1>000. /\ quiet \in Nat /\ db.ver \in Nat /\ ghost.faults \in Nat /\ ghost.crashes \in Nat
        /\ ghost'.faults \in Nat /\ ghost'.crashes \in Nat
  <2>1. ghost'.faults \in Nat /\ ghost'.crashes \in 0..MaxTrouble
        BY DEF TypeOK, EventTypes
  <2> QED BY <2>1, StateTypes, BoundAssumption
<1>1. ASSUME NEW p \in Fetchers, FetchStarts(p)
      PROVE  TellInv'
  <2>1. UNCHANGED <<ghost, log, quiet>> /\ \A q \in Fetchers : f[q].pc = "off"
        BY <1>1, StartDoes, Alone
  <2>2. \A q \in Fetchers : f'[q].pc \in {"off", "fetch"}
        BY <1>1, <2>1, StartDoes
  <2>3. \A q \in Fetchers : Working(q)' /\ f'[q].full => db'.ver <= quiet'
    <3> SUFFICES ASSUME NEW q \in Fetchers, f'[q].pc # "off", f'[q].full
                 PROVE  db'.ver <= quiet'
        BY DEF Working
    <3>1. db'.ver = 0
          BY <1>1, <2>1, StartDoes
    <3> QED BY <2>1, <3>1, <1>000
  <2>4. Clean' => \A v \in (quiet' + 1)..db'.ver : Sets(log'[v].muts) # {} => Known(v)'
    <3>1. CASE db'.ver = 0
      <4>1. \A v \in (quiet' + 1)..db'.ver : FALSE
            BY <2>1, <3>1, <1>000
      <4> QED BY <4>1
    <3>2. CASE db' = db /\ told' = told
      <4>1. \A v : Known(v) => Known(v)'
            BY <2>1, <3>2 DEF Known, Working
      <4> QED BY <2>1, <3>2, <4>1 DEF TellInv
    <3> QED BY <1>1, <3>1, <3>2, StartDoes
  <2> QED BY <2>2, <2>3, <2>4 DEF TellInv
<1>2. ASSUME NEW p \in Fetchers, GivesUp(p)
      PROVE  TellInv'
  <2>1. /\ UNCHANGED <<log, told, db, quiet>> /\ ghost'.crashes = ghost.crashes
        /\ ghost'.faults >= ghost.faults
        /\ ghost'.faults = ghost.faults => /\ ghost.dropped \subseteq ghost'.dropped
                                           /\ \A n \in 1..Len(f[p].muts) : f[p].muts[n] \in ghost'.dropped
        BY <1>2 DEF GivesUp
  <2>2. f[p].pc # "off" /\ f'[p].pc = "off" /\ \A q \in Fetchers : q # p => f'[q] = f[q]
        BY <1>2, GivesUpDoes
  <2>3. ASSUME Clean'
        PROVE  Clean /\ ghost.dropped \subseteq ghost'.dropped /\ \A v : Has(f[p].muts, v) => v \in ghost'.dropped
    <3>1. ghost'.faults = ghost.faults /\ Clean
          BY <2>1, <2>3, <1>000
    <3> QED BY <2>1, <3>1 DEF Has
  <2>4. Clean' => \A v \in (quiet' + 1)..db'.ver : Sets(log'[v].muts) # {} => v \in ghost'.dropped \/ Has(told', v)
        BY <1>00, <2>1, <2>2, <2>3
  <2> QED BY <1>0, <2>2, <2>4
<1>3. ASSUME NEW p \in Fetchers, FetchAppStatePatches(p)
      PROVE  TellInv'
  <2>1. /\ f[p].pc = "fetch" /\ f'[p].pc = "decode" /\ f'[p].muts = f[p].muts /\ f'[p].full = f[p].full
        /\ UNCHANGED <<log, told, db, quiet, ghost>>
        /\ \A q \in Fetchers : q # p => f'[q] = f[q]
        BY <1>3, FetchDoes
  <2> QED BY <1>0, <1>00, <2>1
<1>4. ASSUME NEW p \in Fetchers, DecodeSnapshot(p), ~GivesUp(p)
      PROVE  TellInv'
  <2>1. /\ f[p].pc = "decode" /\ f[p].snap > 0 /\ f'[p].full = f[p].full
        /\ UNCHANGED <<log, told, db, quiet, ghost>>
        /\ \A q \in Fetchers : q # p => f'[q] = f[q]
        BY <1>4, SnapshotDoes
  <2>2. f[p].full /\ f'[p].full
        BY <2>1 DEF PlaceInv, Place
  <2> QED BY <1>0, <1>00, <2>1, <2>2
<1>5. ASSUME NEW p \in Fetchers, DecodePatch(p), ~GivesUp(p)
      PROVE  TellInv'
  <2>0. f[p].at > 0
        BY <1>5, FetchAt DEF DecodePatch
  <2>1. /\ f[p].pc = "decode" /\ f'[p].pc = "putver" /\ f[p].snap = 0 /\ f'[p].ver = f[p].at
        /\ f'[p].full = f[p].full /\ f[p].at \in 1..Len(log)
        /\ Sets(log[f[p].at].muts) # {} => f'[p].muts = Append(f[p].muts, f[p].at)
        /\ Sets(log[f[p].at].muts) = {} => f'[p].muts = f[p].muts
        /\ UNCHANGED <<log, told, db, quiet, ghost>>
        /\ \A q \in Fetchers : q # p => f'[q] = f[q]
        BY <1>5, <2>0, PatchDoes
  <2>2. PICK m, a : m = f[p].muts /\ a = f[p].at
        OBVIOUS
  <2>3. m \in Seq(Versions) /\ a \in Versions
        BY <2>1, <2>2, LocalTypes, PatchTypes
  <2>4. Has(Append(m, a), a) /\ \A v : Has(m, v) => Has(Append(m, a), v)
        BY <2>3, HasAppended
  <2>5. \A v : Has(f[p].muts, v) => Has(f'[p].muts, v)
        BY <2>1, <2>2, <2>4
  <2>6. Sets(log[f[p].at].muts) # {} => Has(f'[p].muts, f[p].at)
        BY <2>1, <2>2, <2>4
  <2> QED BY <1>0, <1>00, <2>1, <2>5, <2>6
<1>6. ASSUME NEW p \in Fetchers, PutAppStateVersion(p)
      PROVE  TellInv'
  <2>1. /\ f[p].pc = "putver" /\ f'[p].pc = "putmacs" /\ f'[p].ver = f[p].ver /\ f'[p].muts = f[p].muts
        /\ f'[p].full = f[p].full
        /\ UNCHANGED <<log, told>>
        /\ \A q \in Fetchers : q # p => f'[q] = f[q]
        BY <1>6, PutVersionDoes
  <2>2. CASE /\ db'.ver = f[p].ver /\ UNCHANGED ghost
             /\ f[p].full => quiet' = f[p].ver
             /\ ~f[p].full => quiet' = quiet
    <3>0. f[p].ver \in Nat
          BY LocalTypes
    <3>1. CASE f[p].full
      <4>1. db'.ver <= quiet' /\ \A v \in (quiet' + 1)..db'.ver : FALSE
            BY <2>2, <3>0, <3>1
      <4> QED BY <1>0, <2>1, <3>1, <4>1
    <3>2. CASE ~f[p].full
      <4>1. ASSUME Clean', NEW v \in (quiet' + 1)..db'.ver, Sets(log'[v].muts) # {}
            PROVE  v \in ghost'.dropped \/ Has(told', v) \/ Has(f'[p].muts, v)
        <5>1. Clean /\ ~ghost.behind
              BY <2>2, <4>1 DEF VersionInv
        <5>2. db.ver = Before(p) /\ f[p].snap = 0
          <6>1. ~(f[p].snap > 0) /\ f[p].snap \in Nat
                BY <3>2, LocalTypes DEF PlaceInv, Place
          <6> QED BY <5>1, <6>1, <2>1, NotBehind
        <5>3. f[p].ver = db.ver + 1
              BY <2>1, <5>2, <3>0, <1>000 DEF PlaceInv, Place, Before
        <5>4. CASE v = f[p].ver
              BY <1>00, <2>1, <3>2, <4>1, <5>4
        <5>5. CASE v # f[p].ver
          <6>1. v \in (quiet + 1)..db.ver
                BY <2>2, <3>0, <3>2, <4>1, <5>3, <5>5, <1>000
          <6> QED BY <1>00, <2>1, <2>2, <4>1, <5>1, <6>1
        <5> QED BY <5>4, <5>5
      <4> QED BY <1>0, <1>00, <2>1, <3>2, <4>1
    <3> QED BY <3>1, <3>2
  <2>3. CASE UNCHANGED <<db, quiet>> /\ ghost'.faults > 0
    <3>1. ~Clean'
          BY <2>3, <1>000
    <3> QED BY <1>0, <1>00, <2>1, <2>3, <3>1
  <2> QED BY <1>6, <2>2, <2>3, PutVersionDoes
<1>7. ASSUME NEW p \in Fetchers, PutMutationMACs(p)
      PROVE  TellInv'
  <2>0. f[p].snap = 0 => f[p].at \in 1..Len(log)
        BY <1>7, FetchAt DEF PutMutationMACs
  <2>1. /\ f[p].pc = "putmacs" /\ f'[p].pc = "decode" /\ f'[p].muts = f[p].muts /\ f'[p].full = f[p].full
        /\ \A q \in Fetchers : q # p => f'[q] = f[q]
        /\ UNCHANGED <<log, told, quiet>>
        BY <1>7, <2>0, PutMACsDoes
  <2>2. db'.ver = db.ver
        BY <1>7, <2>0, PutMACsDoes
  <2>3. Clean' => Clean /\ ghost'.dropped = ghost.dropped
        BY <1>7, <2>0, <1>000, PutMACsDoes
  <2> QED BY <1>0, <1>00, <2>1, <2>2, <2>3
<1>8. ASSUME NEW p \in Fetchers, DispatchAppState(p)
      PROVE  TellInv'
  <2>1. /\ f[p].pc = "decode" /\ UNCHANGED <<log, db, quiet, ghost>>
        /\ \A q \in Fetchers : q # p => f'[q] = f[q]
        /\ \/ f'[p].pc = "fetch" /\ f'[p].full = f[p].full
           \/ f'[p] = NoFetch
        /\ f[p].full => told' = told
        /\ ~f[p].full => told' = told \o f[p].muts
        BY <1>8, DispatchDoes
  <2>2. f'[p].pc \in {"fetch", "off"} /\ (f'[p].pc # "off" => f'[p].full = f[p].full)
    <3>1. NoFetch.pc = "off"
          BY DEF NoFetch
    <3> QED BY <2>1, <3>1
  <2>3. \A v : Has(told, v) \/ (~f[p].full /\ Has(f[p].muts, v)) => Has(told', v)
    <3>1. CASE f[p].full
          BY <2>1, <3>1
    <3>2. CASE ~f[p].full
      <4>1. PICK m : m = f[p].muts
            OBVIOUS
      <4>2. told \in Seq(Versions) /\ m \in Seq(Versions)
            BY <4>1, StateTypes, LocalTypes
      <4>3. \A v : Has(told \o m, v) <=> Has(told, v) \/ Has(m, v)
            BY <4>2, JoinedSequence
      <4> QED BY <2>1, <3>2, <4>1, <4>3
    <3> QED BY <3>1, <3>2
  <2> QED BY <1>0, <1>00, <2>1, <2>2, <2>3
<1>9. ASSUME UNCHANGED <<f, told, quiet>>, db'.ver = db.ver, GhostSame,
             \A v \in 1..Len(log) : log'[v] = log[v]
      PROVE  TellInv'
  <2>1. Clean' => Clean
        BY <1>9, <1>000 DEF GhostSame
  <2>2. \A v : Known(v) => Known(v)'
        BY <1>9 DEF Known, Working, GhostSame
  <2>3. db.ver <= Len(log) /\ Len(log) \in Nat
        BY StateTypes
  <2>4. \A v \in (quiet + 1)..db.ver : v \in 1..Len(log)
        BY <2>3, <1>000
  <2>5. \A p \in Fetchers : f[p].pc \in {"putver", "putmacs"} => f[p].ver \in 1..Len(log)
        BY LocalTypes, StateTypes DEF PlaceInv, Place
  <2>6. \A p \in Fetchers : Working(p)' <=> Working(p)
        BY <1>9 DEF Working
  <2>7. \A p \in Fetchers : Working(p)' /\ f'[p].full => db'.ver <= quiet'
        BY <1>9, <2>6 DEF TellInv
  <2>8. \A p \in Fetchers : f'[p].pc \in {"putver", "putmacs"} /\ ~f'[p].full /\ Sets(log'[f'[p].ver].muts) # {}
          => Has(f'[p].muts, f'[p].ver)
        BY <1>9, <2>5 DEF TellInv
  <2>9. Clean' => \A v \in (quiet' + 1)..db'.ver : Sets(log'[v].muts) # {} => Known(v)'
        BY <1>9, <2>1, <2>2, <2>4 DEF TellInv
  <2> QED BY <2>7, <2>8, <2>9 DEF TellInv
<1>10. CASE Crash
  <2>1. \A p \in Fetchers : f'[p].pc = "off"
    <3>1. NoFetch.pc = "off"
          BY DEF NoFetch
    <3> QED BY <1>10, <3>1, CrashDoes
  <2>2. ~Clean'
        BY <1>10, CrashDoes, <1>000
  <2> QED BY <2>1, <2>2 DEF TellInv, Working
<1>11. ASSUME NEW m, Grows(m)
       PROVE  TellInv'
      BY <1>9, <1>11, Grown DEF Grows
<1>12. Aside => TellInv'
      BY <1>9 DEF Aside
<1> QED BY <1>1, <1>2, <1>3, <1>4, <1>5, <1>6, <1>7, <1>8, <1>10, <1>11, <1>12, SendDoes, OtherDeviceDoes DEF Steps

(***************************************************************************)
(* The theorems.                                                           *)
(***************************************************************************)
LEMMA InitInv ==
    ASSUME Init
    PROVE  SyncInv
<1>1. PICK m \in Sends, k \in FirstKeys :
        LET content == After(NoContent, 1, m)
            hash == HashOf(content)
        IN  /\ log = <<[muts |-> m, key |-> k, mac |-> hash, torn |-> FALSE, content |-> content]>>
            /\ db = [ver |-> 1, hash |-> hash, keys |-> FirstKeys,
                     macs |-> {[ver |-> 1, index |-> m[n].index, value |-> <<1, n>>] : n \in DOMAIN m}]
      BY DEF Init
<1>2. m \in MutationLists /\ Distinct(m) /\ Sets(m) = DOMAIN m
      BY UpdateAssumption
<1>3. PICK c, h, e : /\ c = After(NoContent, 1, m) /\ h = HashOf(c)
                     /\ e = [muts |-> m, key |-> k, mac |-> h, torn |-> FALSE, content |-> c]
      OBVIOUS
<1>4. log = <<e>> /\ db = [ver |-> 1, hash |-> h, keys |-> FirstKeys, macs |-> Added(1, m)]
      BY <1>1, <1>2, <1>3 DEF Added, Row
<1>5. /\ quiet = 1 /\ notified = FALSE /\ called = [p \in Fetchers |-> NoCall] /\ holder = NoOne
      /\ f = [p \in Fetchers |-> NoFetch] /\ checks = {} /\ requested = {} /\ asked = {}
      /\ sender = NoSend(0) /\ told = <<>>
      /\ ghost = [faults |-> 0, crashes |-> 0, resets |-> 0, cut |-> FALSE, behind |-> FALSE,
                  missed |-> FALSE, dropped |-> {}]
      BY <1>4 DEF Init
<1>6. 1 \in Versions /\ h \in Hashes /\ k \in Keys
      BY <1>3, BoundAssumption, KeyAssumption, HashTypes DEF Versions
<1>7. e \in Patches /\ e.muts = m /\ e.mac = h /\ e.content = c /\ e.torn = FALSE
  <2>1. NoContent \in [Indexes -> Values \cup {NoValue}]
        BY DEF NoContent
  <2>2. c \in [Indexes -> Values \cup {NoValue}]
        BY <1>2, <1>3, <1>6, <2>1, AfterTypes
  <2> QED BY <1>2, <1>3, <1>6, <2>2 DEF Patches
<1>8. log \in Seq(Patches) /\ Len(log) = 1 /\ log[1] = e
      BY <1>4, <1>7
<1>9. NoFetch \in Locals /\ NoFetch.pc = "off" /\ NoFetch.want = FALSE /\ NoFetch.snap = 0
  <2>1. Len(log) \in Nat
        BY <1>8
  <2> QED BY <2>1, NoFetchTypes
<1>10. \A p \in Fetchers : f[p] = NoFetch /\ f[p].pc = "off"
      BY <1>5, <1>9
<1>11. TypeOK
  <2>1. ServerTypes
    <3>1. notified \in BOOLEAN
          BY <1>5
    <3>2. Len(log) <= MaxVersion
          BY <1>8, BoundAssumption
    <3> QED BY <1>8, <3>1, <3>2 DEF ServerTypes
  <2>2. StoreTypes
    <3>1. Added(1, m) \subseteq Rows /\ 1 \in 0..Len(log)
          BY <1>2, <1>6, <1>8, AddedTypes
    <3> QED BY <1>4, <1>6, <3>1, KeyAssumption DEF StoreTypes
  <2>3. FetchTypes
    <3>1. NoCall \in [on : BOOLEAN, full : BOOLEAN, onlyIf : BOOLEAN]
          BY DEF NoCall
    <3> QED BY <1>5, <1>9, <3>1 DEF FetchTypes
  <2>4. KeyTypes
        BY <1>5 DEF KeyTypes
  <2>5. SendTypes
        BY <1>5, NoSendTypes, BoundAssumption DEF SendTypes
  <2>6. EventTypes
        BY <1>5, BoundAssumption DEF EventTypes
  <2> QED BY <2>1, <2>2, <2>3, <2>4, <2>5, <2>6 DEF TypeOK
<1>12. LockInv
      BY <1>5, <1>10 DEF LockInv, Fetchers, NoOne
<1>13. PlaceInv
      BY <1>8, <1>9, <1>10 DEF PlaceInv, Place
<1>14. VersionInv
      BY <1>5, <1>10 DEF VersionInv, Working
<1>15. ContentOf(log, 1) = c /\ ContentOf(log, 0) = NoContent
      BY <1>7, <1>8 DEF ContentOf
<1>16. CollectionInv
  <2>1. Owned(log, c, 1)
    <3> SUFFICES ASSUME NEW i \in Indexes, c[i] # NoValue
                 PROVE  /\ c[i] \in Values /\ c[i][1] <= 1
                        /\ c[i][2] \in DOMAIN log[c[i][1]].muts
                        /\ log[c[i][1]].muts[c[i][2]].index = i
        BY DEF Owned
    <3>1. \E n \in DOMAIN m : m[n].index = i
      <4>1. (\A n \in DOMAIN m : m[n].index # i) => c[i] = NoContent[i]
            BY <1>2, <1>3, AfterIs
      <4> QED BY <4>1 DEF NoContent
    <3>2. PICK n \in DOMAIN m : m[n].index = i /\ c[i] = <<1, n>>
          BY <1>2, <1>3, <3>1, AfterIs
    <3>3. <<1, n>> \in Values
          BY <1>2, <1>6, ListTypes, ValueIs
    <3> QED BY <1>7, <1>8, <3>2, <3>3
  <2>2. \A v \in 1..Len(log) : v = 1 /\ v - 1 = 0
        BY <1>8
  <2> QED BY <1>3, <1>7, <1>8, <1>15, <2>1, <2>2 DEF CollectionInv
<1>17. Stored(db.macs, ContentOf(log, 1), 1)
  <2>1. Stored({}, NoContent, 0) /\ {} \in SUBSET Rows
        BY StoredNothing
  <2>2. PICK z \in Nat : z = 0
        OBVIOUS
  <2>3. z + 1 = 1
        BY <2>2
  <2>4. Stored(Kept({}, m) \cup Added(z + 1, m), c, z + 1)
        BY <1>2, <1>3, <1>6, <2>1, <2>2, <2>3, StoresPatch
  <2>5. Kept({}, m) = {}
        BY DEF Kept
  <2> QED BY <1>4, <1>15, <2>3, <2>4, <2>5
<1>18. StepInv
      BY <1>3, <1>4, <1>5, <1>10, <1>15, <1>17 DEF StepInv, Working, MACsAre
<1>19. SendInv
      BY <1>5 DEF SendInv, NoSend
<1>20. UploadsVerify
      BY <1>3, <1>7, <1>8, <1>15, ContentIs DEF UploadsVerify, Verifies
<1>21. OrderInv
      BY <1>5, <1>10, EmptySequence DEF OrderInv, Working
<1>22. TellInv
  <2>1. \A v \in (quiet + 1)..db.ver : FALSE
        BY <1>4, <1>5
  <2> QED BY <1>10, <2>1 DEF TellInv, Working
<1> QED BY <1>11, <1>12, <1>13, <1>14, <1>16, <1>18, <1>19, <1>20, <1>21, <1>22 DEF SyncInv

LEMMA NextInv ==
    ASSUME SyncInv, [Next]_vars
    PROVE  SyncInv'
<1>1. CASE Next
  <2>1. TypeOK' /\ Steps
        BY <1>1, TypeStep DEF SyncInv
  <2> QED BY <2>1, CollectionStep, LockStep, PlaceStep, VersionStep, StepStep, SendStep, UploadStep, OrderStep, TellStep DEF SyncInv
<1>2. CASE UNCHANGED vars
  <2>1. TypeOK' /\ LockInv' /\ PlaceInv'
        BY <1>2 DEF vars, SyncInv, TypeOK, ServerTypes, StoreTypes, FetchTypes, KeyTypes, SendTypes, EventTypes,
                    Locals, LockInv, PlaceInv, Place
  <2>2. CollectionInv' /\ UploadsVerify'
        BY <1>2 DEF vars, SyncInv, CollectionInv, UploadsVerify, Verifies, Content
  <2>3. VersionInv' /\ StepInv'
        BY <1>2 DEF vars, SyncInv, VersionInv, Working, Level, Before, StepInv, MACsAre, Storing
  <2>4. SendInv' /\ OrderInv' /\ TellInv'
        BY <1>2 DEF vars, SyncInv, SendInv, OrderInv, TellInv, Known, Working
  <2> QED BY <2>1, <2>2, <2>3, <2>4 DEF SyncInv
<1> QED BY <1>1, <1>2

LEMMA Invariance == Spec => []SyncInv
<1>1. Init => SyncInv
      BY InitInv
<1>2. SyncInv /\ [Next]_vars => SyncInv'
      BY NextInv
<1> QED BY <1>1, <1>2, PTL DEF Spec

\* In the version, hash, MACs and keys that are stored, in a running FetchAppState and in
\* sendAppState, every value has its type: no version beyond the server's, and no row of MACs
\* without the value of a mutation.
THEOREM TypeCorrect == Spec => []TypeOK
BY Invariance, PTL DEF SyncInv

\* The version, hash and mutation MACs that storeMACs writes one after the other describe
\* one version of the collection, for patches of any mutations, whenever none of its
\* statements failed or was cut off and no stored patch mentioned one index twice.
THEOREM StoreInStep == Spec => []InStep
<1>1. SyncInv => InStep
  <2> SUFFICES ASSUME SyncInv, ~Storing, ~ghost.cut
               PROVE  /\ db.hash = HashOf(Content(db.ver))
                      /\ \A i \in Indexes : PrevMAC(i) = Content(db.ver)[i]
      BY DEF InStep
  <2>1. PICK c : c = ContentOf(log, db.ver) /\ c = Content(db.ver)
        BY ContentIs
  <2>2. db.hash = HashOf(c) /\ Stored(db.macs, c, db.ver) /\ db.macs \in SUBSET Rows
        BY <2>1, StateTypes DEF SyncInv, StepInv, MACsAre
  <2>3. \A i \in Indexes : PrevMAC(i) = c[i]
        BY <2>2, FindsLastMAC DEF PrevMAC
  <2> QED BY <2>1, <2>2, <2>3
<1> QED BY <1>1, Invariance, PTL

\* What sendAppState uploads carries the MAC of the collection it makes, although it takes
\* no lock, unless it read between the statements of storeMACs, before a full sync, or from a
\* store that was out of step already.
THEOREM UploadsStayVerified == Spec => []UploadsVerify
BY Invariance, PTL DEF SyncInv

\* FetchAppState dispatches every update at most once and in the order of the versions,
\* unless PutAppStateVersion has failed.
THEOREM DispatchedInOrder == Spec => []EventsInOrder
<1>1. SyncInv => EventsInOrder
      BY DEF SyncInv, OrderInv, Sorted, EventsInOrder
<1> QED BY <1>1, Invariance, PTL

\* Once no FetchAppState is running, every update stored outside a full sync has been
\* dispatched, unless its page was given up at a later patch.
THEOREM UpdatesAreTold == Spec => []EventsForUpdates
<1>1. SyncInv => EventsForUpdates
  <2> SUFFICES ASSUME SyncInv, holder = NoOne, ghost.faults = 0, ghost.crashes = 0,
                      NEW v \in (quiet + 1)..db.ver, Sets(log[v].muts) # {}
               PROVE  v \in ghost.dropped \/ \E n \in 1..Len(told) : told[n] = v
      BY DEF EventsForUpdates
  <2>1. Known(v)
        BY DEF SyncInv, TellInv
  <2>2. \A p \in Fetchers : ~Working(p)
        BY Alone DEF SyncInv, Working
  <2> QED BY <2>1, <2>2 DEF Known, Has
<1> QED BY <1>1, Invariance, PTL

=============================================================================
