----------------------------- MODULE StoreProofs -----------------------------
(***************************************************************************)
(* Proofs about the two parts of the SQL store that are shared between     *)
(* goroutines.  PreKeys, for any number of keys, connections,              *)
(* notifications and faults: whoever has a one-time key can use it, and    *)
(* nobody else has.  LIDMap, for any sets of users and goroutines: where   *)
(* the caches agree with the table.                                        *)
(***************************************************************************)
EXTENDS PreKeys, LIDMap, FiniteSetTheorems, TLAPS

(***************************************************************************)
(* The pre-keys.                                                           *)
(***************************************************************************)

\* One step of Next, flattened into its actions.
NextActions ==
    \/ \E t \in Triggers : Connected(t)
    \/ \E t \in Triggers : ConnectedCounts(t)
    \/ \E t \in Triggers : ConnectedFails(t)
    \/ \E t \in Triggers : EncryptNotification(t)
    \/ \E t \in Triggers : UploadStarts(t)
    \/ \E t \in Triggers : UploadCounts(t)
    \/ \E t \in Triggers : UploadCountFails(t)
    \/ \E t \in Triggers : ReadUnuploaded(t)
    \/ \E t \in Triggers : GetOrGenPreKeys(t)
    \/ \E t \in Triggers : GenerateFails(t)
    \/ \E t \in Triggers : ServerStores(t)
    \/ \E t \in Triggers : UploadFails(t)
    \/ \E t \in Triggers : UploadAnswered(t)
    \/ TimePasses
    \/ SendRetryReceipt
    \/ \E k \in Keys : PeerFetches(k)
    \/ \E k \in Keys : PeerMessage(k)
    \/ RemovePreKey
    \/ Restart

\* Next is the disjunction of its actions.
LEMMA NextSplit == Next => NextActions
BY DEF Next, NextActions, Upload

-----------------------------------------------------------------------------
(* The invariant.                                                          *)

\* Keys in the table have different ids, and a key in use is in the table.
IdInv ==
    /\ \A j, k \in rows : idOf[j] = idOf[k] => j = k
    /\ using # NoKey => using \in rows

\* A key that has not been generated is nowhere.
NewInv == \A k \in Keys : k > made => held[k] = 0 /\ using # k

\* One upload at a time has keys.
LockInv ==
    /\ \A t, u \in Triggers : pc[t] \in Locked /\ pc[u] \in Locked => t = u
    /\ \A t \in Triggers : pc[t] \notin {"generate", "send", "sent"} => local[t].keys = {}

\* The keys of an upload are in the table, not yet uploaded, until the server has
\* them; none that is still in the table has an id beyond the last one's.
BatchInv ==
    \A t \in Triggers :
        /\ pc[t] \in {"generate", "send"} => local[t].keys \ unsure \subseteq rows \ uploaded
        /\ pc[t] \in {"send", "sent"} =>
              \A k \in local[t].keys : k \in rows => idOf[k] <= local[t].last

\* Nobody has a key that is not yet uploaded.
FreshInv ==
    \A k \in rows \ uploaded :
        k \notin unsure /\ (\A t \in Triggers : pc[t] = "sent" => k \notin local[t].keys)
            => k \notin server /\ held[k] = 0 /\ using # k

\* KeysServable without its sum.
OnceInv ==
    \A k \in Keys \ unsure :
        /\ k \in server \/ held[k] > 0 => k \in rows
        /\ held[k] <= 1
        /\ k \in server => held[k] = 0 /\ using # k
        /\ held[k] > 0 => using # k

KeyInv == IdInv /\ NewInv /\ LockInv /\ BatchInv /\ FreshInv /\ OnceInv

-----------------------------------------------------------------------------
(* Types.                                                                  *)

Batch(n) == [db : Nat, initial : BOOLEAN, keys : SUBSET (1..n), last : Nat]

\* Sets of keys are finite.
LEMMA KeysFinite ==
    ASSUME NEW n \in Nat, NEW S \in SUBSET (1..n)
    PROVE  IsFiniteSet(S) /\ Cardinality(S) \in Nat
<1>1. IsFiniteSet(1..n)
  BY FS_Interval
<1>2. IsFiniteSet(S)
  BY <1>1, FS_Subset
<1> QED
  BY <1>2, FS_CardinalityType

\* An empty batch.
LEMMA NoBatchType == ASSUME NEW n \in Nat PROVE NoBatch \in Batch(n)
BY DEF NoBatch, Batch

\* A step of one upload that leaves the table alone.
LEMMA UploadType ==
    ASSUME UploadsOK, NEW t \in Triggers, UNCHANGED made,
           NEW place \in {"idle", "asking", "lock"} \cup Locked, Goto(t, place),
           NEW batch \in Batch(made), local' = [local EXCEPT ![t] = batch],
           recent' \in BOOLEAN, blind' \in Nat, faults' \in 0..MaxFaults
    PROVE  UploadsOK'
<1>1. pc' \in [Triggers -> {"idle", "asking", "lock"} \cup Locked]
  BY DEF UploadsOK, Goto
<1>2. local' \in [Triggers -> Batch(made)]
  BY DEF UploadsOK, Batch
<1> QED
  BY <1>1, <1>2 DEF UploadsOK, Batch

\* One that keeps its batch.
LEMMA UploadGoes ==
    ASSUME UploadsOK, NEW t \in Triggers, UNCHANGED <<made, local>>,
           NEW place \in {"idle", "asking", "lock"} \cup Locked, Goto(t, place),
           recent' \in BOOLEAN, blind' \in Nat, faults' \in 0..MaxFaults
    PROVE  UploadsOK'
<1>1. pc' \in [Triggers -> {"idle", "asking", "lock"} \cup Locked]
  BY DEF UploadsOK, Goto
<1> QED
  BY <1>1 DEF UploadsOK

\* What each part of TypeOK depends on.
LEMMA TableFrame == ASSUME TableOK, UNCHANGED <<dbVars, server, unsure>> PROVE TableOK'
BY DEF TableOK, dbVars

LEMMA PeersFrame == ASSUME PeersOK, UNCHANGED peerVars PROVE PeersOK'
BY DEF PeersOK, peerVars

LEMMA UploadsFrame ==
    ASSUME UploadsOK, UNCHANGED <<made, pc, local, recent, blind, faults>> PROVE UploadsOK'
BY DEF UploadsOK

\* The next fault.
LEMMA FaultType == ASSUME UploadsOK, Fault PROVE faults' \in 0..MaxFaults
BY CountAssumption DEF UploadsOK, Fault

\* genOnePreKey, n times: what is new in the table.
LEMMA GenFacts ==
    ASSUME TableOK, NEW n \in Nat, NEW id \in 1..MaxKeys, GenPreKeys(n, id)
    PROVE  /\ made' = made + n /\ made \in Nat /\ made' \in 0..MaxKeys
           /\ idOf' \in [Keys -> Nat]
           /\ rows' = rows \cup (made + 1 .. made + n)
           /\ rows' \in SUBSET (1..made')
           /\ \A k \in 1..made : idOf'[k] = idOf[k]
           /\ \A k \in made + 1 .. made + n : idOf'[k] = id + (k - made - 1)
<1>0. /\ made \in Nat /\ made + n <= MaxKeys /\ made' = made + n /\ made' \in 0..MaxKeys
      /\ idOf \in [Keys -> Nat] /\ rows \in SUBSET (1..made)
      /\ rows' = rows \cup (made + 1 .. made + n)
      /\ idOf' = [k \in Keys |-> IF k \in made + 1 .. made + n
                                 THEN id + (k - made - 1) ELSE idOf[k]]
  BY CountAssumption DEF TableOK, GenPreKeys
<1>1. idOf' \in [Keys -> Nat]
  <2>1. \A k \in made + 1 .. made + n : id + (k - made - 1) \in Nat
    BY <1>0, CountAssumption
  <2> QED
    BY <1>0, <2>1
<1>2. rows' \in SUBSET (1..made')
  BY <1>0
<1>3. \A k \in 1..made : k \in Keys /\ k \notin made + 1 .. made + n
  BY <1>0, CountAssumption DEF Keys
<1>4. \A k \in made + 1 .. made + n : k \in Keys
  BY <1>0, CountAssumption DEF Keys
<1> QED
  BY <1>0, <1>1, <1>2, <1>3, <1>4

\* The batches keep their types when keys are generated.
LEMMA BatchGrows ==
    ASSUME NEW n \in Nat, NEW m \in Nat, n <= m, NEW b \in Batch(n)
    PROVE  b \in Batch(m)
<1>1. b.keys \in SUBSET (1..m)
  BY DEF Batch
<1> QED
  BY <1>1 DEF Batch

\* The table and the batches after keys were generated for nobody or for one upload.
LEMMA GenTypes ==
    ASSUME TableOK, UploadsOK, NEW n \in Nat, NEW id \in 1..MaxKeys, GenPreKeys(n, id),
           uploaded' \in SUBSET rows', UNCHANGED <<server, unsure>>
    PROVE  TableOK' /\ \A t \in Triggers : local[t] \in Batch(made')
<1>1. made \in Nat /\ made' \in Nat /\ made <= made'
  BY GenFacts, CountAssumption
<1>2. server' \in SUBSET (1..made') /\ unsure' \in SUBSET (1..made')
  BY <1>1 DEF TableOK
<1>3. TableOK'
  BY <1>2, GenFacts DEF TableOK
<1>4. ASSUME NEW t \in Triggers PROVE local[t] \in Batch(made')
  <2>1. local[t] \in Batch(made)
    BY DEF UploadsOK, Batch
  <2> QED
    BY <1>1, <2>1, BatchGrows
<1> QED
  BY <1>3, <1>4

\* The keys of failed uploads.
LEMMA UnmarkedType ==
    ASSUME NEW n \in Nat, local \in [Triggers -> Batch(n)], NEW ts \in SUBSET Triggers
    PROVE  Unmarked(ts) \in SUBSET (1..n)
<1> SUFFICES ASSUME NEW t \in ts PROVE local[t].keys \in SUBSET (1..n)
  BY DEF Unmarked
<1> QED
  BY DEF Batch

\* The number of keys of an upload.
LEMMA CountType == ASSUME NEW t PROVE Count(t) \in Nat
BY CountAssumption DEF Count

\* GetOrGenPreKeys.
LEMMA GetOrGenType ==
    ASSUME TypeOK, NEW t \in Triggers, GetOrGenPreKeys(t)
    PROVE  TypeOK'
<1> DEFINE existing == local[t].keys
           n == Count(t) - Cardinality(existing)
<1>0. /\ local \in [Triggers -> Batch(made)] /\ made \in Nat
      /\ UNCHANGED <<server, held, using, recent, unsure, blind, faults>>
      /\ pc' \in [Triggers -> {"idle", "asking", "lock"} \cup Locked]
  BY CountAssumption DEF GetOrGenPreKeys, TypeOK, TableOK, UploadsOK, Batch, peerVars, ghostVars, Goto, Locked
<1>1. existing \in SUBSET (1..made) /\ Cardinality(existing) \in Nat /\ n \in Int
  <2>1. existing \in SUBSET (1..made)
    BY <1>0 DEF Batch
  <2>2. Cardinality(existing) \in Nat /\ Count(t) \in Nat
    BY <1>0, <2>1, KeysFinite, CountType
  <2> QED
    BY <2>1, <2>2
<1>2. PeersOK'
  BY <1>0 DEF TypeOK, PeersOK
<1>3. CASE n = 0
  <2>1. PICK k \in existing : local' = [local EXCEPT ![t].last = idOf[k]]
    BY <1>3 DEF GetOrGenPreKeys
  <2>2. UNCHANGED dbVars
    BY <1>3 DEF GetOrGenPreKeys
  <2>3. k \in Keys
    BY <1>0, <1>1, CountAssumption DEF Keys, TypeOK, TableOK
  <2>4. idOf[k] \in Nat
    BY <2>3 DEF TypeOK, TableOK
  <2>5. local' \in [Triggers -> Batch(made)]
    BY <1>0, <2>1, <2>4 DEF Batch
  <2>6. UploadsOK'
    BY <1>0, <2>2, <2>5 DEF TypeOK, UploadsOK, dbVars, Batch
  <2> QED
    BY <1>0, <1>2, <2>2, <2>6, TableFrame DEF TypeOK
<1>4. CASE n > 0
  <2>1. PICK id \in 1..MaxKeys :
           /\ GenPreKeys(n, id)
           /\ local' = [local EXCEPT ![t].last = id + n - 1,
                                     ![t].keys = existing \cup (made + 1 .. made + n)]
    BY <1>4 DEF GetOrGenPreKeys
  <2>2. UNCHANGED uploaded
    BY <1>4 DEF GetOrGenPreKeys
  <2>3. n \in Nat /\ id + n - 1 \in Nat
    BY <1>1, <1>4, CountAssumption
  <2> HIDE DEF n, existing
  <2>4. uploaded' \in SUBSET rows'
    BY <2>1, <2>2, <2>3, GenFacts DEF TypeOK, TableOK
  <2>5. TableOK' /\ \A u \in Triggers : local[u] \in Batch(made')
    BY <1>0, <2>1, <2>3, <2>4, GenTypes DEF TypeOK
  <2>6. made' = made + n /\ existing \cup (made + 1 .. made + n) \in SUBSET (1..made')
    BY <1>0, <1>1, <2>1, <2>3, GenFacts DEF TypeOK
  <2>7. local' \in [Triggers -> Batch(made')]
    BY <1>0, <2>1, <2>3, <2>5, <2>6 DEF Batch
  <2>8. UploadsOK'
    BY <1>0, <2>7 DEF TypeOK, UploadsOK, Batch
  <2> QED
    BY <1>2, <2>5, <2>8 DEF TypeOK
<1> QED
  BY <1>3, <1>4 DEF GetOrGenPreKeys

\* Every step keeps the types.
LEMMA TypeStep == ASSUME TypeOK, NextActions PROVE TypeOK'
<1>0. made \in Nat /\ local \in [Triggers -> Batch(made)]
  BY CountAssumption DEF TypeOK, TableOK, UploadsOK, Batch
<1> USE DEF TypeOK
<1>1. ASSUME NEW t \in Triggers, Connected(t) PROVE TypeOK'
  <2>1. [NoBatch EXCEPT !.db = Cardinality(uploaded)] \in Batch(made)
    <3>1. uploaded \in SUBSET (1..made)
      BY DEF TableOK
    <3>2. Cardinality(uploaded) \in Nat
      BY <1>0, <3>1, KeysFinite
    <3> QED
      BY <3>2 DEF NoBatch, Batch
  <2>2. UploadsOK'
    BY <1>1, <2>1, UploadType DEF Connected, UploadsOK, dbVars, ghostVars
  <2> QED
    BY <1>1, <2>2, TableFrame, PeersFrame DEF Connected, ghostVars
<1>2. ASSUME NEW t \in Triggers, ConnectedCounts(t) PROVE TypeOK'
  <2>1. PICK low \in BOOLEAN, initial \in BOOLEAN :
           /\ Goto(t, IF low THEN "lock" ELSE "idle")
           /\ local' = [local EXCEPT ![t] =
                           IF low THEN [NoBatch EXCEPT !.initial = initial] ELSE NoBatch]
    BY <1>2 DEF ConnectedCounts
  <2>2. (IF low THEN [NoBatch EXCEPT !.initial = initial] ELSE NoBatch) \in Batch(made)
    BY <1>0 DEF NoBatch, Batch
  <2>3. UploadsOK'
    BY <1>2, <2>1, <2>2, UploadType DEF ConnectedCounts, UploadsOK, dbVars, ghostVars
  <2> QED
    BY <1>2, <2>3, TableFrame, PeersFrame DEF ConnectedCounts, ghostVars
<1>3. ASSUME NEW t \in Triggers, ConnectedFails(t) PROVE TypeOK'
  <2>1. UploadsOK'
    BY <1>0, <1>3, NoBatchType, UploadType, FaultType DEF ConnectedFails, UploadsOK, dbVars, ghostVars
  <2> QED
    BY <1>3, <2>1, TableFrame, PeersFrame DEF ConnectedFails, ghostVars
<1>4. ASSUME NEW t \in Triggers, EncryptNotification(t) PROVE TypeOK'
  <2>1. UploadsOK'
    BY <1>4, UploadGoes DEF EncryptNotification, UploadsOK, dbVars, ghostVars
  <2> QED
    BY <1>4, <2>1, TableFrame, PeersFrame DEF EncryptNotification, ghostVars
<1>5. ASSUME NEW t \in Triggers, UploadStarts(t) PROVE TypeOK'
  <2>1. UploadsOK'
    BY <1>5, UploadGoes DEF UploadStarts, UploadsOK, dbVars, ghostVars, Locked
  <2> QED
    BY <1>5, <2>1, TableFrame, PeersFrame DEF UploadStarts, ghostVars
<1>6. ASSUME NEW t \in Triggers, UploadCounts(t) PROVE TypeOK'
  <2>1. CASE Cardinality(server) >= WantedPreKeyCount
    BY <1>0, <1>6, <2>1, NoBatchType, UploadType, TableFrame, PeersFrame
       DEF UploadCounts, UploadsOK, dbVars, ghostVars
  <2>2. CASE ~(Cardinality(server) >= WantedPreKeyCount)
    BY <1>6, <2>2, UploadGoes, TableFrame, PeersFrame
       DEF UploadCounts, UploadsOK, dbVars, ghostVars, Locked
  <2> QED
    BY <2>1, <2>2
<1>7. ASSUME NEW t \in Triggers, UploadCountFails(t) PROVE TypeOK'
  <2>1. blind' \in Nat
    BY <1>7 DEF UploadCountFails, UploadsOK
  <2>2. UploadsOK'
    BY <1>7, <2>1, UploadGoes, FaultType DEF UploadCountFails, UploadsOK, dbVars, Locked
  <2> QED
    BY <1>7, <2>2, TableFrame, PeersFrame DEF UploadCountFails
<1>8. ASSUME NEW t \in Triggers, ReadUnuploaded(t) PROVE TypeOK'
  <2>1. UnuploadedPreKeys(Count(t)) \in SUBSET (1..made)
    BY DEF UnuploadedPreKeys, TableOK
  <2>2. local' \in [Triggers -> Batch(made)]
    BY <1>0, <1>8, <2>1 DEF ReadUnuploaded, Batch
  <2>3. pc' \in [Triggers -> {"idle", "asking", "lock"} \cup Locked]
    BY <1>8 DEF ReadUnuploaded, UploadsOK, Goto, Locked
  <2>4. UploadsOK'
    BY <1>8, <2>2, <2>3 DEF ReadUnuploaded, UploadsOK, dbVars, ghostVars, Batch
  <2> QED
    BY <1>8, <2>4, TableFrame, PeersFrame DEF ReadUnuploaded, ghostVars
<1>9. ASSUME NEW t \in Triggers, GetOrGenPreKeys(t) PROVE TypeOK'
  BY <1>9, GetOrGenType
<1>10. ASSUME NEW t \in Triggers, GenerateFails(t) PROVE TypeOK'
  <2>1. local[t].keys \in SUBSET (1..made)
    BY <1>0 DEF Batch
  <2>2. PICK n \in 0 .. Count(t) - Cardinality(local[t].keys), id \in 1..MaxKeys :
           GenPreKeys(n, id)
    BY <1>10 DEF GenerateFails
  <2>3. n \in Nat
    BY <1>0, <2>1, KeysFinite, CountType
  <2>4. uploaded' \in SUBSET rows' /\ UNCHANGED <<server, unsure>>
    BY <1>10, <2>2, <2>3, GenFacts DEF GenerateFails, TableOK, ghostVars
  <2>5. TableOK' /\ \A u \in Triggers : local[u] \in Batch(made')
    BY <2>2, <2>3, <2>4, GenTypes
  <2>6. local' \in [Triggers -> Batch(made')]
    <3>1. made' \in Nat
      BY <2>5, CountAssumption DEF TableOK
    <3> QED
      BY <1>0, <1>10, <2>5, <3>1, NoBatchType DEF GenerateFails
  <2>7. UploadsOK'
    BY <1>10, <2>6, FaultType DEF GenerateFails, UploadsOK, ghostVars, Batch, Goto
  <2> QED
    BY <1>10, <2>5, <2>7, PeersFrame DEF GenerateFails
<1>11. ASSUME NEW t \in Triggers, ServerStores(t) PROVE TypeOK'
  <2>1. server' \in SUBSET (1..made)
    BY <1>0, <1>11 DEF ServerStores, TableOK, Batch
  <2>2. TableOK'
    BY <1>11, <2>1 DEF ServerStores, TableOK, dbVars, ghostVars
  <2>3. UploadsOK'
    BY <1>11, UploadGoes DEF ServerStores, UploadsOK, dbVars, ghostVars, Locked
  <2> QED
    BY <1>11, <2>2, <2>3, PeersFrame DEF ServerStores
<1>12. ASSUME NEW t \in Triggers, UploadFails(t) PROVE TypeOK'
  <2>1. unsure' \in SUBSET (1..made)
    BY <1>0, <1>12, UnmarkedType DEF UploadFails, TableOK
  <2>2. TableOK'
    BY <1>12, <2>1 DEF UploadFails, TableOK, dbVars
  <2>3. UploadsOK'
    BY <1>0, <1>12, NoBatchType, UploadType, FaultType DEF UploadFails, UploadsOK, dbVars
  <2> QED
    BY <1>12, <2>2, <2>3, PeersFrame DEF UploadFails
<1>13. ASSUME NEW t \in Triggers, UploadAnswered(t) PROVE TypeOK'
  <2>1. TableOK'
    BY <1>13 DEF UploadAnswered, MarkPreKeysAsUploaded, TableOK, ghostVars
  <2>2. UploadsOK'
    BY <1>0, <1>13, NoBatchType, UploadType DEF UploadAnswered, UploadsOK, ghostVars
  <2> QED
    BY <1>13, <2>1, <2>2, PeersFrame DEF UploadAnswered
<1>14. ASSUME TimePasses PROVE TypeOK'
  <2>1. UploadsOK'
    BY <1>14 DEF TimePasses, UploadsOK, dbVars, ghostVars
  <2> QED
    BY <1>14, <2>1, TableFrame, PeersFrame DEF TimePasses, ghostVars
<1>15. ASSUME SendRetryReceipt PROVE TypeOK'
  <2>1. PICK id \in 1..MaxKeys : GenPreKeys(1, id)
    BY <1>15 DEF SendRetryReceipt
  <2>2. uploaded' \in SUBSET rows' /\ UNCHANGED <<server, unsure>>
    <3>1. rows' = rows \cup (made + 1 .. made + 1)
      BY <2>1, GenFacts
    <3>2. made + 1 \in rows'
      BY <1>0, <3>1
    <3> QED
      BY <1>15, <3>1, <3>2 DEF SendRetryReceipt, GenOnePreKey, TableOK, ghostVars
  <2>3. TableOK' /\ \A u \in Triggers : local[u] \in Batch(made')
    BY <2>1, <2>2, GenTypes
  <2>4. UploadsOK'
    BY <1>0, <1>15, <2>3 DEF SendRetryReceipt, UploadsOK, ghostVars, Batch
  <2>5. PeersOK'
    BY <1>15 DEF SendRetryReceipt, PeersOK
  <2> QED
    BY <2>3, <2>4, <2>5
<1>16. ASSUME NEW k \in Keys, PeerFetches(k) PROVE TypeOK'
  <2>1. TableOK'
    BY <1>16 DEF PeerFetches, TableOK, dbVars, ghostVars
  <2>2. PeersOK'
    BY <1>16 DEF PeerFetches, PeersOK
  <2> QED
    BY <1>16, <2>1, <2>2, UploadsFrame DEF PeerFetches, dbVars, ghostVars
<1>17. ASSUME NEW k \in Keys, PeerMessage(k) PROVE TypeOK'
  <2>1. held[k] - 1 \in Nat
    BY <1>17 DEF PeerMessage, PeersOK
  <2>2. PeersOK'
    BY <1>17, <2>1 DEF PeerMessage, PeersOK
  <2> QED
    BY <1>17, <2>2, TableFrame, UploadsFrame DEF PeerMessage, dbVars, ghostVars
<1>18. ASSUME RemovePreKey PROVE TypeOK'
  <2>1. TableOK'
    BY <1>18 DEF RemovePreKey, TableOK, ghostVars
  <2>2. PeersOK'
    BY <1>18 DEF RemovePreKey, PeersOK
  <2> QED
    BY <1>18, <2>1, <2>2, UploadsFrame DEF RemovePreKey, ghostVars
<1>19. ASSUME Restart PROVE TypeOK'
  <2>1. unsure' \in SUBSET (1..made)
    BY <1>0, <1>19, UnmarkedType DEF Restart, TableOK
  <2>2. TableOK'
    BY <1>19, <2>1 DEF Restart, TableOK, dbVars
  <2>3. UploadsOK'
    BY <1>0, <1>19, NoBatchType, FaultType DEF Restart, UploadsOK, dbVars, Batch
  <2>4. PeersOK'
    BY <1>19 DEF Restart, PeersOK
  <2> QED
    BY <2>2, <2>3, <2>4
<1> QED
  BY <1>1, <1>2, <1>3, <1>4, <1>5, <1>6, <1>7, <1>8, <1>9, <1>10, <1>11, <1>12, <1>13,
     <1>14, <1>15, <1>16, <1>17, <1>18, <1>19 DEF NextActions

-----------------------------------------------------------------------------
(* Steps of uploads.                                                       *)

WithKeys == {"generate", "send", "sent"}

\* A step of an upload that has no keys yet, or any step of nobody's.
LEMMA ControlKeeps ==
    ASSUME TypeOK, KeyInv, UNCHANGED <<dbVars, server, peerVars, unsure>>,
           NEW t \in Triggers, NEW place, Goto(t, place),
           pc[t] \notin WithKeys, place \notin WithKeys,
           place \in Locked => pc[t] \in Locked \/ LockFree,
           \A u \in Triggers : u # t => local'[u] = local[u],
           local'[t].keys = {}
    PROVE  KeyInv'
<1>1. \A u \in Triggers : pc'[u] = IF u = t THEN place ELSE pc[u]
  BY DEF Goto, TypeOK, UploadsOK
<1>2. \A u \in Triggers : pc'[u] \in WithKeys => pc'[u] = pc[u] /\ local'[u] = local[u]
  BY <1>1
<1>3. IdInv' /\ NewInv'
  BY DEF KeyInv, IdInv, NewInv, dbVars, peerVars
<1>4. LockInv'
  BY <1>1, <1>2 DEF KeyInv, LockInv, LockFree, WithKeys
<1>5. BatchInv'
  BY <1>2 DEF KeyInv, BatchInv, WithKeys, dbVars
<1>6. FreshInv'
  <2> SUFFICES ASSUME NEW k \in rows \ uploaded, k \notin unsure,
                      \A u \in Triggers : pc'[u] = "sent" => k \notin local'[u].keys
               PROVE  k \notin server /\ held[k] = 0 /\ using # k
    BY DEF FreshInv, dbVars, peerVars
  <2>1. \A u \in Triggers : pc[u] = "sent" => pc'[u] = "sent" /\ local'[u] = local[u]
    BY <1>1 DEF WithKeys
  <2> QED
    BY <2>1 DEF KeyInv, FreshInv
<1>7. OnceInv'
  BY DEF KeyInv, OnceInv, dbVars, peerVars
<1> QED
  BY <1>3, <1>4, <1>5, <1>6, <1>7 DEF KeyInv

\* GetOrGenPreKeys reads the keys that were left behind: nobody has them.
LEMMA ReadKeeps ==
    ASSUME TypeOK, KeyInv, NEW t \in Triggers, ReadUnuploaded(t)
    PROVE  KeyInv'
<1>0. UNCHANGED <<dbVars, server, peerVars, unsure>> /\ pc[t] = "read"
  BY DEF ReadUnuploaded, ghostVars
<1>1. \A u \in Triggers : pc'[u] = IF u = t THEN "generate" ELSE pc[u]
  BY DEF ReadUnuploaded, Goto, TypeOK, UploadsOK
<1>2. /\ \A u \in Triggers : u # t => local'[u] = local[u]
      /\ local'[t].keys = UnuploadedPreKeys(Count(t))
  BY DEF ReadUnuploaded, TypeOK, UploadsOK
<1>3. UnuploadedPreKeys(Count(t)) \subseteq rows \ uploaded
  BY DEF UnuploadedPreKeys
<1>4. IdInv' /\ NewInv' /\ OnceInv'
  BY <1>0 DEF KeyInv, IdInv, NewInv, OnceInv, dbVars, peerVars
<1>5. LockInv'
  BY <1>0, <1>1, <1>2 DEF KeyInv, LockInv, Locked
<1>6. BatchInv'
  BY <1>0, <1>1, <1>2, <1>3 DEF KeyInv, BatchInv, dbVars
<1>7. FreshInv'
  BY <1>0, <1>1, <1>2 DEF KeyInv, FreshInv, dbVars, peerVars
<1> QED
  BY <1>4, <1>5, <1>6, <1>7 DEF KeyInv

\* Generated keys have ids of their own.
LEMMA GenIds ==
    ASSUME TypeOK, IdInv, NEW n \in Nat, NEW id \in 1..MaxKeys, IsNextPreKeyID(id),
           GenPreKeys(n, id)
    PROVE  /\ \A j, k \in rows' : idOf'[j] = idOf'[k] => j = k
           /\ \A k \in rows : k \in rows' /\ idOf'[k] = idOf[k] /\ idOf[k] < id
           /\ \A k \in rows' : k \in rows \/ (k > made /\ idOf'[k] >= id /\ idOf'[k] <= id + n - 1)
<1>0. made \in Nat /\ id \in Nat /\ rows \in SUBSET (1..made) /\ idOf \in [Keys -> Nat]
  BY CountAssumption DEF TypeOK, TableOK
<1>1. \A k \in rows : k \in rows' /\ idOf'[k] = idOf[k] /\ idOf[k] < id /\ idOf[k] \in Nat
  <2>1. \A k \in rows : k \in rows' /\ idOf'[k] = idOf[k] /\ idOf[k] < id
    BY <1>0, GenFacts DEF TypeOK, IsNextPreKeyID
  <2>2. \A k \in rows : k \in Keys
    BY <1>0, CountAssumption DEF Keys, TypeOK, TableOK
  <2> QED
    BY <1>0, <2>1, <2>2
<1>2. ASSUME NEW k \in rows', k \notin rows
      PROVE  k \in made + 1 .. made + n /\ idOf'[k] = id + (k - made - 1)
  BY <1>2, GenFacts DEF TypeOK
<1>3. ASSUME NEW k \in rows', k \notin rows
      PROVE  k \in Nat /\ k > made /\ idOf'[k] >= id /\ idOf'[k] <= id + n - 1
  BY <1>0, <1>2, <1>3
<1>4. ASSUME NEW j \in rows', NEW k \in rows', idOf'[j] = idOf'[k] PROVE j = k
  <2>1. CASE j \in rows /\ k \in rows
    BY <1>1, <1>4, <2>1 DEF IdInv
  <2>2. CASE j \notin rows /\ k \notin rows
    <3>1. /\ j \in made + 1 .. made + n /\ k \in made + 1 .. made + n
          /\ id + (j - made - 1) = id + (k - made - 1)
      BY <1>2, <1>4, <2>2
    <3> QED
      BY <1>0, <3>1
  <2>3. CASE j \in rows /\ k \notin rows
    <3>1. idOf[j] \in Nat /\ idOf[j] < id /\ idOf[j] >= id
      BY <1>1, <1>3, <1>4, <2>3
    <3> QED
      BY <1>0, <3>1
  <2>4. CASE j \notin rows /\ k \in rows
    <3>1. idOf[k] \in Nat /\ idOf[k] < id /\ idOf[k] >= id
      BY <1>1, <1>3, <1>4, <2>4
    <3> QED
      BY <1>0, <3>1
  <2> QED
    BY <2>1, <2>2, <2>3, <2>4
<1> QED
  BY <1>1, <1>3, <1>4

\* What generating keys keeps: nobody has a key that is new.
LEMMA GrowKeeps ==
    ASSUME TypeOK, KeyInv, NEW n \in Nat, NEW id \in 1..MaxKeys, IsNextPreKeyID(id),
           GenPreKeys(n, id), UNCHANGED <<server, peerVars, unsure>>
    PROVE  /\ IdInv' /\ NewInv' /\ OnceInv'
           /\ \A k \in rows' : k \notin rows => k \in Keys /\ k \notin server /\ held[k] = 0 /\ using # k
<1>0. /\ made \in Nat /\ made' \in Nat /\ made' = made + n /\ made' <= MaxKeys
      /\ rows' \in SUBSET (1..made') /\ server \in SUBSET (1..made)
      /\ held' = held /\ using' = using /\ held \in [Keys -> Nat]
  BY GenFacts, CountAssumption DEF TypeOK, TableOK, PeersOK, peerVars
<1>1. IdInv'
  BY <1>0, GenIds DEF KeyInv, IdInv
<1>2. NewInv'
  BY <1>0 DEF KeyInv, NewInv, Keys
<1>3. OnceInv'
  BY <1>0, GenIds DEF KeyInv, OnceInv
<1>4. ASSUME NEW k \in rows', k \notin rows
      PROVE  k \in Keys /\ k \notin server /\ held[k] = 0 /\ using # k
  <2>1. k > made /\ k \in Keys
    BY <1>0, <1>4, GenIds, CountAssumption DEF Keys, KeyInv
  <2> QED
    BY <1>0, <2>1 DEF KeyInv, NewInv, Keys
<1> QED
  BY <1>1, <1>2, <1>3, <1>4

\* GetOrGenPreKeys completes the batch.
LEMMA GetOrGenKeeps ==
    ASSUME TypeOK, KeyInv, NEW t \in Triggers, GetOrGenPreKeys(t)
    PROVE  KeyInv'
<1> DEFINE existing == local[t].keys
           n == Count(t) - Cardinality(existing)
<1>0. /\ pc[t] = "generate" /\ UNCHANGED <<server, peerVars, unsure>>
      /\ existing \in SUBSET (1..made) /\ made \in Nat
  BY CountAssumption DEF GetOrGenPreKeys, ghostVars, TypeOK, UploadsOK, TableOK
<1>1. \A u \in Triggers : pc'[u] = IF u = t THEN "send" ELSE pc[u]
  BY DEF GetOrGenPreKeys, Goto, TypeOK, UploadsOK
<1>2. \A u \in Triggers : u # t => pc'[u] \notin Locked
  BY <1>0, <1>1 DEF KeyInv, LockInv, Locked
<1>3. n \in Int
  <2>1. Cardinality(existing) \in Nat /\ Count(t) \in Nat
    BY <1>0, KeysFinite, CountType
  <2> QED
    BY <2>1
<1>4. existing \ unsure \subseteq rows \ uploaded
  BY <1>0 DEF KeyInv, BatchInv
<1>5. CASE n = 0
  <2>1. PICK k \in existing :
           /\ \A j \in existing : idOf[j] <= idOf[k]
           /\ local' = [local EXCEPT ![t].last = idOf[k]]
    BY <1>5 DEF GetOrGenPreKeys
  <2>2. UNCHANGED dbVars
    BY <1>5 DEF GetOrGenPreKeys
  <2>3. /\ local'[t].keys = existing /\ local'[t].last = idOf[k]
        /\ \A u \in Triggers : u # t => local'[u] = local[u]
    BY <2>1 DEF TypeOK, UploadsOK
  <2>4. IdInv' /\ NewInv' /\ OnceInv'
    BY <1>0, <2>2 DEF KeyInv, IdInv, NewInv, OnceInv, dbVars, peerVars
  <2>5. LockInv'
    BY <1>0, <1>1, <2>3 DEF KeyInv, LockInv, Locked
  <2>6. BatchInv'
    BY <1>0, <1>1, <1>2, <1>4, <2>1, <2>2, <2>3 DEF BatchInv, dbVars, Locked
  <2>7. FreshInv'
    BY <1>0, <1>1, <2>2, <2>3 DEF KeyInv, FreshInv, dbVars, peerVars
  <2> QED
    BY <2>4, <2>5, <2>6, <2>7 DEF KeyInv
<1>6. CASE n > 0
  <2>1. PICK id \in 1..MaxKeys :
           /\ IsNextPreKeyID(id)
           /\ GenPreKeys(n, id)
           /\ local' = [local EXCEPT ![t].last = id + n - 1,
                                     ![t].keys = existing \cup (made + 1 .. made + n)]
    BY <1>6 DEF GetOrGenPreKeys
  <2>2. UNCHANGED uploaded
    BY <1>6 DEF GetOrGenPreKeys
  <2>3. n \in Nat /\ id \in Nat /\ id <= id + n - 1
    BY <1>3, <1>6, CountAssumption
  <2> HIDE DEF n, existing
  <2>4. /\ local'[t].keys = existing \cup (made + 1 .. made + n)
        /\ local'[t].last = id + n - 1
        /\ \A u \in Triggers : u # t => local'[u] = local[u]
    BY <2>1 DEF TypeOK, UploadsOK
  <2>5. rows' = rows \cup (made + 1 .. made + n)
    BY <2>1, <2>3, GenFacts DEF TypeOK
  <2>6. /\ IdInv' /\ NewInv' /\ OnceInv'
        /\ \A k \in rows' : k \notin rows => k \notin server /\ held[k] = 0 /\ using # k
    BY <1>0, <2>1, <2>3, GrowKeeps
  <2>7. LockInv'
    BY <1>0, <1>1, <2>4 DEF KeyInv, LockInv, Locked
  <2>8. BatchInv'
    <3>1. (made + 1 .. made + n) \cap uploaded = {}
      BY <1>0 DEF TypeOK, TableOK
    <3>2. local'[t].keys \ unsure \subseteq rows' \ uploaded
      BY <1>4, <2>4, <2>5, <3>1
    <3>3. \A k \in rows' : idOf'[k] <= id + n - 1
      <4>1. \A k \in rows : idOf'[k] = idOf[k] /\ idOf[k] < id /\ idOf[k] \in Nat
        <5>1. \A k \in rows : k \in Keys
          BY CountAssumption DEF Keys, TypeOK, TableOK
        <5> QED
          BY <2>1, <2>3, <5>1, GenIds DEF KeyInv, TypeOK, TableOK
      <4>2. \A k \in rows' : k \notin rows => idOf'[k] <= id + n - 1
        BY <2>1, <2>3, GenIds DEF KeyInv
      <4> QED
        BY <2>3, <4>1, <4>2
    <3> QED
      BY <1>0, <1>1, <1>2, <2>2, <2>4, <3>2, <3>3 DEF BatchInv, Locked
  <2>9. FreshInv'
    <3> SUFFICES ASSUME NEW k \in rows' \ uploaded, k \notin unsure
                 PROVE  k \notin server /\ held[k] = 0 /\ using # k
      BY <1>0, <2>2 DEF FreshInv, peerVars
    <3>1. \A u \in Triggers : pc[u] # "sent"
      BY <1>0 DEF KeyInv, LockInv, Locked
    <3> QED
      BY <2>6, <3>1 DEF KeyInv, FreshInv
  <2> QED
    BY <2>6, <2>7, <2>8, <2>9 DEF KeyInv
<1> QED
  BY <1>5, <1>6 DEF GetOrGenPreKeys

\* The batch of an upload that ends without an answer; keys may have been
\* generated for it.
LEMMA EndKeeps ==
    ASSUME TypeOK, KeyInv, NEW t \in Triggers, pc[t] \in WithKeys, Goto(t, "idle"),
           local' = [local EXCEPT ![t] = NoBatch]
    PROVE  /\ LockInv'
           /\ \A u \in Triggers : pc'[u] \notin WithKeys
           /\ \A u \in Triggers : pc[u] = "sent" => u = t
<1>1. \A u \in Triggers : pc'[u] = IF u = t THEN "idle" ELSE pc[u]
  BY DEF Goto, TypeOK, UploadsOK
<1>2. \A u \in Triggers : local'[u] = IF u = t THEN NoBatch ELSE local[u]
  BY DEF TypeOK, UploadsOK
<1>3. \A u \in Triggers : pc[u] \in WithKeys => u = t
  BY DEF KeyInv, LockInv, Locked, WithKeys
<1>4. LockInv'
  BY <1>1, <1>2 DEF KeyInv, LockInv, Locked, NoBatch
<1> QED
  BY <1>1, <1>3, <1>4 DEF WithKeys

\* A statement fails while keys are generated.
LEMMA GenerateFailsKeeps ==
    ASSUME TypeOK, KeyInv, NEW t \in Triggers, GenerateFails(t)
    PROVE  KeyInv'
<1>0. pc[t] = "generate" /\ UNCHANGED <<uploaded, server, peerVars, unsure>>
  BY DEF GenerateFails, ghostVars
<1>1. PICK n \in 0 .. Count(t) - Cardinality(local[t].keys), id \in 1..MaxKeys :
         IsNextPreKeyID(id) /\ GenPreKeys(n, id)
  BY DEF GenerateFails
<1>2. n \in Nat
  <2>1. local[t].keys \in SUBSET (1..made) /\ made \in Nat
    BY CountAssumption DEF TypeOK, UploadsOK, TableOK
  <2> QED
    BY <2>1, KeysFinite, CountType
<1>3. /\ IdInv' /\ NewInv' /\ OnceInv'
      /\ \A k \in rows' : k \notin rows => k \notin server /\ held[k] = 0 /\ using # k
  BY <1>0, <1>1, <1>2, GrowKeeps
<1>4. LockInv' /\ \A u \in Triggers : pc'[u] \notin WithKeys
  BY <1>0, EndKeeps DEF GenerateFails, WithKeys
<1>5. BatchInv'
  BY <1>4 DEF BatchInv, WithKeys
<1>6. FreshInv'
  <2>1. \A u \in Triggers : pc[u] # "sent"
    BY <1>0 DEF KeyInv, LockInv, Locked
  <2> QED
    BY <1>0, <1>3, <2>1 DEF KeyInv, FreshInv, peerVars
<1> QED
  BY <1>3, <1>4, <1>5, <1>6 DEF KeyInv

\* The server takes a batch: nobody had its keys before.
LEMMA StoreKeeps ==
    ASSUME TypeOK, KeyInv, NEW t \in Triggers, ServerStores(t)
    PROVE  KeyInv'
<1>0. /\ pc[t] = "send" /\ UNCHANGED <<dbVars, peerVars, local, unsure>>
      /\ server' \subseteq server \cup local[t].keys
  BY DEF ServerStores, ghostVars
<1>1. \A u \in Triggers : pc'[u] = IF u = t THEN "sent" ELSE pc[u]
  BY DEF ServerStores, Goto, TypeOK, UploadsOK
<1>2. \A u \in Triggers : u # t => pc[u] \notin Locked
  BY <1>0 DEF KeyInv, LockInv, Locked
<1>3. ASSUME NEW k \in local[t].keys, k \notin unsure
      PROVE  k \in rows /\ k \notin server /\ held[k] = 0 /\ using # k
  <2>1. k \in rows \ uploaded
    BY <1>0, <1>3 DEF KeyInv, BatchInv
  <2>2. \A u \in Triggers : pc[u] # "sent"
    BY <1>0, <1>2 DEF Locked
  <2> QED
    BY <1>3, <2>1, <2>2 DEF KeyInv, FreshInv
<1>4. IdInv' /\ NewInv'
  BY <1>0 DEF KeyInv, IdInv, NewInv, dbVars, peerVars
<1>5. LockInv'
  BY <1>0, <1>1 DEF KeyInv, LockInv, Locked
<1>6. BatchInv'
  BY <1>0, <1>1 DEF KeyInv, BatchInv, dbVars
<1>7. FreshInv'
  BY <1>0, <1>1, <1>2 DEF KeyInv, FreshInv, dbVars, peerVars, Locked
<1>8. OnceInv'
  <2> SUFFICES ASSUME NEW k \in Keys \ unsure
               PROVE  /\ k \in server' \/ held[k] > 0 => k \in rows
                      /\ held[k] <= 1
                      /\ k \in server' => held[k] = 0 /\ using # k
                      /\ held[k] > 0 => using # k
    BY <1>0 DEF OnceInv, dbVars, peerVars
  <2>1. CASE k \in local[t].keys
    BY <1>3, <2>1 DEF KeyInv, OnceInv
  <2>2. CASE k \notin local[t].keys
    BY <1>0, <2>2 DEF KeyInv, OnceInv
  <2> QED
    BY <2>1, <2>2
<1> QED
  BY <1>4, <1>5, <1>6, <1>7, <1>8 DEF KeyInv

\* The table and the peers as they were, nobody with a batch, and the keys the
\* server may have been given unsure.
LEMMA ForgottenKeeps ==
    ASSUME TypeOK, KeyInv, UNCHANGED <<dbVars, server, held>>, using' \in {using, NoKey},
           LockInv', \A u \in Triggers : pc'[u] \notin WithKeys,
           unsure \subseteq unsure',
           \A u \in Triggers : pc[u] = "sent" => local[u].keys \subseteq unsure'
    PROVE  KeyInv'
<1>1. using' = using \/ using' = NoKey
  OBVIOUS
<1>2. NoKey \notin Keys /\ rows \subseteq Keys
  BY NoKeyAssumption, CountAssumption DEF TypeOK, TableOK, Keys
<1>3. IdInv' /\ NewInv'
  BY <1>1, <1>2 DEF KeyInv, IdInv, NewInv, dbVars
<1>4. BatchInv'
  BY DEF BatchInv, WithKeys
<1>5. FreshInv'
  <2> SUFFICES ASSUME NEW k \in rows \ uploaded, k \notin unsure'
               PROVE  k \notin server /\ held[k] = 0 /\ using' # k
    BY DEF FreshInv, dbVars
  <2>1. k \notin server /\ held[k] = 0 /\ using # k
    BY DEF KeyInv, FreshInv
  <2> QED
    BY <1>1, <1>2, <2>1
<1>6. OnceInv'
  BY <1>1, <1>2 DEF KeyInv, OnceInv, dbVars
<1> QED
  BY <1>3, <1>4, <1>5, <1>6 DEF KeyInv

\* An upload fails.
LEMMA UploadFailsKeeps ==
    ASSUME TypeOK, KeyInv, NEW t \in Triggers, UploadFails(t)
    PROVE  KeyInv'
<1>0. /\ pc[t] \in {"send", "sent"} /\ UNCHANGED <<dbVars, server, held, using>>
      /\ unsure' = unsure \cup Unmarked({t})
  BY DEF UploadFails, peerVars
<1>1. /\ LockInv' /\ \A u \in Triggers : pc'[u] \notin WithKeys
      /\ \A u \in Triggers : pc[u] = "sent" => u = t
  BY <1>0, EndKeeps DEF UploadFails, WithKeys
<1>2. \A u \in Triggers : pc[u] = "sent" => local[u].keys \subseteq unsure'
  BY <1>0, <1>1 DEF Unmarked
<1> QED
  BY <1>0, <1>1, <1>2, ForgottenKeeps

\* The process starts again.
LEMMA RestartKeeps == ASSUME TypeOK, KeyInv, Restart PROVE KeyInv'
<1>0. /\ UNCHANGED <<dbVars, server, held>> /\ using' = NoKey
      /\ unsure' = unsure \cup Unmarked(Triggers)
      /\ \A u \in Triggers : pc'[u] = "idle" /\ local'[u] = NoBatch
  BY DEF Restart
<1>1. LockInv' /\ \A u \in Triggers : pc'[u] \notin WithKeys
  BY <1>0 DEF LockInv, Locked, WithKeys, NoBatch
<1>2. \A u \in Triggers : pc[u] = "sent" => local[u].keys \subseteq unsure'
  BY <1>0 DEF Unmarked
<1> QED
  BY <1>0, <1>1, <1>2, ForgottenKeeps

\* The answer: every key of the batch that is still in the table is marked.
LEMMA AnsweredKeeps ==
    ASSUME TypeOK, KeyInv, NEW t \in Triggers, UploadAnswered(t)
    PROVE  KeyInv'
<1>0. /\ pc[t] = "sent" /\ UNCHANGED <<idOf, made, rows, server, peerVars, unsure>>
      /\ uploaded' = uploaded \cup {k \in rows : idOf[k] <= local[t].last}
  BY DEF UploadAnswered, MarkPreKeysAsUploaded, ghostVars
<1>1. /\ LockInv' /\ \A u \in Triggers : pc'[u] \notin WithKeys
      /\ \A u \in Triggers : pc[u] = "sent" => u = t
  BY <1>0, EndKeeps DEF UploadAnswered, WithKeys
<1>2. IdInv' /\ NewInv' /\ OnceInv'
  BY <1>0 DEF KeyInv, IdInv, NewInv, OnceInv, peerVars
<1>3. BatchInv'
  BY <1>1 DEF BatchInv, WithKeys
<1>4. FreshInv'
  <2> SUFFICES ASSUME NEW k \in rows \ uploaded', k \notin unsure
               PROVE  k \notin server /\ held[k] = 0 /\ using # k
    BY <1>0 DEF FreshInv, peerVars
  <2>1. k \notin local[t].keys
    BY <1>0 DEF KeyInv, BatchInv
  <2>2. k \in rows \ uploaded
    BY <1>0
  <2> QED
    BY <1>1, <2>1, <2>2 DEF KeyInv, FreshInv
<1> QED
  BY <1>1, <1>2, <1>3, <1>4 DEF KeyInv

-----------------------------------------------------------------------------
(* Steps of peers.                                                         *)

\* The key of a retry receipt is new, in the table and marked; it may get lost.
LEMMA ReceiptKeeps == ASSUME TypeOK, KeyInv, SendRetryReceipt PROVE KeyInv'
<1>0. /\ UNCHANGED <<server, using, pc, local, unsure>>
      /\ uploaded' = uploaded \cup {made + 1}
      /\ held' \in {held, [held EXCEPT ![made + 1] = 1]}
  BY DEF SendRetryReceipt, GenOnePreKey, ghostVars
<1>1. PICK id \in 1..MaxKeys : IsNextPreKeyID(id) /\ GenPreKeys(1, id)
  BY DEF SendRetryReceipt
<1>2. /\ made \in Nat /\ made' = made + 1 /\ made + 1 <= MaxKeys
      /\ rows' = rows \cup {made + 1} /\ rows \in SUBSET (1..made)
      /\ server \in SUBSET (1..made) /\ held \in [Keys -> Nat]
      /\ \A t \in Triggers : local[t].keys \in SUBSET (1..made)
  <2>1. made \in Nat /\ made' = made + 1 /\ made + 1 <= MaxKeys /\ rows' = rows \cup (made + 1 .. made + 1)
    BY <1>1, GenFacts, CountAssumption DEF TypeOK
  <2>2. made + 1 .. made + 1 = {made + 1}
    BY <2>1
  <2> QED
    BY <2>1, <2>2 DEF TypeOK, TableOK, PeersOK, UploadsOK
<1>3. /\ made + 1 \in Keys /\ made + 1 \notin rows /\ made + 1 \notin server
      /\ held[made + 1] = 0 /\ using # made + 1
  BY <1>2, CountAssumption DEF Keys, KeyInv, NewInv
<1>4. \A k \in Keys : k # made + 1 => held'[k] = held[k]
  BY <1>0, <1>2
<1>5. held'[made + 1] \in {0, 1}
  BY <1>0, <1>2, <1>3
<1>6. IdInv'
  BY <1>0, <1>1, GenIds DEF KeyInv, IdInv
<1>7. NewInv'
  BY <1>0, <1>2, <1>4 DEF KeyInv, NewInv, Keys
<1>8. LockInv'
  BY <1>0 DEF KeyInv, LockInv
<1>9. BatchInv'
  <2>1. \A k \in 1..made : idOf'[k] = idOf[k]
    BY <1>1, GenFacts DEF TypeOK
  <2>2. ASSUME NEW t \in Triggers, NEW k \in local[t].keys
        PROVE  k \in 1..made /\ k # made + 1 /\ (k \in rows' => k \in rows)
               /\ (k \in uploaded' => k \in uploaded)
    BY <1>0, <1>2
  <2> QED
    BY <1>0, <1>2, <2>1, <2>2 DEF KeyInv, BatchInv
<1>10. FreshInv'
  <2> SUFFICES ASSUME NEW k \in rows' \ uploaded', k \notin unsure,
                      \A t \in Triggers : pc[t] = "sent" => k \notin local[t].keys
               PROVE  k \notin server /\ held'[k] = 0 /\ using # k
    BY <1>0 DEF FreshInv
  <2>1. k \in rows \ uploaded /\ k # made + 1
    BY <1>0, <1>2
  <2>2. k \in Keys
    BY <1>2, <2>1, CountAssumption DEF Keys
  <2> QED
    BY <1>4, <2>1, <2>2 DEF KeyInv, FreshInv
<1>11. OnceInv'
  <2> SUFFICES ASSUME NEW k \in Keys \ unsure
               PROVE  /\ k \in server \/ held'[k] > 0 => k \in rows'
                      /\ held'[k] <= 1
                      /\ k \in server => held'[k] = 0 /\ using # k
                      /\ held'[k] > 0 => using # k
    BY <1>0 DEF OnceInv
  <2>1. CASE k = made + 1
    BY <1>2, <1>3, <1>5, <2>1
  <2>2. CASE k # made + 1
    BY <1>2, <1>4, <2>2 DEF KeyInv, OnceInv
  <2> QED
    BY <2>1, <2>2
<1> QED
  BY <1>6, <1>7, <1>8, <1>9, <1>10, <1>11 DEF KeyInv

\* A key goes from the server to a peer.
LEMMA FetchKeeps ==
    ASSUME TypeOK, KeyInv, NEW k \in Keys, PeerFetches(k)
    PROVE  KeyInv'
<1>0. /\ k \in server /\ server' = server \ {k} /\ held' = [held EXCEPT ![k] = held[k] + 1]
      /\ UNCHANGED <<made, idOf, rows, uploaded, using, pc, local, unsure>>
  BY DEF PeerFetches, dbVars, ghostVars
<1>1. /\ held \in [Keys -> Nat] /\ \A j \in Keys : held'[j] = IF j = k THEN held[k] + 1 ELSE held[j]
  BY <1>0 DEF TypeOK, PeersOK
<1>2. k <= made /\ rows \subseteq Keys
  BY <1>0, CountAssumption DEF TypeOK, TableOK, Keys
<1>3. IdInv' /\ LockInv' /\ BatchInv'
  BY <1>0 DEF KeyInv, IdInv, LockInv, BatchInv
<1>4. NewInv'
  BY <1>0, <1>1, <1>2, CountAssumption DEF KeyInv, NewInv, Keys, TypeOK, TableOK
<1>5. FreshInv'
  BY <1>0, <1>1, <1>2 DEF KeyInv, FreshInv
<1>6. OnceInv'
  BY <1>0, <1>1 DEF KeyInv, OnceInv
<1> QED
  BY <1>3, <1>4, <1>5, <1>6 DEF KeyInv

\* A peer uses its key.
LEMMA MessageKeeps ==
    ASSUME TypeOK, KeyInv, NEW k \in Keys, PeerMessage(k)
    PROVE  KeyInv'
<1>0. /\ held[k] > 0 /\ using = NoKey /\ held' = [held EXCEPT ![k] = held[k] - 1]
      /\ using' = (IF k \in rows THEN k ELSE NoKey)
      /\ UNCHANGED <<made, idOf, rows, uploaded, server, pc, local, unsure>>
  BY DEF PeerMessage, dbVars, ghostVars
<1>1. /\ held \in [Keys -> Nat] /\ \A j \in Keys : held'[j] = IF j = k THEN held[k] - 1 ELSE held[j]
  BY <1>0 DEF TypeOK, PeersOK
<1>2. NoKey \notin Keys /\ rows \subseteq Keys
  BY NoKeyAssumption, CountAssumption DEF TypeOK, TableOK, Keys
<1>3. IdInv' /\ LockInv' /\ BatchInv'
  BY <1>0, <1>2 DEF KeyInv, IdInv, LockInv, BatchInv
<1>4. NewInv'
  BY <1>0, <1>1, <1>2 DEF KeyInv, NewInv
<1>5. FreshInv'
  BY <1>0, <1>1, <1>2 DEF KeyInv, FreshInv
<1>6. OnceInv'
  BY <1>0, <1>1, <1>2 DEF KeyInv, OnceInv
<1> QED
  BY <1>3, <1>4, <1>5, <1>6 DEF KeyInv

\* RemovePreKey removes one row, by its id.
LEMMA RemoveKeeps == ASSUME TypeOK, KeyInv, RemovePreKey PROVE KeyInv'
<1>0. /\ using # NoKey /\ using \in rows /\ using' = NoKey /\ uploaded' = uploaded \cap rows'
      /\ rows' = {k \in rows : idOf[k] # idOf[using]}
      /\ UNCHANGED <<made, idOf, server, held, pc, local, unsure>>
  BY DEF RemovePreKey, KeyInv, IdInv, ghostVars
<1>1. rows' = rows \ {using}
  BY <1>0 DEF KeyInv, IdInv
<1>2. NoKey \notin Keys /\ rows \subseteq Keys
  BY NoKeyAssumption, CountAssumption DEF TypeOK, TableOK, Keys
<1>3. IdInv' /\ LockInv'
  BY <1>0, <1>1 DEF KeyInv, IdInv, LockInv
<1>4. NewInv'
  BY <1>0, <1>2 DEF KeyInv, NewInv
<1>5. BatchInv'
  <2>1. ASSUME NEW t \in Triggers, pc[t] \in {"generate", "send"}, NEW k \in local[t].keys \ unsure
        PROVE  k \in rows' \ uploaded'
    <3>1. k \in rows \ uploaded
      BY <2>1 DEF KeyInv, BatchInv
    <3>2. \A u \in Triggers : pc[u] # "sent"
      BY <2>1 DEF KeyInv, LockInv, Locked
    <3>3. using # k
      BY <3>1, <3>2 DEF KeyInv, FreshInv
    <3> QED
      BY <1>0, <1>1, <3>1, <3>3
  <2> QED
    BY <1>0, <1>1, <2>1 DEF KeyInv, BatchInv
<1>6. FreshInv'
  BY <1>0, <1>1, <1>2 DEF KeyInv, FreshInv
<1>7. OnceInv'
  BY <1>0, <1>1, <1>2 DEF KeyInv, OnceInv
<1> QED
  BY <1>3, <1>4, <1>5, <1>6, <1>7 DEF KeyInv

-----------------------------------------------------------------------------
(* The theorems.                                                           *)

\* What KeyInv depends on.
LEMMA KeyFrame ==
    ASSUME KeyInv, UNCHANGED <<dbVars, server, peerVars, unsure, pc, local>>
    PROVE  KeyInv'
<1>1. IdInv' /\ NewInv' /\ LockInv'
  BY DEF KeyInv, IdInv, NewInv, LockInv, dbVars, peerVars
<1>2. BatchInv' /\ FreshInv' /\ OnceInv'
  BY DEF KeyInv, BatchInv, FreshInv, OnceInv, dbVars, peerVars
<1> QED
  BY <1>1, <1>2 DEF KeyInv

\* Every step keeps KeyInv.
LEMMA KeyStep == ASSUME TypeOK, KeyInv, NextActions PROVE KeyInv'
<1>0. \A t \in Triggers : pc[t] \notin WithKeys => local[t].keys = {}
  BY DEF KeyInv, LockInv, WithKeys
<1>1. ASSUME NEW t \in Triggers, Connected(t) PROVE KeyInv'
  <2>1. PICK place : /\ Goto(t, place) /\ place \notin WithKeys /\ pc[t] \notin WithKeys
                     /\ place \in Locked => pc[t] \in Locked \/ LockFree
    BY <1>1 DEF Connected, WithKeys, Locked
  <2>2. /\ \A u \in Triggers : u # t => local'[u] = local[u]
        /\ local'[t].keys = {}
    BY <1>0, <1>1, <2>1 DEF Connected, NoBatch, TypeOK, UploadsOK
  <2> QED
    BY <1>1, <2>1, <2>2, ControlKeeps DEF Connected, ghostVars
<1>2. ASSUME NEW t \in Triggers, ConnectedCounts(t) PROVE KeyInv'
  <2>1. PICK place : /\ Goto(t, place) /\ place \notin WithKeys /\ pc[t] \notin WithKeys
                     /\ place \in Locked => pc[t] \in Locked \/ LockFree
    BY <1>2 DEF ConnectedCounts, WithKeys, Locked
  <2>2. /\ \A u \in Triggers : u # t => local'[u] = local[u]
        /\ local'[t].keys = {}
    BY <1>0, <1>2, <2>1 DEF ConnectedCounts, NoBatch, TypeOK, UploadsOK
  <2> QED
    BY <1>2, <2>1, <2>2, ControlKeeps DEF ConnectedCounts, ghostVars
<1>3. ASSUME NEW t \in Triggers, ConnectedFails(t) PROVE KeyInv'
  <2>1. PICK place : /\ Goto(t, place) /\ place \notin WithKeys /\ pc[t] \notin WithKeys
                     /\ place \in Locked => pc[t] \in Locked \/ LockFree
    BY <1>3 DEF ConnectedFails, WithKeys, Locked
  <2>2. /\ \A u \in Triggers : u # t => local'[u] = local[u]
        /\ local'[t].keys = {}
    BY <1>0, <1>3, <2>1 DEF ConnectedFails, NoBatch, TypeOK, UploadsOK
  <2> QED
    BY <1>3, <2>1, <2>2, ControlKeeps DEF ConnectedFails, ghostVars
<1>4. ASSUME NEW t \in Triggers, EncryptNotification(t) PROVE KeyInv'
  <2>1. PICK place : /\ Goto(t, place) /\ place \notin WithKeys /\ pc[t] \notin WithKeys
                     /\ place \in Locked => pc[t] \in Locked \/ LockFree
    BY <1>4 DEF EncryptNotification, WithKeys, Locked
  <2>2. /\ \A u \in Triggers : u # t => local'[u] = local[u]
        /\ local'[t].keys = {}
    BY <1>0, <1>4, <2>1 DEF EncryptNotification, NoBatch, TypeOK, UploadsOK
  <2> QED
    BY <1>4, <2>1, <2>2, ControlKeeps DEF EncryptNotification, ghostVars
<1>5. ASSUME NEW t \in Triggers, UploadStarts(t) PROVE KeyInv'
  <2>1. PICK place : /\ Goto(t, place) /\ place \notin WithKeys /\ pc[t] \notin WithKeys
                     /\ place \in Locked => pc[t] \in Locked \/ LockFree
    BY <1>5 DEF UploadStarts, WithKeys, Locked
  <2>2. /\ \A u \in Triggers : u # t => local'[u] = local[u]
        /\ local'[t].keys = {}
    BY <1>0, <1>5, <2>1 DEF UploadStarts, NoBatch, TypeOK, UploadsOK
  <2> QED
    BY <1>5, <2>1, <2>2, ControlKeeps DEF UploadStarts, ghostVars
<1>6. ASSUME NEW t \in Triggers, UploadCounts(t) PROVE KeyInv'
  <2>1. PICK place : /\ Goto(t, place) /\ place \notin WithKeys /\ pc[t] \notin WithKeys
                     /\ place \in Locked => pc[t] \in Locked \/ LockFree
    BY <1>6 DEF UploadCounts, WithKeys, Locked
  <2>2. /\ \A u \in Triggers : u # t => local'[u] = local[u]
        /\ local'[t].keys = {}
    BY <1>0, <1>6, <2>1 DEF UploadCounts, NoBatch, TypeOK, UploadsOK
  <2> QED
    BY <1>6, <2>1, <2>2, ControlKeeps DEF UploadCounts, ghostVars
<1>7. ASSUME NEW t \in Triggers, UploadCountFails(t) PROVE KeyInv'
  <2>1. PICK place : /\ Goto(t, place) /\ place \notin WithKeys /\ pc[t] \notin WithKeys
                     /\ place \in Locked => pc[t] \in Locked \/ LockFree
    BY <1>7 DEF UploadCountFails, WithKeys, Locked
  <2>2. /\ \A u \in Triggers : u # t => local'[u] = local[u]
        /\ local'[t].keys = {}
    BY <1>0, <1>7, <2>1 DEF UploadCountFails, NoBatch, TypeOK, UploadsOK
  <2> QED
    BY <1>7, <2>1, <2>2, ControlKeeps DEF UploadCountFails, ghostVars
<1>8. ASSUME NEW t \in Triggers, ReadUnuploaded(t) PROVE KeyInv'
  BY <1>8, ReadKeeps
<1>9. ASSUME NEW t \in Triggers, GetOrGenPreKeys(t) PROVE KeyInv'
  BY <1>9, GetOrGenKeeps
<1>10. ASSUME NEW t \in Triggers, GenerateFails(t) PROVE KeyInv'
  BY <1>10, GenerateFailsKeeps
<1>11. ASSUME NEW t \in Triggers, ServerStores(t) PROVE KeyInv'
  BY <1>11, StoreKeeps
<1>12. ASSUME NEW t \in Triggers, UploadFails(t) PROVE KeyInv'
  BY <1>12, UploadFailsKeeps
<1>13. ASSUME NEW t \in Triggers, UploadAnswered(t) PROVE KeyInv'
  BY <1>13, AnsweredKeeps
<1>14. ASSUME TimePasses PROVE KeyInv'
  BY <1>14, KeyFrame DEF TimePasses, ghostVars
<1>15. ASSUME SendRetryReceipt PROVE KeyInv'
  BY <1>15, ReceiptKeeps
<1>16. ASSUME NEW k \in Keys, PeerFetches(k) PROVE KeyInv'
  BY <1>16, FetchKeeps
<1>17. ASSUME NEW k \in Keys, PeerMessage(k) PROVE KeyInv'
  BY <1>17, MessageKeeps
<1>18. ASSUME RemovePreKey PROVE KeyInv'
  BY <1>18, RemoveKeeps
<1>19. ASSUME Restart PROVE KeyInv'
  BY <1>19, RestartKeeps
<1> QED
  BY <1>1, <1>2, <1>3, <1>4, <1>5, <1>6, <1>7, <1>8, <1>9, <1>10, <1>11, <1>12, <1>13,
     <1>14, <1>15, <1>16, <1>17, <1>18, <1>19 DEF NextActions

\* The initial state: no keys at all.
LEMMA InitHolds == Init => TypeOK /\ KeyInv
<1> SUFFICES ASSUME Init PROVE TypeOK /\ KeyInv
  OBVIOUS
<1>1. TableOK
  BY CountAssumption DEF Init, TableOK
<1>2. PeersOK
  BY DEF Init, PeersOK
<1>3. UploadsOK
  <2>1. recent \in BOOLEAN
    BY Zenon DEF Init
  <2>2. blind \in Nat /\ faults \in 0..MaxFaults
    BY CountAssumption DEF Init
  <2>3. pc \in [Triggers -> {"idle", "asking", "lock"} \cup Locked]
    BY DEF Init
  <2>4. NoBatch \in [db : Nat, initial : BOOLEAN, keys : SUBSET (1..made), last : Nat]
    BY DEF NoBatch
  <2>5. local \in [Triggers -> [db : Nat, initial : BOOLEAN, keys : SUBSET (1..made), last : Nat]]
    BY <2>4 DEF Init
  <2> QED
    BY <2>1, <2>2, <2>3, <2>5 DEF UploadsOK
<1>4. KeyInv
  <2>1. IdInv /\ BatchInv /\ FreshInv
    BY DEF Init, IdInv, BatchInv, FreshInv
  <2>2. NewInv /\ OnceInv
    BY NoKeyAssumption DEF Init, NewInv, OnceInv
  <2>3. LockInv
    BY DEF Init, LockInv, Locked, NoBatch
  <2> QED
    BY <2>1, <2>2, <2>3 DEF KeyInv
<1> QED
  BY <1>1, <1>2, <1>3, <1>4 DEF TypeOK

\* TypeOK and KeyInv are inductive together.
LEMMA KeyInductive == Spec => [](TypeOK /\ KeyInv)
<1>1. TypeOK /\ KeyInv /\ [Next]_vars => (TypeOK /\ KeyInv)'
  <2> SUFFICES ASSUME TypeOK, KeyInv, [Next]_vars PROVE TypeOK' /\ KeyInv'
    OBVIOUS
  <2>1. CASE Next
    BY <2>1, NextSplit, TypeStep, KeyStep
  <2>2. CASE UNCHANGED vars
    <3>1. UNCHANGED <<dbVars, server, peerVars, unsure, pc, local, made, recent, blind, faults>>
      BY <2>2 DEF vars, dbVars, peerVars
    <3> QED
      BY <3>1, KeyFrame, TableFrame, PeersFrame, UploadsFrame DEF TypeOK
  <2> QED
    BY <2>1, <2>2
<1> QED
  BY InitHolds, <1>1, PTL DEF Spec

\* The table, the uploads and the peers keep their types.
THEOREM TypeCorrect == Spec => []TypeOK
BY KeyInductive, PTL

\* Whatever uploads, removals, retry receipts, failures and restarts interleave, a key
\* that prekeys.go has given away is in the table and somebody's alone.
THEOREM KeysUsable == Spec => []KeysServable
<1>1. TypeOK /\ KeyInv => KeysServable
  <2> SUFFICES ASSUME TypeOK, KeyInv, NEW k \in Keys \ unsure
               PROVE  /\ k \in server \/ held[k] > 0 => k \in rows
                      /\ held[k] + (IF k \in server THEN 1 ELSE 0)
                            + (IF using = k THEN 1 ELSE 0) <= 1
    BY DEF KeysServable
  <2>1. held[k] \in Nat
    BY DEF TypeOK, PeersOK
  <2>2. held[k] <= 1 /\ (k \in server => held[k] = 0 /\ using # k) /\ (held[k] > 0 => using # k)
    BY DEF KeyInv, OnceInv
  <2>3. k \in server \/ held[k] > 0 => k \in rows
    BY DEF KeyInv, OnceInv
  <2> QED
    BY <2>1, <2>2, <2>3
<1> QED
  BY KeyInductive, <1>1, PTL

-----------------------------------------------------------------------------
(* How many keys the server has.                                           *)

\* The keys on the server that an answered upload has put there.
Known == (server \ unsure) \ Unmarked(Triggers)

\* What a trigger knows of their number: the count it was started for, the one it
\* made under the lock, and the size of its batch.
TriggerInv(t) ==
    /\ ~recent /\ pc[t] = "asking" => Cardinality(Known) <= local[t].db
    /\ ~recent /\ pc[t] = "lock" => Cardinality(Known) < MinPreKeyCount
    /\ pc[t] \in {"read", "generate", "send", "sent"} =>
          Cardinality(Known) < WantedPreKeyCount + blind * InitialCount
    /\ pc[t] \in {"send", "sent"} => Cardinality(local[t].keys) <= Count(t)

BoundInv ==
    /\ Cardinality(Known) < WantedPreKeyCount + (1 + blind) * InitialCount
    /\ \A t \in Triggers : TriggerInv(t)

\* What has been sent and not yet answered.
LEMMA UnmarkedIs ==
    \A k : k \in Unmarked(Triggers) <=> \E t \in Triggers : pc[t] = "sent" /\ k \in local[t].keys
BY DEF Unmarked

\* The known keys are finitely many, and marked in the table.
LEMMA KnownKeys ==
    ASSUME TypeOK, KeyInv
    PROVE  /\ IsFiniteSet(Known) /\ Cardinality(Known) \in Nat
           /\ IsFiniteSet(server) /\ Cardinality(server) \in Nat
           /\ Cardinality(Known) <= Cardinality(server)
           /\ Cardinality(Known) <= Cardinality(uploaded) /\ Cardinality(uploaded) \in Nat
<1>1. made \in Nat /\ server \in SUBSET (1..made) /\ uploaded \in SUBSET (1..made)
  BY CountAssumption DEF TypeOK, TableOK
<1>2. IsFiniteSet(server) /\ IsFiniteSet(uploaded)
  BY <1>1, KeysFinite
<1>3. Known \in SUBSET server
  BY DEF Known
<1>4. Known \in SUBSET uploaded
  <2> SUFFICES ASSUME NEW k \in Known, k \notin uploaded PROVE FALSE
    OBVIOUS
  <2>1. k \in server /\ k \notin unsure /\ k \in Keys
    BY <1>1, CountAssumption DEF Known, TypeOK, TableOK, Keys
  <2>2. k \in rows
    BY <2>1 DEF KeyInv, OnceInv
  <2>3. \A t \in Triggers : pc[t] = "sent" => k \notin local[t].keys
    BY UnmarkedIs DEF Known
  <2> QED
    BY <2>1, <2>2, <2>3 DEF KeyInv, FreshInv
<1> QED
  BY <1>2, <1>3, <1>4, FS_Subset, FS_CardinalityType

\* The products of the bound.
LEMMA BoundTypes ==
    ASSUME TypeOK
    PROVE  /\ blind * InitialCount \in Nat
           /\ (1 + blind) * InitialCount = InitialCount + blind * InitialCount
           /\ (1 + (blind + 1)) * InitialCount = InitialCount + (blind + 1) * InitialCount
           /\ (blind + 1) * InitialCount = InitialCount + blind * InitialCount
           /\ \A t : Count(t) \in Nat /\ Count(t) <= InitialCount
<1>1. blind \in Nat /\ InitialCount \in Nat
  BY CountAssumption DEF TypeOK, UploadsOK
<1>2. \A t : Count(t) \in Nat /\ Count(t) <= InitialCount
  BY CountAssumption DEF Count
<1>3. \A a, b \in Nat : a * b \in Nat /\ (1 + a) * b = b + a * b /\ (a + 1) * b = b + a * b
  OBVIOUS
<1> QED
  BY <1>1, <1>2, <1>3

\* A step that adds no known key and leaves everybody but perhaps one trigger alone.
LEMMA BoundFrame ==
    ASSUME TypeOK, KeyInv, BoundInv, Known' \subseteq Known,
           UNCHANGED <<recent, blind>>,
           \A u \in Triggers : (pc'[u] = pc[u] /\ local'[u] = local[u]) \/ TriggerInv(u)'
    PROVE  BoundInv'
<1>1. Cardinality(Known') <= Cardinality(Known) /\ Cardinality(Known') \in Nat
      /\ Cardinality(Known) \in Nat
  BY KnownKeys, FS_Subset, FS_CardinalityType
<1>2. Cardinality(Known)' < WantedPreKeyCount + (1 + blind') * InitialCount
  BY <1>1, BoundTypes, CountAssumption DEF BoundInv
<1>3. ASSUME NEW u \in Triggers, pc'[u] = pc[u], local'[u] = local[u] PROVE TriggerInv(u)'
  <2>1. TriggerInv(u) /\ pc'[u] = pc[u] /\ local'[u] = local[u]
    BY <1>3 DEF BoundInv
  <2>2. local[u].db \in Nat
    BY DEF TypeOK, UploadsOK
  <2>3. ~recent' /\ pc'[u] = "asking" => Cardinality(Known') <= local'[u].db
    BY <1>1, <2>1, <2>2 DEF TriggerInv
  <2>4. ~recent' /\ pc'[u] = "lock" => Cardinality(Known') < MinPreKeyCount
    BY <1>1, <2>1, CountAssumption DEF TriggerInv
  <2>5. pc'[u] \in {"read", "generate", "send", "sent"} =>
           Cardinality(Known') < WantedPreKeyCount + blind' * InitialCount
    BY <1>1, <2>1, BoundTypes, CountAssumption DEF TriggerInv
  <2>6. pc'[u] \in {"send", "sent"} => Cardinality(local'[u].keys) <= Count(u)'
    BY <2>1 DEF TriggerInv, Count
  <2> QED
    BY <2>3, <2>4, <2>5, <2>6 DEF TriggerInv
<1> QED
  BY <1>2, <1>3 DEF BoundInv

\* A step of a trigger that has nothing with the server.
LEMMA KnownStays ==
    ASSUME TypeOK, UNCHANGED <<server, unsure>>, NEW t \in Triggers, NEW place, Goto(t, place),
           pc[t] # "sent", place # "sent", \A u \in Triggers : u # t => local'[u] = local[u]
    PROVE  /\ Known' = Known
           /\ \A u \in Triggers : u # t => pc'[u] = pc[u]
           /\ pc'[t] = place
<1>1. pc'[t] = place /\ \A u \in Triggers : u # t => pc'[u] = pc[u]
  BY DEF Goto, TypeOK, UploadsOK
<1>2. \A k : k \in Unmarked(Triggers)' <=> k \in Unmarked(Triggers)
  BY <1>1 DEF Unmarked
<1> QED
  BY <1>1, <1>2 DEF Known

\* The goroutine of a connection, and the notification.
LEMMA AskingBounds ==
    ASSUME TypeOK, KeyInv, BoundInv, NEW t \in Triggers,
           Connected(t) \/ ConnectedCounts(t) \/ ConnectedFails(t) \/ EncryptNotification(t)
    PROVE  BoundInv'
<1>0. \A u \in Triggers : u # t => local'[u] = local[u]
  BY DEF Connected, ConnectedCounts, ConnectedFails, EncryptNotification, TypeOK, UploadsOK
<1>a. UNCHANGED <<server, unsure, recent, blind>>
  BY DEF Connected, ConnectedCounts, ConnectedFails, EncryptNotification, ghostVars
<1>b. /\ Cardinality(Known) \in Nat /\ Cardinality(server) \in Nat /\ Cardinality(uploaded) \in Nat
      /\ Cardinality(Known) <= Cardinality(server) /\ Cardinality(Known) <= Cardinality(uploaded)
  BY KnownKeys
<1>1. ASSUME NEW place, Goto(t, place), place # "sent", pc[t] # "sent",
             Known' = Known /\ pc'[t] = place => TriggerInv(t)'
      PROVE  BoundInv'
  <2>1. Known' = Known /\ pc'[t] = place /\ \A u \in Triggers : u # t => pc'[u] = pc[u]
    BY <1>0, <1>1, <1>a, KnownStays
  <2> QED
    BY <1>0, <1>1, <1>a, <2>1, BoundFrame
<1>2. CASE Connected(t)
  <2>1. local'[t].db = Cardinality(uploaded)
    BY <1>2 DEF Connected, NoBatch, TypeOK, UploadsOK
  <2>2. ASSUME Known' = Known, pc'[t] = "asking" PROVE TriggerInv(t)'
    BY <1>b, <2>1, <2>2 DEF TriggerInv
  <2> QED
    BY <1>1, <1>2, <2>2 DEF Connected
<1>3. CASE ConnectedCounts(t)
  <2>1. \/ /\ Cardinality(server) < MinPreKeyCount \/ local[t].db < MinPreKeyCount
           /\ Goto(t, "lock")
        \/ Goto(t, "idle")
    BY <1>3 DEF ConnectedCounts
  <2>2. pc[t] = "asking" /\ TriggerInv(t)
    BY <1>3 DEF ConnectedCounts, BoundInv
  <2>3. CASE /\ Cardinality(server) < MinPreKeyCount \/ local[t].db < MinPreKeyCount
             /\ Goto(t, "lock")
    <3>1. ASSUME ~recent PROVE Cardinality(Known) < MinPreKeyCount
      <4>1. Cardinality(Known) <= local[t].db /\ local[t].db \in Nat
        BY <2>2, <3>1 DEF TriggerInv, TypeOK, UploadsOK
      <4> QED
        BY <1>b, <2>3, <4>1, CountAssumption
    <3>2. ASSUME Known' = Known, pc'[t] = "lock" PROVE TriggerInv(t)'
      BY <1>a, <3>1, <3>2 DEF TriggerInv
    <3> QED
      BY <1>1, <2>2, <2>3, <3>2
  <2>4. CASE Goto(t, "idle")
    <3>1. ASSUME pc'[t] = "idle" PROVE TriggerInv(t)'
      BY <3>1 DEF TriggerInv
    <3> QED
      BY <1>1, <2>2, <2>4, <3>1
  <2> QED
    BY <2>1, <2>3, <2>4
<1>4. CASE ConnectedFails(t)
  <2>1. ASSUME pc'[t] = "idle" PROVE TriggerInv(t)'
    BY <2>1 DEF TriggerInv
  <2> QED
    BY <1>1, <1>4, <2>1 DEF ConnectedFails
<1>5. CASE EncryptNotification(t)
  <2>1. ASSUME Known' = Known, pc'[t] = "lock" PROVE TriggerInv(t)'
    BY <1>5, <1>b, <2>1, CountAssumption DEF TriggerInv, EncryptNotification
  <2> QED
    BY <1>1, <1>5, <2>1 DEF EncryptNotification
<1> QED
  BY <1>2, <1>3, <1>4, <1>5

\* Under the lock, until the keys are there.
LEMMA LockedBounds ==
    ASSUME TypeOK, KeyInv, BoundInv, NEW t \in Triggers,
           UploadStarts(t) \/ UploadCounts(t) \/ ReadUnuploaded(t) \/ GenerateFails(t)
    PROVE  BoundInv'
<1>0. \A u \in Triggers : u # t => local'[u] = local[u]
  BY DEF UploadStarts, UploadCounts, ReadUnuploaded, GenerateFails, TypeOK, UploadsOK
<1>a. UNCHANGED <<server, unsure, recent, blind>>
  BY DEF UploadStarts, UploadCounts, ReadUnuploaded, GenerateFails, ghostVars
<1>b. /\ Cardinality(Known) \in Nat /\ Cardinality(server) \in Nat
      /\ Cardinality(Known) <= Cardinality(server)
  BY KnownKeys
<1>1. ASSUME NEW place, Goto(t, place), place # "sent", pc[t] # "sent",
             Known' = Known /\ pc'[t] = place => TriggerInv(t)'
      PROVE  BoundInv'
  <2>1. Known' = Known /\ pc'[t] = place /\ \A u \in Triggers : u # t => pc'[u] = pc[u]
    BY <1>0, <1>1, <1>a, KnownStays
  <2> QED
    BY <1>0, <1>1, <1>a, <2>1, BoundFrame
<1>2. ASSUME Known' = Known, pc'[t] \in {"read", "generate"},
             Cardinality(Known) < WantedPreKeyCount + blind * InitialCount
      PROVE  TriggerInv(t)'
  BY <1>2, <1>a DEF TriggerInv
<1>3. ASSUME pc'[t] \in {"idle", "count"} PROVE TriggerInv(t)'
  BY <1>3 DEF TriggerInv
<1>4. TriggerInv(t)
  BY DEF BoundInv
<1>5. CASE UploadStarts(t)
  <2>1. CASE recent
    BY <1>1, <1>3, <1>5, <2>1 DEF UploadStarts
  <2>2. CASE ~recent
    <3>1. Cardinality(Known) < MinPreKeyCount
      BY <1>4, <1>5, <2>2 DEF TriggerInv, UploadStarts
    <3>2. Cardinality(Known) < WantedPreKeyCount + blind * InitialCount
      BY <1>b, <3>1, BoundTypes, CountAssumption
    <3> QED
      BY <1>1, <1>2, <1>5, <2>2, <3>2 DEF UploadStarts
  <2> QED
    BY <2>1, <2>2
<1>6. CASE UploadCounts(t)
  <2>1. CASE Cardinality(server) >= WantedPreKeyCount
    BY <1>1, <1>3, <1>6, <2>1 DEF UploadCounts
  <2>2. CASE ~(Cardinality(server) >= WantedPreKeyCount)
    <3>1. Cardinality(Known) < WantedPreKeyCount + blind * InitialCount
      BY <1>b, <2>2, BoundTypes, CountAssumption
    <3> QED
      BY <1>1, <1>2, <1>6, <2>2, <3>1 DEF UploadCounts
  <2> QED
    BY <2>1, <2>2
<1>7. CASE ReadUnuploaded(t)
  <2>1. Cardinality(Known) < WantedPreKeyCount + blind * InitialCount
    BY <1>4, <1>7 DEF TriggerInv, ReadUnuploaded
  <2> QED
    BY <1>1, <1>2, <1>7, <2>1 DEF ReadUnuploaded
<1>8. CASE GenerateFails(t)
  BY <1>1, <1>3, <1>8 DEF GenerateFails
<1> QED
  BY <1>5, <1>6, <1>7, <1>8

\* A count that fails lets an upload through that may be one too many.
LEMMA BlindBounds ==
    ASSUME TypeOK, KeyInv, BoundInv, NEW t \in Triggers, UploadCountFails(t)
    PROVE  BoundInv'
<1>1. /\ UNCHANGED <<server, unsure, recent, local>> /\ blind' = blind + 1
      /\ Goto(t, "read") /\ pc[t] = "count"
  BY DEF UploadCountFails
<1>2. Known' = Known /\ pc'[t] = "read" /\ \A u \in Triggers : u # t => pc'[u] = pc[u]
  BY <1>1, KnownStays
<1>3. Cardinality(Known) \in Nat
  BY KnownKeys
<1>4. Cardinality(Known) < WantedPreKeyCount + (blind + 1) * InitialCount
  BY BoundTypes DEF BoundInv
<1>5. Cardinality(Known) < WantedPreKeyCount + (1 + (blind + 1)) * InitialCount
  <2>1. (blind + 1) * InitialCount \in Nat
    BY BoundTypes, CountAssumption
  <2> QED
    BY <1>3, <1>4, <2>1, BoundTypes, CountAssumption
<1>6. TriggerInv(t)'
  BY <1>1, <1>2, <1>4 DEF TriggerInv
<1>7. ASSUME NEW u \in Triggers, u # t PROVE TriggerInv(u)'
  <2>1. pc[u] \notin Locked
    BY <1>1, <1>7 DEF KeyInv, LockInv, Locked
  <2>2. TriggerInv(u) /\ pc'[u] = pc[u]
    BY <1>2, <1>7 DEF BoundInv
  <2> QED
    BY <1>1, <1>2, <2>1, <2>2 DEF TriggerInv, Locked
<1> QED
  BY <1>1, <1>2, <1>5, <1>6, <1>7 DEF BoundInv

\* GetOrGenPreKeys makes a batch of the wanted size.
LEMMA GetOrGenBounds ==
    ASSUME TypeOK, KeyInv, BoundInv, NEW t \in Triggers, GetOrGenPreKeys(t)
    PROVE  BoundInv'
<1> DEFINE existing == local[t].keys
           n == Count(t) - Cardinality(existing)
<1>0. /\ UNCHANGED <<server, unsure, recent, blind>> /\ Goto(t, "send") /\ pc[t] = "generate"
      /\ made \in Nat /\ existing \in SUBSET (1..made) /\ local[t] \in Batch(made)
  BY CountAssumption DEF GetOrGenPreKeys, ghostVars, TypeOK, TableOK, UploadsOK, Batch
<1>1. Count(t) \in Nat /\ Cardinality(existing) \in Nat /\ IsFiniteSet(existing)
  BY <1>0, KeysFinite, CountType
<1>2. /\ \A u \in Triggers : u # t => local'[u] = local[u]
      /\ local'[t].initial = local[t].initial
      /\ Cardinality(local'[t].keys) <= Count(t)
  <2>1. CASE n = 0
    <3>1. PICK last : local' = [local EXCEPT ![t].last = last]
      BY <2>1 DEF GetOrGenPreKeys
    <3>2. local'[t].keys = existing /\ local'[t].initial = local[t].initial
      BY <1>0, <3>1 DEF TypeOK, UploadsOK, Batch
    <3>3. \A u \in Triggers : u # t => local'[u] = local[u]
      BY <3>1 DEF TypeOK, UploadsOK
    <3> QED
      BY <1>1, <2>1, <3>2, <3>3
  <2>2. CASE n > 0
    <3>1. PICK id \in 1..MaxKeys :
             local' = [local EXCEPT ![t].last = id + n - 1,
                                    ![t].keys = existing \cup (made + 1 .. made + n)]
      BY <2>2 DEF GetOrGenPreKeys
    <3> DEFINE new == made + 1 .. made + n
    <3>2. local'[t].keys = existing \cup new /\ local'[t].initial = local[t].initial
      BY <1>0, <3>1 DEF TypeOK, UploadsOK, Batch
    <3>3. \A u \in Triggers : u # t => local'[u] = local[u]
      BY <3>1 DEF TypeOK, UploadsOK
    <3>4. IsFiniteSet(new) /\ Cardinality(new) = n
      <4>1. made + 1 \in Int /\ made + n \in Int /\ ~(made + 1 > made + n)
            /\ (made + n) - (made + 1) + 1 = n
        BY <1>0, <1>1, <2>2
      <4> HIDE DEF n
      <4> QED
        BY <4>1, FS_Interval
    <3> HIDE DEF new
    <3>5. Cardinality(existing \cup new) <= Count(t)
      <4>1. IsFiniteSet(existing \cap new)
        BY <1>1, FS_Subset
      <4>2. Cardinality(existing \cap new) \in Nat
        BY <4>1, FS_CardinalityType
      <4>3. Cardinality(existing \cup new)
               = Cardinality(existing) + Cardinality(new) - Cardinality(existing \cap new)
        BY <1>1, <3>4, FS_Union
      <4> QED
        BY <1>1, <3>4, <4>2, <4>3
    <3> QED
      BY <3>2, <3>3, <3>5
  <2> QED
    BY <2>1, <2>2 DEF GetOrGenPreKeys
<1>3. Known' = Known /\ pc'[t] = "send" /\ \A u \in Triggers : u # t => pc'[u] = pc[u]
  BY <1>0, <1>2, KnownStays
<1>4. Count(t)' = Count(t)
  BY <1>2 DEF Count
<1>5. Cardinality(Known) < WantedPreKeyCount + blind * InitialCount
  BY <1>0 DEF BoundInv, TriggerInv
<1>6. TriggerInv(t)'
  BY <1>0, <1>2, <1>3, <1>4, <1>5 DEF TriggerInv
<1> QED
  BY <1>0, <1>2, <1>3, <1>6, BoundFrame

\* The batch is sent: until the answer, the server has one batch more than is known.
LEMMA SentBounds ==
    ASSUME TypeOK, KeyInv, BoundInv, NEW t \in Triggers, ServerStores(t) \/ UploadFails(t)
    PROVE  BoundInv'
<1>0. UNCHANGED <<recent, blind>> /\ pc[t] \in {"send", "sent"}
      /\ \A u \in Triggers : u # t => local'[u] = local[u]
  BY DEF ServerStores, UploadFails, ghostVars, TypeOK, UploadsOK
<1>1. \A u \in Triggers : u # t => pc[u] \notin Locked
  BY <1>0 DEF KeyInv, LockInv, Locked
<1>2. TriggerInv(t)
  BY DEF BoundInv
<1>3. CASE ServerStores(t)
  <2>1. /\ pc'[t] = "sent" /\ UNCHANGED <<local, unsure>> /\ pc[t] = "send"
        /\ \A u \in Triggers : u # t => pc'[u] = pc[u]
        /\ \A k \in server' : k \in server \/ k \in local[t].keys
    BY <1>3 DEF ServerStores, Goto, TypeOK, UploadsOK, ghostVars
  <2>2. \A k : k \in Unmarked(Triggers)' <=> k \in local[t].keys
    BY <1>1, <2>1 DEF Unmarked, Locked
  <2>3. \A k : k \notin Unmarked(Triggers)
    BY <1>1, <2>1, UnmarkedIs DEF Locked
  <2>4. Known' \subseteq Known
    BY <2>1, <2>2, <2>3 DEF Known
  <2>5. Cardinality(Known') <= Cardinality(Known) /\ Cardinality(Known') \in Nat
        /\ Cardinality(Known) \in Nat
    BY <2>4, KnownKeys, FS_Subset, FS_CardinalityType
  <2>6. Cardinality(Known') < WantedPreKeyCount + blind' * InitialCount
    BY <1>0, <1>2, <2>5, BoundTypes, CountAssumption DEF TriggerInv
  <2>7. Cardinality(local'[t].keys) <= Count(t)'
    BY <1>0, <1>2, <2>1 DEF TriggerInv, Count
  <2>8. TriggerInv(t)'
    BY <2>1, <2>6, <2>7 DEF TriggerInv
  <2> QED
    BY <1>0, <2>1, <2>4, <2>8, BoundFrame
<1>4. CASE UploadFails(t)
  <2>1. /\ pc'[t] = "idle" /\ UNCHANGED server /\ unsure' = unsure \cup Unmarked({t})
        /\ \A u \in Triggers : u # t => pc'[u] = pc[u]
    BY <1>4 DEF UploadFails, Goto, TypeOK, UploadsOK
  <2>2. \A k : k \in Unmarked(Triggers) => k \in Unmarked({t})
    BY <1>1 DEF Unmarked, Locked
  <2>3. Known' \subseteq Known
    BY <2>1, <2>2 DEF Known
  <2>4. TriggerInv(t)'
    BY <2>1 DEF TriggerInv
  <2> QED
    BY <1>0, <2>1, <2>3, <2>4, BoundFrame
<1> QED
  BY <1>3, <1>4

\* Two sets of keys together.
LEMMA UnionBound ==
    ASSUME NEW S, IsFiniteSet(S), NEW T, IsFiniteSet(T), NEW U \in SUBSET (S \cup T)
    PROVE  /\ Cardinality(U) <= Cardinality(S) + Cardinality(T)
           /\ Cardinality(U) \in Nat /\ Cardinality(S) \in Nat /\ Cardinality(T) \in Nat
<1>1. /\ IsFiniteSet(S \cup T)
      /\ Cardinality(S \cup T) = Cardinality(S) + Cardinality(T) - Cardinality(S \cap T)
  BY FS_Union
<1>2. IsFiniteSet(S \cap T) /\ IsFiniteSet(U) /\ Cardinality(U) <= Cardinality(S \cup T)
  BY <1>1, FS_Subset
<1>3. /\ Cardinality(S \cap T) \in Nat /\ Cardinality(S) \in Nat /\ Cardinality(T) \in Nat
      /\ Cardinality(U) \in Nat
  BY <1>2, FS_CardinalityType
<1> QED
  BY <1>1, <1>2, <1>3

\* The answer makes the batch known, and the next upload ask first.
LEMMA AnsweredBounds ==
    ASSUME TypeOK, KeyInv, BoundInv, NEW t \in Triggers, UploadAnswered(t)
    PROVE  BoundInv'
<1>0. /\ UNCHANGED <<blind, server, unsure>> /\ pc[t] = "sent" /\ recent' = TRUE
      /\ pc'[t] = "idle" /\ \A u \in Triggers : u # t => pc'[u] = pc[u]
  BY DEF UploadAnswered, ghostVars, Goto, TypeOK, UploadsOK
<1>1. \A u \in Triggers : u # t => pc[u] \notin Locked
  BY <1>0 DEF KeyInv, LockInv, Locked
<1>2. Cardinality(Known) < WantedPreKeyCount + blind * InitialCount
      /\ Cardinality(local[t].keys) <= Count(t)
  BY <1>0 DEF BoundInv, TriggerInv
<1>3. IsFiniteSet(local[t].keys) /\ IsFiniteSet(Known)
  <2>1. made \in Nat /\ local[t].keys \in SUBSET (1..made)
    BY CountAssumption DEF TypeOK, TableOK, UploadsOK
  <2> QED
    BY <2>1, KeysFinite, KnownKeys
<1>4. \A k \in Unmarked(Triggers) : k \in local[t].keys
  BY <1>1, UnmarkedIs DEF Locked
<1>5. Known' \subseteq Known \cup local[t].keys
  BY <1>0, <1>4 DEF Known
<1>6. /\ Cardinality(Known') <= Cardinality(Known) + Cardinality(local[t].keys)
      /\ Cardinality(Known') \in Nat /\ Cardinality(Known) \in Nat
      /\ Cardinality(local[t].keys) \in Nat
  BY <1>3, <1>5, UnionBound
<1>7. Cardinality(Known') < WantedPreKeyCount + (1 + blind') * InitialCount
  BY <1>0, <1>2, <1>6, BoundTypes, CountAssumption
<1>8. ASSUME NEW u \in Triggers PROVE TriggerInv(u)'
  BY <1>0, <1>1 DEF TriggerInv, Locked
<1> QED
  BY <1>7, <1>8 DEF BoundInv

\* The steps of nobody's upload.
LEMMA OtherBounds ==
    ASSUME TypeOK, KeyInv, BoundInv, UNCHANGED <<pc, local, unsure, blind>>,
           server' \subseteq server,
           recent' = recent \/ \A t \in Triggers : pc[t] = "idle"
    PROVE  BoundInv'
<1>1. Known' \subseteq Known
  BY DEF Known, Unmarked
<1>2. Cardinality(Known') <= Cardinality(Known) /\ Cardinality(Known') \in Nat
      /\ Cardinality(Known) \in Nat
  BY <1>1, KnownKeys, FS_Subset, FS_CardinalityType
<1>3. Cardinality(Known') < WantedPreKeyCount + (1 + blind') * InitialCount
  BY <1>2, BoundTypes, CountAssumption DEF BoundInv
<1>4. CASE recent' = recent
  BY <1>1, <1>4, BoundFrame
<1>5. CASE \A t \in Triggers : pc[t] = "idle"
  BY <1>3, <1>5 DEF BoundInv, TriggerInv
<1> QED
  BY <1>4, <1>5

\* A restart forgets who was counting.
LEMMA RestartBounds == ASSUME TypeOK, KeyInv, BoundInv, Restart PROVE BoundInv'
<1>1. /\ \A t \in Triggers : pc'[t] = "idle"
      /\ UNCHANGED <<server, blind>> /\ unsure' = unsure \cup Unmarked(Triggers)
  BY DEF Restart
<1>2. Known' \subseteq Known
  BY <1>1 DEF Known
<1>3. Cardinality(Known') <= Cardinality(Known) /\ Cardinality(Known') \in Nat
      /\ Cardinality(Known) \in Nat
  BY <1>2, KnownKeys, FS_Subset, FS_CardinalityType
<1>4. Cardinality(Known') < WantedPreKeyCount + (1 + blind') * InitialCount
  BY <1>1, <1>3, BoundTypes, CountAssumption DEF BoundInv
<1> QED
  BY <1>1, <1>4 DEF BoundInv, TriggerInv

\* Every step keeps BoundInv.
LEMMA BoundStep == ASSUME TypeOK, KeyInv, BoundInv, NextActions PROVE BoundInv'
<1>1. ASSUME TimePasses \/ SendRetryReceipt \/ RemovePreKey
             \/ \E k \in Keys : PeerFetches(k) \/ PeerMessage(k)
      PROVE  BoundInv'
  BY <1>1, OtherBounds DEF TimePasses, SendRetryReceipt, RemovePreKey, PeerFetches, PeerMessage,
                           ghostVars
<1> QED
  BY <1>1, AskingBounds, LockedBounds, BlindBounds, GetOrGenBounds, SentBounds, AnsweredBounds,
     RestartBounds DEF NextActions

\* However connections, notifications and restarts make uploads race, the server has
\* less than two batches of keys that count, and one more for each count that failed.
THEOREM ServerStaysBounded == Spec => []ServerBounded
<1>1. Init => BoundInv
  <2> SUFFICES ASSUME Init PROVE BoundInv
    OBVIOUS
  <2>1. Known = {}
    BY DEF Init, Known
  <2>2. Cardinality(Known) = 0
    BY <2>1, FS_EmptySet
  <2>3. Cardinality(Known) < WantedPreKeyCount + (1 + blind) * InitialCount
    BY <2>2, InitHolds, BoundTypes, CountAssumption
  <2> QED
    BY <2>3 DEF Init, BoundInv, TriggerInv
<1>2. TypeOK /\ KeyInv /\ BoundInv /\ [Next]_vars => BoundInv'
  <2> SUFFICES ASSUME TypeOK, KeyInv, BoundInv, [Next]_vars PROVE BoundInv'
    OBVIOUS
  <2>1. CASE Next
    BY <2>1, NextSplit, BoundStep
  <2>2. CASE UNCHANGED vars
    BY <2>2, OtherBounds DEF vars
  <2> QED
    BY <2>1, <2>2
<1>3. TypeOK /\ KeyInv /\ BoundInv => ServerBounded
  <2> SUFFICES ASSUME TypeOK, KeyInv, BoundInv PROVE ServerBounded
    OBVIOUS
  <2>1. ASSUME NEW t \in Triggers, pc[t] = "sent" PROVE ServerBounded
    <3>1. \A k \in Unmarked(Triggers) : k \in local[t].keys
      BY <2>1, UnmarkedIs DEF KeyInv, LockInv, Locked
    <3>2. server \ unsure \subseteq Known \cup local[t].keys
      BY <3>1 DEF Known
    <3>3. IsFiniteSet(local[t].keys) /\ IsFiniteSet(Known)
      <4>1. made \in Nat /\ local[t].keys \in SUBSET (1..made)
        BY CountAssumption DEF TypeOK, TableOK, UploadsOK
      <4> QED
        BY <4>1, KeysFinite, KnownKeys
    <3>4. /\ Cardinality(server \ unsure) <= Cardinality(Known) + Cardinality(local[t].keys)
          /\ Cardinality(server \ unsure) \in Nat /\ Cardinality(Known) \in Nat
          /\ Cardinality(local[t].keys) \in Nat
      BY <3>2, <3>3, UnionBound
    <3>5. Cardinality(Known) < WantedPreKeyCount + blind * InitialCount
          /\ Cardinality(local[t].keys) <= Count(t)
      BY <2>1 DEF BoundInv, TriggerInv
    <3> QED
      BY <3>4, <3>5, BoundTypes, CountAssumption DEF ServerBounded
  <2>2. ASSUME \A t \in Triggers : pc[t] # "sent" PROVE ServerBounded
    <3>1. Known = server \ unsure
      BY <2>2, UnmarkedIs DEF Known
    <3> QED
      BY <3>1 DEF BoundInv, ServerBounded
  <2> QED
    BY <2>1, <2>2
<1> QED
  BY KeyInductive, <1>1, <1>2, <1>3, PTL DEF Spec

(***************************************************************************)
(* The LID map.                                                            *)
(***************************************************************************)

\* One step of MapNext, flattened into its actions.
MapActions ==
    \/ \E g \in Getters, user \in PNs \cup LIDs : GetLIDMapping(g, user)
    \/ \E g \in Getters, user \in PNs \cup LIDs : QueryOne(g, user)
    \/ \E g \in Getters, pns \in SUBSET PNs : GetManyLIDsForPNs(g, pns)
    \/ \E g \in Getters : QueryMany(g)
    \/ \E g \in Getters : QueryFails(g)
    \/ FillCache
    \/ \E batch \in Batches : PutManyLIDMappings(batch)
    \/ UnlockedPutLIDMapping
    \/ Commit
    \/ Rollback
    \/ ForgetCaches

\* MapNext is the disjunction of its actions.
LEMMA MapSplit == MapNext => MapActions
BY DEF MapNext, MapActions

\* A mapping has a LID and a phone number.
LEMMA MappingFields ==
    ASSUME NEW m \in Mapping
    PROVE  m.lid \in LIDs /\ m.pn \in PNs
BY DEF Mapping

\* A batch is a sequence of mappings.
LEMMA BatchIsSeq == ASSUME NEW batch \in Batches PROVE batch \in Seq(Mapping)
<1>1. PICK n \in 1..MaxBatch : batch \in [1..n -> Mapping]
  BY DEF Batches
<1> QED
  BY <1>1, UserAssumption

\* A scan keeps the types of the caches.
LEMMA ScanType ==
    ASSUME MapTypeOK, NEW maps \in SUBSET Rows, ScanManyLids(maps)
    PROVE  /\ pnToLIDCache' \in [PNs -> LIDs \cup {Empty, Absent}]
           /\ lidToPNCache' \in [LIDs -> PNs \cup {Empty, Absent}]
           /\ torn' \subseteq PNs \cup LIDs /\ moved' \subseteq PNs \cup LIDs
<1>1. ASSUME NEW pn \in PNs PROVE pnToLIDCache'[pn] \in LIDs \cup {Empty, Absent}
  <2>1. CASE \E m \in maps : m.pn = pn
    <3>1. (CHOOSE m \in maps : m.pn = pn) \in maps
      BY <2>1
    <3>2. (CHOOSE m \in maps : m.pn = pn).lid \in LIDs
      BY <3>1, MappingFields DEF Rows
    <3> QED
      BY <2>1, <3>2 DEF ScanManyLids
  <2>2. CASE ~ \E m \in maps : m.pn = pn
    BY <2>2 DEF ScanManyLids, MapTypeOK
  <2> QED
    BY <2>1, <2>2
<1>2. ASSUME NEW lid \in LIDs PROVE lidToPNCache'[lid] \in PNs \cup {Empty, Absent}
  BY DEF ScanManyLids, MapTypeOK
<1>3. /\ pnToLIDCache' = [pn \in PNs |-> pnToLIDCache'[pn]]
      /\ lidToPNCache' = [lid \in LIDs |-> lidToPNCache'[lid]]
  BY DEF ScanManyLids
<1>4. torn' \subseteq PNs \cup LIDs /\ moved' \subseteq PNs \cup LIDs
  BY DEF ScanManyLids, MapTypeOK
<1> QED
  BY <1>1, <1>2, <1>3, <1>4

\* Every step keeps the types.
LEMMA MapTypeStep == ASSUME MapTypeOK, MapActions PROVE MapTypeOK'
<1> USE DEF MapTypeOK
<1>1. ASSUME NEW g \in Getters, NEW user \in PNs \cup LIDs, GetLIDMapping(g, user)
      PROVE  MapTypeOK'
  BY <1>1 DEF GetLIDMapping, cacheVars
<1>2. ASSUME NEW g \in Getters, NEW user \in PNs \cup LIDs, QueryOne(g, user)
      PROVE  MapTypeOK'
  <2> DEFINE found == {m \in Rows : user \in {m.lid, m.pn}}
  <2>1. missed' \in [Getters -> [many : BOOLEAN, users : SUBSET (PNs \cup LIDs)]]
    BY <1>2 DEF QueryOne, NoLookup
  <2>2. /\ pnToLIDCache' \in [PNs -> LIDs \cup {Empty, Absent}]
        /\ lidToPNCache' \in [LIDs -> PNs \cup {Empty, Absent}]
        /\ torn' \subseteq PNs \cup LIDs /\ moved' \subseteq PNs \cup LIDs
    <3>1. CASE found # {}
      <4>1. ScanManyLids(found)
        BY <1>2, <3>1 DEF QueryOne
      <4> QED
        BY <4>1, ScanType
    <3>2. CASE found = {}
      BY <1>2, <3>2 DEF QueryOne
    <3> QED
      BY <3>1, <3>2
  <2> QED
    BY <1>2, <2>1, <2>2 DEF QueryOne
<1>3. ASSUME NEW g \in Getters, NEW pns \in SUBSET PNs, GetManyLIDsForPNs(g, pns)
      PROVE  MapTypeOK'
  BY <1>3 DEF GetManyLIDsForPNs, cacheVars
<1>4. ASSUME NEW g \in Getters, QueryMany(g) PROVE MapTypeOK'
  <2>1. PICK scanned \in SUBSET Rows : ScanManyLids(scanned)
    BY <1>4 DEF QueryMany
  <2>2. missed' \in [Getters -> [many : BOOLEAN, users : SUBSET (PNs \cup LIDs)]]
    BY <1>4 DEF QueryMany, NoLookup
  <2> QED
    BY <1>4, <2>1, <2>2, ScanType DEF QueryMany
<1>5. ASSUME NEW g \in Getters, QueryFails(g) PROVE MapTypeOK'
  BY <1>5 DEF QueryFails, NoLookup, cacheVars
<1>6. ASSUME FillCache PROVE MapTypeOK'
  <2>1. PICK scanned \in SUBSET Rows :
           ScanManyLids(scanned) /\ cacheFilled' \in {FALSE, scanned = Rows}
    BY <1>6 DEF FillCache
  <2>2. cacheFilled' \in BOOLEAN
    BY <2>1, Zenon
  <2> QED
    BY <1>6, <2>1, <2>2, ScanType DEF FillCache
<1>7. ASSUME NEW batch \in Batches, PutManyLIDMappings(batch) PROVE MapTypeOK'
  BY <1>7, BatchIsSeq DEF PutManyLIDMappings, cacheVars
<1>8. ASSUME UnlockedPutLIDMapping PROVE MapTypeOK'
  <2> DEFINE m == Head(txn.todo)
  <2>1. m \in Mapping /\ Tail(txn.todo) \in Seq(Mapping)
    BY <1>8 DEF UnlockedPutLIDMapping
  <2>2. m.lid \in LIDs /\ m.pn \in PNs
    BY <2>1, MappingFields
  <2>3. row' \in [LIDs -> PNs \cup {Empty}]
    BY <1>8, <2>2 DEF UnlockedPutLIDMapping, DeleteAndPut
  <2>4. /\ pnToLIDCache' \in [PNs -> LIDs \cup {Empty, Absent}]
        /\ lidToPNCache' \in [LIDs -> PNs \cup {Empty, Absent}]
    BY <1>8, <2>2 DEF UnlockedPutLIDMapping, CacheMapping
  <2>5. txn' \in [open : BOOLEAN, todo : Seq(Mapping), done : SUBSET (PNs \cup LIDs),
                  before : [LIDs -> PNs \cup {Empty}], moved : SUBSET (PNs \cup LIDs)]
    BY <1>8, <2>1, <2>2 DEF UnlockedPutLIDMapping
  <2>6. torn' \subseteq PNs \cup LIDs /\ moved' \subseteq PNs \cup LIDs
    BY <1>8 DEF UnlockedPutLIDMapping, Overtaken
  <2> QED
    BY <1>8, <2>3, <2>4, <2>5, <2>6 DEF UnlockedPutLIDMapping
<1>9. ASSUME Commit PROVE MapTypeOK'
  BY <1>9 DEF Commit, Closed, cacheVars
<1>10. ASSUME Rollback PROVE MapTypeOK'
  BY <1>10 DEF Rollback, Closed, cacheVars
<1>11. ASSUME ForgetCaches PROVE MapTypeOK'
  <2>1. row' \in [LIDs -> PNs \cup {Empty}]
    BY <1>11 DEF ForgetCaches
  <2>2. txn' \in [open : BOOLEAN, todo : Seq(Mapping), done : SUBSET (PNs \cup LIDs),
                  before : [LIDs -> PNs \cup {Empty}], moved : SUBSET (PNs \cup LIDs)]
    BY <1>11, <2>1 DEF ForgetCaches, Closed
  <2>3. missed' \in [Getters -> [many : BOOLEAN, users : SUBSET (PNs \cup LIDs)]]
    BY <1>11 DEF ForgetCaches, NoLookup
  <2> QED
    BY <1>11, <2>1, <2>2, <2>3 DEF ForgetCaches
<1> QED
  BY <1>1, <1>2, <1>3, <1>4, <1>5, <1>6, <1>7, <1>8, <1>9, <1>10, <1>11 DEF MapActions

-----------------------------------------------------------------------------
(* The caches and the table.                                               *)

\* A scan of rows makes the caches agree with the table wherever they change.
LEMMA ScanShows ==
    ASSUME MapTypeOK, OneLIDPerPN(row), RowsShown,
           NEW maps \in SUBSET Rows, ScanManyLids(maps),
           cacheFilled' => cacheFilled \/ maps = Rows,
           UNCHANGED row
    PROVE  RowsShown'
<1> SUFFICES ASSUME NEW lid \in LIDs, NEW pn \in PNs, row[lid] = pn
             PROVE  /\ pn \notin torn' => \/ pnToLIDCache'[pn] = lid
                                          \/ ~cacheFilled' /\ pnToLIDCache'[pn] = Absent
                    /\ lid \notin torn' => \/ lidToPNCache'[lid] = pn
                                           \/ ~cacheFilled' /\ lidToPNCache'[lid] = Absent
  BY DEF RowsShown, Shown
<1>a. \A m \in maps : m.lid \in LIDs /\ m.pn \in PNs /\ row[m.lid] = m.pn
  BY MappingFields DEF Rows
<1>b. [lid |-> lid, pn |-> pn] \in Rows
  BY DEF Rows, Mapping
<1>1. CASE \E m \in maps : m.pn = pn
  <2> DEFINE c == CHOOSE m \in maps : m.pn = pn
  <2>1. c \in maps /\ c.pn = pn
    BY <1>1
  <2>2. c.lid = lid
    BY <2>1, <1>a DEF OneLIDPerPN
  <2>3. pnToLIDCache'[pn] = c.lid
    BY <1>1 DEF ScanManyLids
  <2>4. lidToPNCache'[lid] = pn
    BY <2>1, <2>2 DEF ScanManyLids
  <2> QED
    BY <2>2, <2>3, <2>4
<1>2. CASE ~ \E m \in maps : m.pn = pn
  <2>1. ~ \E m \in maps : m.lid = lid
    BY <1>2, <1>a
  <2>2. pn \notin Users(maps) /\ lid \notin Users(maps)
    BY <1>2, <2>1, <1>a, UserAssumption DEF Users
  <2>3. maps # Rows
    <3>1. [lid |-> lid, pn |-> pn].pn = pn
      OBVIOUS
    <3> QED
      BY <1>2, <1>b, <3>1
  <2>4. pnToLIDCache'[pn] = pnToLIDCache[pn] /\ lidToPNCache'[lid] = lidToPNCache[lid]
    BY <1>2, <2>1 DEF ScanManyLids
  <2>5. (pn \notin torn' => pn \notin torn) /\ (lid \notin torn' => lid \notin torn)
    BY <2>2 DEF ScanManyLids
  <2>6. cacheFilled' => cacheFilled
    BY <2>3
  <2> QED
    BY <2>4, <2>5, <2>6 DEF RowsShown, Shown
<1> QED
  BY <1>1, <1>2

\* What a scan caches is in the table.
LEMMA ScanBacked ==
    ASSUME MapTypeOK, EntriesBacked, NEW maps \in SUBSET Rows, ScanManyLids(maps), row' = row
    PROVE  EntriesBacked'
<1>0. \A m \in maps : m.lid \in LIDs /\ m.pn \in PNs /\ row[m.lid] = m.pn
  BY MappingFields DEF Rows
<1>1. ASSUME NEW pn \in PNs, pn \notin torn' \cup moved', pnToLIDCache'[pn] \in LIDs
      PROVE  row'[pnToLIDCache'[pn]] = pn
  <2>1. CASE \E m \in maps : m.pn = pn
    <3> DEFINE m == CHOOSE x \in maps : x.pn = pn
    <3>1. m \in maps /\ m.pn = pn
      BY <2>1
    <3>2. pnToLIDCache'[pn] = m.lid
      BY <2>1 DEF ScanManyLids
    <3> HIDE DEF m
    <3> QED
      BY <1>0, <3>1, <3>2
  <2>2. CASE ~\E m \in maps : m.pn = pn
    <3>1. pnToLIDCache'[pn] = pnToLIDCache[pn]
      BY <2>2 DEF ScanManyLids
    <3>2. pn \notin Users(maps)
      BY <1>0, <2>2, UserAssumption DEF Users
    <3>3. pn \notin torn \cup moved
      BY <1>1, <3>2 DEF ScanManyLids
    <3> QED
      BY <1>1, <3>1, <3>3 DEF EntriesBacked, Backed
  <2> QED
    BY <2>1, <2>2
<1>2. ASSUME NEW lid \in LIDs, lid \notin torn' \cup moved', lidToPNCache'[lid] \in PNs
      PROVE  row'[lid] = lidToPNCache'[lid]
  <2>1. CASE \E m \in maps : m.lid = lid
    BY <2>1 DEF ScanManyLids
  <2>2. CASE ~\E m \in maps : m.lid = lid
    <3>1. lidToPNCache'[lid] = lidToPNCache[lid]
      BY <2>2 DEF ScanManyLids
    <3>2. lid \notin Users(maps)
      BY <1>0, <2>2, UserAssumption DEF Users
    <3>3. lid \notin torn \cup moved
      BY <1>2, <3>2 DEF ScanManyLids
    <3> QED
      BY <1>2, <3>1, <3>3 DEF EntriesBacked, Backed
  <2> QED
    BY <2>1, <2>2
<1> QED
  BY <1>1, <1>2 DEF EntriesBacked, Backed

\* A step that leaves the table, the caches and the transaction alone.
LEMMA LIDFrame ==
    ASSUME LIDInv, UNCHANGED <<row, pnToLIDCache, lidToPNCache, cacheFilled, txn, torn, moved>>
    PROVE  LIDInv'
BY DEF LIDInv, OneLIDPerPN, RowsShown, Shown, EntriesBacked, Backed, TxnInv

\* A step under the write lock outside a transaction, which keeps the table.
LEMMA LookupFrame ==
    ASSUME LIDInv, ~txn.open, UNCHANGED <<row, txn>>, RowsShown', EntriesBacked'
    PROVE  LIDInv'
BY DEF LIDInv, OneLIDPerPN, TxnInv

\* A user without a row is cached as such.
LEMMA QueryOneKeeps ==
    ASSUME MapTypeOK, LIDInv,
           NEW g \in Getters, NEW user \in PNs \cup LIDs, QueryOne(g, user)
    PROVE  LIDInv'
<1> DEFINE found == {m \in Rows : user \in {m.lid, m.pn}}
<1>0. ~txn.open /\ UNCHANGED <<row, txn, cacheFilled>>
  BY DEF QueryOne, MapLockFree
<1>1. CASE found # {}
  <2>1. ScanManyLids(found)
    BY <1>1 DEF QueryOne
  <2>2. RowsShown' /\ EntriesBacked'
    BY <2>1, <1>0, ScanShows, ScanBacked DEF LIDInv
  <2> QED
    BY <2>2, <1>0, LookupFrame
<1>2. CASE found = {}
  <2>1. /\ pnToLIDCache' = [pn \in PNs |-> IF pn = user THEN Empty ELSE pnToLIDCache[pn]]
        /\ lidToPNCache' = [lid \in LIDs |-> IF lid = user THEN Empty ELSE lidToPNCache[lid]]
        /\ torn' = torn \ {user} /\ moved' = moved \ {user}
    BY <1>2 DEF QueryOne
  <2>2. ASSUME NEW lid \in LIDs, NEW pn \in PNs, row[lid] = pn
        PROVE  user # lid /\ user # pn
    <3> DEFINE m == [lid |-> lid, pn |-> pn]
    <3>1. m \in Rows
      BY <2>2 DEF Rows, Mapping
    <3>2. m \notin found
      BY <1>2
    <3>3. m.lid = lid /\ m.pn = pn
      OBVIOUS
    <3> QED
      BY <3>1, <3>2, <3>3
  <2>3. RowsShown'
    BY <2>1, <2>2, <1>0 DEF LIDInv, RowsShown, Shown
  <2>4. EntriesBacked'
    BY <2>1, <1>0, UserAssumption DEF LIDInv, EntriesBacked, Backed
  <2> QED
    BY <2>3, <2>4, <1>0, LookupFrame
<1> QED
  BY <1>1, <1>2

\* One mapping of a put: the table and the caches change together, and what a
\* rollback would bring back is exempt from now on.
LEMMA PutKeeps ==
    ASSUME MapTypeOK, LIDInv, UnlockedPutLIDMapping
    PROVE  LIDInv'
<1> DEFINE m == Head(txn.todo)
<1>1. m \in Mapping
  BY DEF UnlockedPutLIDMapping, MapTypeOK
<1>2. m.lid \in LIDs /\ m.pn \in PNs
  BY <1>1, MappingFields
<1>3. \A lid \in LIDs : row'[lid] = IF lid = m.lid THEN m.pn
                                    ELSE IF row[lid] = m.pn THEN Empty ELSE row[lid]
  BY DEF UnlockedPutLIDMapping, DeleteAndPut
<1>4. /\ \A pn \in PNs : pnToLIDCache'[pn] = IF pn = m.pn THEN m.lid ELSE pnToLIDCache[pn]
      /\ \A lid \in LIDs : lidToPNCache'[lid] = IF lid = m.lid THEN m.pn ELSE lidToPNCache[lid]
  BY <1>2 DEF UnlockedPutLIDMapping, CacheMapping, MapTypeOK
<1>5. /\ UNCHANGED cacheFilled /\ torn' = torn \ {m.lid, m.pn}
      /\ moved' = (moved \cup Overtaken(m)) \ {m.lid, m.pn}
  BY DEF UnlockedPutLIDMapping
<1>6. /\ txn.open /\ txn'.open /\ txn'.before = txn.before /\ txn'.moved = txn.moved
      /\ txn'.done = txn.done \cup {m.lid, m.pn}
  BY DEF UnlockedPutLIDMapping, MapTypeOK
<1> HIDE DEF m
<1>7. OneLIDPerPN(row)'
  BY <1>2, <1>3, UserAssumption DEF LIDInv, OneLIDPerPN
<1>8. RowsShown'
  <2> SUFFICES ASSUME NEW lid \in LIDs, NEW pn \in PNs, row'[lid] = pn
               PROVE  /\ pn \notin torn' => \/ pnToLIDCache'[pn] = lid
                                            \/ ~cacheFilled /\ pnToLIDCache'[pn] = Absent
                      /\ lid \notin torn' => \/ lidToPNCache'[lid] = pn
                                             \/ ~cacheFilled /\ lidToPNCache'[lid] = Absent
    BY <1>5 DEF RowsShown, Shown
  <2>1. CASE lid = m.lid
    BY <2>1, <1>2, <1>3, <1>4
  <2>2. CASE lid # m.lid
    <3>1. row[lid] = pn /\ pn # m.pn
      BY <2>2, <1>2, <1>3, UserAssumption
    <3> QED
      BY <2>2, <3>1, <1>2, <1>4, <1>5, UserAssumption DEF LIDInv, RowsShown, Shown
  <2> QED
    BY <2>1, <2>2
<1>9. EntriesBacked'
  <2>1. ASSUME NEW pn \in PNs, pn \notin torn' \cup moved', pnToLIDCache'[pn] \in LIDs
        PROVE  row'[pnToLIDCache'[pn]] = pn
    <3>1. CASE pn = m.pn
      BY <3>1, <1>2, <1>3, <1>4
    <3>2. CASE pn # m.pn
      <4>1. /\ pn \notin torn \cup moved /\ row[m.lid] # pn
            /\ pnToLIDCache'[pn] = pnToLIDCache[pn]
        BY <2>1, <3>2, <1>2, <1>4, <1>5, UserAssumption DEF Overtaken
      <4>2. row[pnToLIDCache[pn]] = pn
        BY <2>1, <4>1 DEF LIDInv, EntriesBacked, Backed
      <4> QED
        BY <2>1, <3>2, <4>1, <4>2, <1>3
    <3> QED
      BY <3>1, <3>2
  <2>2. ASSUME NEW lid \in LIDs, lid \notin torn' \cup moved', lidToPNCache'[lid] \in PNs
        PROVE  row'[lid] = lidToPNCache'[lid]
    <3>1. CASE lid = m.lid
      BY <3>1, <1>2, <1>3, <1>4
    <3>2. CASE lid # m.lid
      <4>1. /\ lid \notin torn \cup moved /\ row[lid] # m.pn
            /\ lidToPNCache'[lid] = lidToPNCache[lid]
        BY <2>2, <3>2, <1>2, <1>4, <1>5, UserAssumption DEF Overtaken
      <4>2. row[lid] = lidToPNCache[lid]
        BY <2>2, <4>1 DEF LIDInv, EntriesBacked, Backed
      <4> QED
        BY <3>2, <4>1, <4>2, <1>3
    <3> QED
      BY <3>1, <3>2
  <2> QED
    BY <2>1, <2>2 DEF EntriesBacked, Backed
<1>10. TxnInv'
  <2>1. /\ OneLIDPerPN(txn.before) /\ Shown(txn.before, torn \cup txn.done)
        /\ Backed(txn.before, torn \cup txn.done \cup txn.moved)
    BY <1>6 DEF LIDInv, TxnInv
  <2>2. OneLIDPerPN(txn'.before)
    BY <2>1, <1>6
  <2>3. Shown(txn.before, torn \cup txn.done)'
    BY <2>1, <1>4, <1>5, <1>6 DEF Shown
  <2>4. Backed(txn.before, torn \cup txn.done \cup txn.moved)'
    BY <2>1, <1>4, <1>5, <1>6 DEF Backed
  <2> QED
    BY <2>2, <2>3, <2>4 DEF TxnInv, OneLIDPerPN
<1> QED
  BY <1>7, <1>8, <1>9, <1>10 DEF LIDInv

\* A rollback brings the table back and exempts what the put had cached.
LEMMA RollbackKeeps == ASSUME MapTypeOK, LIDInv, Rollback PROVE LIDInv'
<1>1. /\ OneLIDPerPN(txn.before) /\ Shown(txn.before, torn \cup txn.done)
      /\ Backed(txn.before, torn \cup txn.done \cup txn.moved)
  BY DEF Rollback, LIDInv, TxnInv
<1>2. /\ row' = txn.before /\ torn' = torn \cup txn.done /\ moved' = txn.moved /\ ~txn'.open
      /\ UNCHANGED cacheVars
  BY DEF Rollback, Closed
<1>3. RowsShown'
  BY <1>1, <1>2 DEF RowsShown, Shown, cacheVars
<1>4. EntriesBacked'
  BY <1>1, <1>2 DEF EntriesBacked, Backed, cacheVars
<1>5. OneLIDPerPN(row)'
  BY <1>1, <1>2 DEF OneLIDPerPN
<1> QED
  BY <1>2, <1>3, <1>4, <1>5 DEF LIDInv, TxnInv

\* After a restart nothing is cached, and the table is one that was committed.
LEMMA ForgetKeeps == ASSUME MapTypeOK, LIDInv, ForgetCaches PROVE LIDInv'
<1>1. OneLIDPerPN(row)'
  BY DEF LIDInv, TxnInv, OneLIDPerPN, ForgetCaches
<1>2. ~txn'.open
  BY DEF ForgetCaches, Closed
<1>3. RowsShown'
  BY DEF ForgetCaches, RowsShown, Shown
<1>4. EntriesBacked'
  BY UserAssumption DEF ForgetCaches, EntriesBacked, Backed
<1> QED
  BY <1>1, <1>2, <1>3, <1>4 DEF LIDInv, TxnInv

\* Every step keeps LIDInv.
LEMMA LIDStep == ASSUME MapTypeOK, LIDInv, MapActions PROVE LIDInv'
<1>1. ASSUME NEW g \in Getters, NEW user \in PNs \cup LIDs, GetLIDMapping(g, user)
      PROVE  LIDInv'
  BY <1>1, LIDFrame DEF GetLIDMapping, cacheVars
<1>2. ASSUME NEW g \in Getters, NEW user \in PNs \cup LIDs, QueryOne(g, user)
      PROVE  LIDInv'
  BY <1>2, QueryOneKeeps
<1>3. ASSUME NEW g \in Getters, NEW pns \in SUBSET PNs, GetManyLIDsForPNs(g, pns)
      PROVE  LIDInv'
  BY <1>3, LIDFrame DEF GetManyLIDsForPNs, cacheVars
<1>4. ASSUME NEW g \in Getters, QueryMany(g) PROVE LIDInv'
  <2>1. PICK scanned \in SUBSET Rows : ScanManyLids(scanned)
    BY <1>4 DEF QueryMany
  <2>2. ~txn.open /\ UNCHANGED <<row, txn, cacheFilled>>
    BY <1>4 DEF QueryMany, MapLockFree
  <2>3. RowsShown' /\ EntriesBacked'
    BY <2>1, <2>2, ScanShows, ScanBacked DEF LIDInv
  <2> QED
    BY <2>2, <2>3, LookupFrame
<1>5. ASSUME NEW g \in Getters, QueryFails(g) PROVE LIDInv'
  BY <1>5, LIDFrame DEF QueryFails, cacheVars
<1>6. ASSUME FillCache PROVE LIDInv'
  <2>1. PICK scanned \in SUBSET Rows :
           ScanManyLids(scanned) /\ cacheFilled' \in {FALSE, scanned = Rows}
    BY <1>6 DEF FillCache
  <2>2. ~txn.open /\ UNCHANGED <<row, txn>>
    BY <1>6 DEF FillCache, MapLockFree
  <2>3. cacheFilled' => scanned = Rows
    BY <2>1, Zenon
  <2>4. RowsShown' /\ EntriesBacked'
    BY <2>1, <2>2, <2>3, ScanShows, ScanBacked DEF LIDInv
  <2> QED
    BY <2>2, <2>4, LookupFrame
<1>7. ASSUME NEW batch \in Batches, PutManyLIDMappings(batch) PROVE LIDInv'
  BY <1>7 DEF PutManyLIDMappings, cacheVars, LIDInv, OneLIDPerPN, RowsShown,
              Shown, EntriesBacked, Backed, TxnInv
<1>8. ASSUME UnlockedPutLIDMapping PROVE LIDInv'
  BY <1>8, PutKeeps
<1>9. ASSUME Commit PROVE LIDInv'
  BY <1>9 DEF Commit, Closed, cacheVars, LIDInv, OneLIDPerPN, RowsShown, Shown,
              EntriesBacked, Backed, TxnInv
<1>10. ASSUME Rollback PROVE LIDInv'
  BY <1>10, RollbackKeeps
<1>11. ASSUME ForgetCaches PROVE LIDInv'
  BY <1>11, ForgetKeeps
<1> QED
  BY <1>1, <1>2, <1>3, <1>4, <1>5, <1>6, <1>7, <1>8, <1>9, <1>10, <1>11 DEF MapActions

\* The initial table is empty and nothing is cached.
LEMMA MapInitHolds == MapInit => MapTypeOK /\ LIDInv
<1> SUFFICES ASSUME MapInit PROVE MapTypeOK /\ LIDInv
  OBVIOUS
<1>1. MapTypeOK
  <2>1. row \in [LIDs -> PNs \cup {Empty}]
    BY DEF MapInit
  <2>2. txn \in [open : BOOLEAN, todo : Seq(Mapping), done : SUBSET (PNs \cup LIDs),
                 before : [LIDs -> PNs \cup {Empty}], moved : SUBSET (PNs \cup LIDs)]
    BY <2>1 DEF MapInit, Closed
  <2>3. missed \in [Getters -> [many : BOOLEAN, users : SUBSET (PNs \cup LIDs)]]
    BY DEF MapInit, NoLookup
  <2> QED
    BY <2>1, <2>2, <2>3 DEF MapInit, MapTypeOK
<1>2. LIDInv
  BY UserAssumption DEF MapInit, LIDInv, OneLIDPerPN, RowsShown, Shown,
     EntriesBacked, Backed, TxnInv, Closed
<1> QED
  BY <1>1, <1>2

\* MapTypeOK and LIDInv are inductive together.
LEMMA LIDInductive == MapSpec => [](MapTypeOK /\ LIDInv)
<1>1. MapTypeOK /\ LIDInv /\ [MapNext]_mapVars => (MapTypeOK /\ LIDInv)'
  <2> SUFFICES ASSUME MapTypeOK, LIDInv, [MapNext]_mapVars PROVE MapTypeOK' /\ LIDInv'
    OBVIOUS
  <2>1. CASE MapNext
    BY <2>1, MapSplit, MapTypeStep, LIDStep
  <2>2. CASE UNCHANGED mapVars
    <3>1. LIDInv'
      BY <2>2, LIDFrame DEF mapVars
    <3>2. MapTypeOK'
      BY <2>2 DEF mapVars, MapTypeOK
    <3> QED
      BY <3>1, <3>2
  <2> QED
    BY <2>1, <2>2
<1> QED
  BY MapInitHolds, <1>1, PTL DEF MapSpec

\* The table, the caches, the lookups and the transaction keep their types.
THEOREM MapTypeCorrect == MapSpec => []MapTypeOK
BY LIDInductive, PTL

\* Whatever lookups, puts, fills, rollbacks and restarts interleave, the caches of
\* lidmap.go show every mapping of the table, and what they hold is in the table, but for
\* the entries of rolled back puts and of users whose mapping a put has replaced.
THEOREM CachesAgree == MapSpec => []CachesShowRows
<1>1. LIDInv => CachesShowRows
  BY DEF LIDInv, CachesShowRows
<1> QED
  BY LIDInductive, <1>1, PTL

\* The table never has two LIDs for one phone number, although the database only
\* enforces that a LID has one phone number (lidmap.go:48-53).
THEOREM OneLID == MapSpec => []OneLIDPerPN(row)
<1>1. LIDInv => OneLIDPerPN(row)
  BY DEF LIDInv
<1> QED
  BY LIDInductive, <1>1, PTL
=============================================================================
