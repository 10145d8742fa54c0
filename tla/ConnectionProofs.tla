--------------------------- MODULE ConnectionProofs ---------------------------
(***************************************************************************)
(* Proofs about Connection, for any number of sockets, nodes and user      *)
(* calls.  TypeOK, NoOrphanSocket and NeverAbandoned are inductive         *)
(* together with LockWellFormed and DyingIsClosed.                         *)
(***************************************************************************)
EXTENDS Connection, TLAPS

USE DEF flagVars, ExpectDisconnect, ResetExpectedDisconnect

\* One step of Next, flattened into its actions.
NextActions ==
    \/ \E s \in Sockets : ReadPumpEnds(s)
    \/ \E s \in Sockets : OnDisconnect(s)
    \/ \E s \in Sockets : KeepAliveGivesUp(s)
    \/ \E s \in Sockets : KeepAliveDisconnects(s)
    \/ \E s \in Sockets : KeepAliveReconnects(s)
    \/ \E s \in Sockets : KeepAliveEnds(s)
    \/ \E s \in Sockets : HandlerQueueLoopEnds(s)
    \/ \E s \in Sockets, kind \in NodeKinds : ServerSends(s, kind)
    \/ DialFails
    \/ \E s \in Sockets : Dial(s)
    \/ HandshakeFails
    \/ SendClientFinish
    \/ FinishHandshake
    \/ AutoReconnectCancelled
    \/ AutoReconnectWakes
    \/ AutoReconnectConnects
    \/ AutoReconnectNotNeeded
    \/ HandleNode
    \/ RestartDisconnects
    \/ RestartConnects
    \/ PairVerifies
    \/ PairSaves
    \/ PairConfirms
    \/ PairDisconnects
    \/ UserConnect
    \/ UserDisconnect
    \/ Logout
    \/ LogoutDeletes

\* Next is the disjunction of its actions.
LEMMA NextSplit == Next => NextActions
BY DEF Next, NextActions, KeepAliveLoop, Attempt, AutoReconnect, Pair

\* NoSocket is not a socket.
LEMMA NoSocketIsNone == NoSocket \notin Sockets
BY BoundAssumption DEF NoSocket, Sockets

\* The critical sections keep the types of what they write.
LEMMA DisconnectType ==
    ASSUME TypeOK, UnlockedDisconnect
    PROVE  /\ sock' \in Sockets \cup {NoSocket}
           /\ callback' \subseteq Sockets
           /\ fs' \in [Sockets -> {"none", "open", "closed"}]
BY DEF TypeOK, UnlockedDisconnect

\* Likewise for the beginning of an attempt.
LEMMA BeginConnectType ==
    ASSUME TypeOK, NEW by \in {"user", "auto", "restart"}, BeginConnect(by)
    PROVE  /\ sock' \in Sockets \cup {NoSocket}
           /\ callback' \subseteq Sockets
           /\ fs' \in [Sockets -> {"none", "open", "closed"}]
           /\ lock' \in [by : {"none", "user", "auto", "restart"},
                         phase : {"none", "dial", "handshake", "finish"},
                         s : Sockets \cup {NoSocket}]
           /\ expected' \in BOOLEAN
           /\ cause' \in {"none", "call", "node", "pair"}
<1>1. UnlockedDisconnect
  BY DEF BeginConnect
<1>2. lock' = [by |-> by, phase |-> "dial", s |-> NoSocket]
         /\ expected' = FALSE /\ cause' = "none"
  BY DEF BeginConnect
<1> QED
  BY <1>1, <1>2, DisconnectType

\* The free lock is a lock.
LEMMA FreeType ==
    Free \in [by : {"none", "user", "auto", "restart"},
              phase : {"none", "dial", "handshake", "finish"},
              s : Sockets \cup {NoSocket}]
BY DEF Free

\* Likewise for the end of a failed attempt.
LEMMA AttemptFailedType ==
    ASSUME TypeOK, AttemptFailed
    PROVE  /\ lock' \in [by : {"none", "user", "auto", "restart"},
                         phase : {"none", "dial", "handshake", "finish"},
                         s : Sockets \cup {NoSocket}]
           /\ waiting' \in Nat
           /\ user' \in {"up", "down", "failed"}
<1>1. lock' = Free
  BY DEF AttemptFailed
<1>2. waiting' = waiting \/ waiting' = waiting + 1
  BY DEF AttemptFailed
<1>3. user' = user \/ user' = "failed"
  BY DEF AttemptFailed
<1> QED
  BY <1>1, <1>2, <1>3, FreeType DEF TypeOK

\* Every action keeps the types.
LEMMA TypeStep == ASSUME TypeOK, LockWellFormed, NextActions PROVE TypeOK'
<1> USE DEF goroutineVars, worldVars
<1>1. ASSUME NEW s \in Sockets, ReadPumpEnds(s) PROVE TypeOK'
  BY <1>1 DEF TypeOK, ReadPumpEnds
<1>2. ASSUME NEW s \in Sockets, OnDisconnect(s) PROVE TypeOK'
  <2>1. waiting' = waiting \/ waiting' = waiting + 1
    BY <1>2 DEF OnDisconnect, SpawnAutoReconnect
  <2>2. sock' = sock \/ sock' = NoSocket
    BY <1>2 DEF OnDisconnect
  <2> QED
    BY <1>2, <2>1, <2>2 DEF TypeOK, OnDisconnect
<1>3. ASSUME NEW s \in Sockets, KeepAliveGivesUp(s) PROVE TypeOK'
  BY <1>3 DEF TypeOK, KeepAliveGivesUp
<1>4. ASSUME NEW s \in Sockets, KeepAliveDisconnects(s) PROVE TypeOK'
  <2>1. UnlockedDisconnect /\ expected' = TRUE /\ cause' = "call"
    BY <1>4 DEF KeepAliveDisconnects, Disconnect
  <2> QED
    BY <1>4, <2>1, DisconnectType DEF TypeOK, KeepAliveDisconnects
<1>5. ASSUME NEW s \in Sockets, KeepAliveReconnects(s) PROVE TypeOK'
  <2>1. waiting' = waiting \/ waiting' = waiting + 1
    BY <1>5 DEF KeepAliveReconnects, SpawnAutoReconnect
  <2>2. waiting' \in Nat
    BY <2>1 DEF TypeOK
  <2>3. keepAlive' \in [Sockets -> {"off", "on", "disconnect", "reset"}]
    BY <1>5 DEF TypeOK, KeepAliveReconnects
  <2>4. expected' = FALSE /\ cause' = "none"
    BY <1>5 DEF KeepAliveReconnects
  <2> QED
    BY <1>5, <2>2, <2>3, <2>4 DEF TypeOK, KeepAliveReconnects
<1>6. ASSUME NEW s \in Sockets, KeepAliveEnds(s) PROVE TypeOK'
  BY <1>6 DEF TypeOK, KeepAliveEnds
<1>7. ASSUME NEW s \in Sockets, HandlerQueueLoopEnds(s) PROVE TypeOK'
  BY <1>7 DEF TypeOK, HandlerQueueLoopEnds
<1>8. ASSUME NEW s \in Sockets, NEW kind \in NodeKinds, ServerSends(s, kind)
      PROVE  TypeOK'
  <2>1. queue' \in Seq(NodeKinds)
    BY <1>8 DEF TypeOK, ServerSends
  <2>2. bound' \in [nodes : Nat, calls : Nat]
    <3>1. PICK n \in Nat, c \in Nat : bound = [nodes |-> n, calls |-> c]
      BY DEF TypeOK
    <3>2. bound' = [nodes |-> n + 1, calls |-> c]
      BY <1>8, <3>1 DEF ServerSends
    <3> QED
      BY <3>2
  <2>3. authed' \subseteq Sockets /\ final' \subseteq Sockets
    BY <1>8 DEF TypeOK, ServerSends
  <2> QED
    BY <1>8, <2>1, <2>2, <2>3 DEF TypeOK, ServerSends
<1>9. ASSUME DialFails PROVE TypeOK'
  <2>1. AttemptFailed
    BY <1>9 DEF DialFails
  <2> QED
    BY <1>9, <2>1, AttemptFailedType DEF TypeOK, DialFails
<1>10. ASSUME NEW s \in Sockets, Dial(s) PROVE TypeOK'
  BY <1>10 DEF TypeOK, Dial
<1>11. ASSUME HandshakeFails PROVE TypeOK'
  <2>1. AttemptFailed
    BY <1>11 DEF HandshakeFails
  <2> QED
    BY <1>11, <2>1, AttemptFailedType DEF TypeOK, HandshakeFails
<1>12. ASSUME SendClientFinish PROVE TypeOK'
  BY <1>12 DEF TypeOK, SendClientFinish
<1>13. ASSUME FinishHandshake PROVE TypeOK'
  <2>1. lock.s \in Sockets
    BY <1>13 DEF FinishHandshake, LockWellFormed
  <2> QED
    BY <1>13, <2>1, FreeType DEF TypeOK, FinishHandshake
<1>14. ASSUME AutoReconnectCancelled PROVE TypeOK'
  BY <1>14 DEF TypeOK, AutoReconnectCancelled
<1>15. ASSUME AutoReconnectWakes PROVE TypeOK'
  BY <1>15 DEF TypeOK, AutoReconnectWakes
<1>16. ASSUME AutoReconnectConnects PROVE TypeOK'
  <2>1. BeginConnect("auto") /\ ready' \in Nat
    BY <1>16 DEF TypeOK, AutoReconnectConnects
  <2> QED
    BY <1>16, <2>1, BeginConnectType DEF TypeOK, AutoReconnectConnects
<1>17. ASSUME AutoReconnectNotNeeded PROVE TypeOK'
  BY <1>17 DEF TypeOK, AutoReconnectNotNeeded
<1>18. ASSUME HandleNode PROVE TypeOK'
  <2>1. queue' \in Seq(NodeKinds)
    BY <1>18 DEF TypeOK, HandleNode
  <2>2. loggedIn' \in BOOLEAN /\ expected' \in BOOLEAN /\ paired' \in BOOLEAN
    BY <1>18 DEF TypeOK, HandleNode, StoreDelete
  <2>3. restart' = restart \/ restart' = "disconnect"
    BY <1>18 DEF HandleNode
  <2>4. cause' = cause \/ cause' = "node"
    BY <1>18 DEF HandleNode
  <2>5. pairing' = pairing \/ pairing' = "verify"
    BY <1>18 DEF HandleNode
  <2> QED
    <3>1. UNCHANGED <<sock, fs, callback, dying, lock, waiting, ready, keepAlive, loops,
                      deleting, user, authed, final, bound>>
      BY <1>18 DEF HandleNode
    <3> QED
      BY <2>1, <2>2, <2>3, <2>4, <2>5, <3>1 DEF TypeOK
<1>19. ASSUME RestartDisconnects PROVE TypeOK'
  <2>1. UnlockedDisconnect /\ expected' = TRUE /\ cause' = "call"
    BY <1>19 DEF RestartDisconnects, Disconnect
  <2> QED
    BY <1>19, <2>1, DisconnectType DEF TypeOK, RestartDisconnects
<1>20. ASSUME RestartConnects PROVE TypeOK'
  <2>1. CASE BeginConnect("restart")
    BY <1>20, <2>1, BeginConnectType DEF TypeOK, RestartConnects
  <2>2. CASE UNCHANGED <<sock, fs, callback, lock, flagVars>>
    BY <1>20, <2>2 DEF TypeOK, RestartConnects
  <2> QED
    BY <1>20, <2>1, <2>2 DEF RestartConnects
<1>21. ASSUME UserCalls PROVE bound' \in [nodes : Nat, calls : Nat]
  <2>1. PICK n \in Nat, c \in Nat : bound = [nodes |-> n, calls |-> c]
    BY DEF TypeOK
  <2>2. bound' = [nodes |-> n, calls |-> c + 1]
    BY <1>21, <2>1 DEF UserCalls
  <2> QED
    BY <2>2
<1>22. ASSUME UserConnect PROVE TypeOK'
  <2>1. BeginConnect("user") /\ UserCalls
    BY <1>22 DEF UserConnect
  <2> QED
    BY <1>22, <2>1, <1>21, BeginConnectType DEF TypeOK, UserConnect
<1>23. ASSUME UserDisconnect PROVE TypeOK'
  <2>1. UserCalls /\ UnlockedDisconnect /\ expected' = TRUE /\ cause' = "call"
    BY <1>23 DEF UserDisconnect, Disconnect
  <2> QED
    BY <1>23, <2>1, <1>21, DisconnectType DEF TypeOK, UserDisconnect
<1>24. ASSUME Logout PROVE TypeOK'
  <2>1. UserCalls /\ UnlockedDisconnect /\ expected' = TRUE /\ cause' = "call"
    BY <1>24 DEF Logout, Disconnect
  <2> QED
    BY <1>24, <2>1, <1>21, DisconnectType DEF TypeOK, Logout
<1>25. ASSUME LogoutDeletes PROVE TypeOK'
  <2>1. paired' \in BOOLEAN
    BY <1>25 DEF TypeOK, LogoutDeletes, StoreDelete
  <2> QED
    <3>1. UNCHANGED <<sock, fs, callback, dying, lock, expected, cause, loggedIn, waiting,
                      ready, keepAlive, loops, restart, pairing, queue, user, authed, final,
                      bound>> /\ deleting' = FALSE
      BY <1>25 DEF LogoutDeletes
    <3>2. {expected, loggedIn, paired, deleting}' \subseteq BOOLEAN
      BY <2>1, <3>1 DEF TypeOK
    <3> HIDE <2>1
    <3> QED
      BY <3>1, <3>2 DEF TypeOK
<1>26. ASSUME PairVerifies PROVE TypeOK'
  <2>1. paired' \in BOOLEAN /\ pairing' \in {"save", "disconnect"}
    BY <1>26 DEF TypeOK, PairVerifies
  <2> QED
    BY <1>26, <2>1 DEF TypeOK, PairVerifies
<1>27. ASSUME PairSaves PROVE TypeOK'
  <2>1. pairing' \in {"confirm", "disconnect"} /\ paired' \in BOOLEAN
    BY <1>27 DEF TypeOK, PairSaves, StoreDelete
  <2>2. expected' \in BOOLEAN /\ cause' \in {"none", "call", "node", "pair"}
    BY <1>27 DEF TypeOK, PairSaves
  <2> QED
    BY <1>27, <2>1, <2>2 DEF TypeOK, PairSaves
<1>28. ASSUME PairConfirms PROVE TypeOK'
  <2>1. pairing' \in {"none", "disconnect"} /\ paired' \in BOOLEAN
    BY <1>28 DEF TypeOK, PairConfirms, StoreDelete
  <2> QED
    BY <1>28, <2>1 DEF TypeOK, PairConfirms
<1>29. ASSUME PairDisconnects PROVE TypeOK'
  <2>1. UnlockedDisconnect /\ expected' = TRUE /\ cause' = "call"
    BY <1>29 DEF PairDisconnects, Disconnect
  <2> QED
    BY <1>29, <2>1, DisconnectType DEF TypeOK, PairDisconnects
<1> QED
  BY <1>1, <1>2, <1>3, <1>4, <1>5, <1>6, <1>7, <1>8, <1>9, <1>10, <1>11, <1>12,
     <1>13, <1>14, <1>15, <1>16, <1>17, <1>18, <1>19, <1>20, <1>22, <1>23, <1>24,
     <1>25, <1>26, <1>27, <1>28, <1>29 DEF NextActions

-----------------------------------------------------------------------------
(* NoOrphanSocket, LockWellFormed and DyingIsClosed: sockets.              *)

SocketInv == NoOrphanSocket /\ LockWellFormed /\ DyingIsClosed

\* Under the free lock no attempt has a socket.
LEMMA FreeLock == ASSUME LockFree PROVE lock.s = NoSocket
BY DEF LockFree, Free

\* A disconnect closes the only socket that can be open.
LEMMA DisconnectSockets ==
    ASSUME TypeOK, SocketInv, LockFree, UnlockedDisconnect, dying' = dying
    PROVE  /\ \A s \in Sockets : fs'[s] # "open"
           /\ \A s \in dying' : fs'[s] = "closed"
<1>1. \A s \in Sockets : fs[s] = "open" => s = sock
  BY FreeLock, NoSocketIsNone DEF SocketInv, NoOrphanSocket
<1>2. CASE sock = NoSocket
  <2>1. fs' = fs
    BY <1>2 DEF UnlockedDisconnect
  <2> QED
    BY <1>1, <1>2, <2>1, NoSocketIsNone DEF SocketInv, DyingIsClosed
<1>3. CASE sock # NoSocket
  <2>1. fs' = [fs EXCEPT ![sock] = "closed"]
    BY <1>3 DEF UnlockedDisconnect
  <2> QED
    BY <1>1, <2>1 DEF TypeOK, SocketInv, DyingIsClosed
<1> QED
  BY <1>2, <1>3

\* Client.Disconnect keeps the socket invariant.
LEMMA DisconnectStep ==
    ASSUME TypeOK, SocketInv, Disconnect, lock' = lock, dying' = dying
    PROVE  SocketInv'
<1>1. LockFree /\ UnlockedDisconnect /\ sock' = NoSocket
  BY DEF Disconnect, UnlockedDisconnect
<1>2. (\A s \in Sockets : fs'[s] # "open") /\ (\A s \in dying' : fs'[s] = "closed")
  BY <1>1, DisconnectSockets
<1> QED
  BY <1>1, <1>2 DEF SocketInv, NoOrphanSocket, LockWellFormed, DyingIsClosed

\* So does the beginning of a connection attempt.
LEMMA BeginConnectStep ==
    ASSUME TypeOK, SocketInv, NEW by \in {"user", "auto", "restart"}, BeginConnect(by),
           dying' = dying
    PROVE  SocketInv'
<1>1. LockFree /\ UnlockedDisconnect /\ sock' = NoSocket
  BY DEF BeginConnect, UnlockedDisconnect
<1>2. (\A s \in Sockets : fs'[s] # "open") /\ (\A s \in dying' : fs'[s] = "closed")
  BY <1>1, DisconnectSockets
<1>3. lock' = [by |-> by, phase |-> "dial", s |-> NoSocket]
  BY DEF BeginConnect
<1>4. NoOrphanSocket'
  BY <1>1, <1>2 DEF NoOrphanSocket
<1>5. LockWellFormed'
  BY <1>3 DEF LockWellFormed
<1>6. DyingIsClosed'
  BY <1>2 DEF DyingIsClosed
<1> QED
  BY <1>4, <1>5, <1>6 DEF SocketInv

\* A step that opens no socket and leaves the rest alone keeps it too.
LEMMA SocketFrame ==
    ASSUME SocketInv, UNCHANGED <<sock, fs, lock, dying>>
    PROVE  SocketInv'
BY DEF SocketInv, NoOrphanSocket, LockWellFormed, DyingIsClosed

\* Every action keeps the socket invariant.
LEMMA SocketStep == ASSUME TypeOK, SocketInv, NextActions PROVE SocketInv'
<1> USE DEF goroutineVars, worldVars
<1>1. ASSUME NEW s \in Sockets, ReadPumpEnds(s) PROVE SocketInv'
  <2>1. fs' = [fs EXCEPT ![s] = "closed"] /\ sock' = sock /\ lock' = lock
    BY <1>1 DEF ReadPumpEnds
  <2>2. dying' \subseteq dying \cup {s}
    BY <1>1 DEF ReadPumpEnds
  <2>3. NoOrphanSocket' /\ LockWellFormed'
    BY <2>1 DEF TypeOK, SocketInv, NoOrphanSocket, LockWellFormed
  <2>4. DyingIsClosed'
    BY <2>1, <2>2 DEF TypeOK, SocketInv, DyingIsClosed
  <2> QED
    BY <2>3, <2>4 DEF SocketInv
<1>2. ASSUME NEW s \in Sockets, OnDisconnect(s) PROVE SocketInv'
  <2>1. fs' = fs /\ lock' = lock /\ dying' = dying \ {s}
    BY <1>2 DEF OnDisconnect
  <2>2. (sock = s /\ sock' = NoSocket) \/ sock' = sock
    BY <1>2 DEF OnDisconnect
  <2>3. fs[s] = "closed"
    BY <1>2 DEF OnDisconnect, SocketInv, DyingIsClosed
  <2>4. NoOrphanSocket'
    BY <2>1, <2>2, <2>3 DEF SocketInv, NoOrphanSocket
  <2> QED
    BY <2>1, <2>4 DEF SocketInv, LockWellFormed, DyingIsClosed
<1>3. ASSUME NEW s \in Sockets, KeepAliveDisconnects(s) PROVE SocketInv'
  BY <1>3, DisconnectStep DEF KeepAliveDisconnects
<1>4. ASSUME NEW s \in Sockets, Dial(s) PROVE SocketInv'
  <2>1. fs' = [fs EXCEPT ![s] = "open"] /\ sock' = sock /\ dying' = dying
    BY <1>4 DEF Dial
  <2>2. lock' = [lock EXCEPT !.phase = "handshake", !.s = s]
    BY <1>4 DEF Dial
  <2>3. lock.phase = "dial" /\ lock # Free /\ sock = NoSocket /\ lock.s = NoSocket
    BY <1>4 DEF Dial, Free, SocketInv, NoOrphanSocket, LockWellFormed
  <2>4. lock'.s = s /\ lock'.phase = "handshake" /\ lock'.by = lock.by
    BY <2>2 DEF TypeOK
  <2>5. NoOrphanSocket'
    BY <2>1, <2>3, <2>4, NoSocketIsNone DEF TypeOK, SocketInv, NoOrphanSocket
  <2>6. LockWellFormed'
    BY <2>3, <2>4 DEF SocketInv, LockWellFormed
  <2>7. DyingIsClosed'
    BY <1>4, <2>1 DEF Dial, Fresh, TypeOK, SocketInv, DyingIsClosed
  <2> QED
    BY <2>5, <2>6, <2>7 DEF SocketInv
<1>5. ASSUME DialFails PROVE SocketInv'
  <2>1. fs' = fs /\ sock' = sock /\ dying' = dying /\ lock' = Free
    BY <1>5 DEF DialFails, AttemptFailed
  <2>2. lock.s = NoSocket
    BY <1>5 DEF DialFails, SocketInv, LockWellFormed
  <2> QED
    BY <2>1, <2>2, NoSocketIsNone
       DEF Free, SocketInv, NoOrphanSocket, LockWellFormed, DyingIsClosed
<1>6. ASSUME HandshakeFails PROVE SocketInv'
  <2>1. fs' = [fs EXCEPT ![lock.s] = "closed"] /\ sock' = sock /\ dying' = dying
           /\ lock' = Free
    BY <1>6 DEF HandshakeFails, AttemptFailed
  <2>2. lock.s \in Sockets
    BY <1>6 DEF HandshakeFails, SocketInv, LockWellFormed
  <2>3. NoOrphanSocket' /\ DyingIsClosed'
    BY <2>1, <2>2 DEF TypeOK, SocketInv, NoOrphanSocket, DyingIsClosed
  <2> QED
    BY <2>1, <2>3 DEF Free, SocketInv, LockWellFormed
<1>7. ASSUME SendClientFinish PROVE SocketInv'
  <2>1. fs' = fs /\ sock' = sock /\ dying' = dying
           /\ lock' = [lock EXCEPT !.phase = "finish"]
    BY <1>7 DEF SendClientFinish
  <2>2. lock'.s = lock.s /\ lock'.phase = "finish" /\ lock'.by = lock.by
    BY <2>1 DEF TypeOK
  <2>3. lock.phase = "handshake" /\ lock # Free
    BY <1>7 DEF SendClientFinish, Free
  <2> QED
    BY <2>1, <2>2, <2>3 DEF SocketInv, NoOrphanSocket, LockWellFormed, DyingIsClosed
<1>8. ASSUME FinishHandshake PROVE SocketInv'
  <2>1. fs' = fs /\ sock' = lock.s /\ dying' = dying /\ lock' = Free
    BY <1>8 DEF FinishHandshake
  <2>2. lock # Free /\ sock = NoSocket
    BY <1>8 DEF FinishHandshake, Free, SocketInv, NoOrphanSocket
  <2>3. NoOrphanSocket' /\ DyingIsClosed'
    BY <2>1, <2>2, NoSocketIsNone DEF SocketInv, NoOrphanSocket, DyingIsClosed
  <2> QED
    BY <2>1, <2>3 DEF Free, SocketInv, LockWellFormed
<1>9. ASSUME AutoReconnectConnects PROVE SocketInv'
  BY <1>9, BeginConnectStep DEF AutoReconnectConnects
<1>10. ASSUME RestartDisconnects PROVE SocketInv'
  BY <1>10, DisconnectStep DEF RestartDisconnects
<1>11. ASSUME RestartConnects PROVE SocketInv'
  <2>1. CASE BeginConnect("restart")
    BY <1>11, <2>1, BeginConnectStep DEF RestartConnects
  <2>2. CASE UNCHANGED <<sock, fs, callback, lock, flagVars>>
    BY <1>11, <2>2, SocketFrame DEF RestartConnects
  <2> QED
    BY <1>11, <2>1, <2>2 DEF RestartConnects
<1>12. ASSUME UserConnect PROVE SocketInv'
  BY <1>12, BeginConnectStep DEF UserConnect
<1>13. ASSUME UserDisconnect PROVE SocketInv'
  BY <1>13, DisconnectStep DEF UserDisconnect
<1>14. ASSUME Logout PROVE SocketInv'
  BY <1>14, DisconnectStep DEF Logout
<1>15. ASSUME NEW s \in Sockets,
              KeepAliveGivesUp(s) \/ KeepAliveReconnects(s) \/ KeepAliveEnds(s)
              \/ HandlerQueueLoopEnds(s)
       PROVE  SocketInv'
  BY <1>15, SocketFrame DEF KeepAliveGivesUp, KeepAliveReconnects, KeepAliveEnds,
     HandlerQueueLoopEnds
<1>16. ASSUME NEW s \in Sockets, NEW kind \in NodeKinds, ServerSends(s, kind)
       PROVE  SocketInv'
  BY <1>16, SocketFrame DEF ServerSends
<1>17. ASSUME AutoReconnectCancelled \/ AutoReconnectWakes \/ AutoReconnectNotNeeded
       PROVE  SocketInv'
  BY <1>17, SocketFrame
     DEF AutoReconnectCancelled, AutoReconnectWakes, AutoReconnectNotNeeded
<1>18. ASSUME HandleNode \/ LogoutDeletes PROVE SocketInv'
  BY <1>18, SocketFrame DEF HandleNode, LogoutDeletes
<1>19. ASSUME PairVerifies \/ PairSaves \/ PairConfirms PROVE SocketInv'
  BY <1>19, SocketFrame DEF PairVerifies, PairSaves, PairConfirms
<1>20. ASSUME PairDisconnects PROVE SocketInv'
  BY <1>20, DisconnectStep DEF PairDisconnects
<1> QED
  BY <1>1, <1>2, <1>3, <1>4, <1>5, <1>6, <1>7, <1>8, <1>9, <1>10, <1>11, <1>12,
     <1>13, <1>14, <1>15, <1>16, <1>17, <1>18, <1>19, <1>20 DEF NextActions

-----------------------------------------------------------------------------
(* NeverAbandoned: a step sets expectedDisconnect, holds the lock, leaves  *)
(* a loop or reports an error.                                             *)

\* The client has a socket, is meant to have none, or is in a pairing that ends in
\* an expected disconnection.
Excused ==
    \/ sock # NoSocket \/ expected \/ ~paired \/ user # "up"
    \/ pairing \in {"save", "disconnect"}

\* The two forms of NeverAbandoned.
LEMMA AbandonedOrNot == NeverAbandoned <=> Excused \/ Repairing
BY DEF NeverAbandoned, Excused

\* An attempt that fails leaves a loop, an expected disconnect or an error.
LEMMA AttemptFailedStep ==
    ASSUME TypeOK, LockWellFormed, AttemptFailed, lock # Free, UNCHANGED <<expected, ready>>
    PROVE  (Excused \/ Repairing)'
<1>1. lock.by \in {"user", "auto", "restart"}
  BY DEF TypeOK, LockWellFormed
<1>2. CASE lock.by = "auto" /\ ~expected
  <2>1. waiting' = waiting + 1 /\ waiting \in Nat /\ ready' \in Nat
    BY <1>2 DEF AttemptFailed, TypeOK
  <2>2. waiting' + ready' > 0
    BY <2>1
  <2> QED
    BY <2>2 DEF Repairing
<1>3. CASE lock.by = "auto" /\ expected
  BY <1>3 DEF Excused
<1>4. CASE lock.by \in {"user", "restart"}
  BY <1>4 DEF AttemptFailed, Excused
<1> QED
  BY <1>1, <1>2, <1>3, <1>4

\* A new loop is somebody who repairs, unless there is no device.
LEMMA SpawnStep ==
    ASSUME TypeOK, SpawnAutoReconnect, UNCHANGED <<ready, paired>>
    PROVE  (Excused \/ Repairing)'
<1>1. CASE paired
  <2>1. waiting' = waiting + 1 /\ waiting \in Nat /\ ready' \in Nat
    BY <1>1 DEF SpawnAutoReconnect, TypeOK
  <2>2. waiting' + ready' > 0
    BY <2>1
  <2> QED
    BY <2>2 DEF Repairing
<1>2. CASE ~paired
  BY <1>2 DEF Excused
<1> QED
  BY <1>1, <1>2

\* Every action keeps NeverAbandoned.
LEMMA AbandonStep ==
    ASSUME TypeOK, LockWellFormed, NeverAbandoned, NextActions
    PROVE  NeverAbandoned'
<1> USE DEF goroutineVars, worldVars
<1> SUFFICES (Excused \/ Repairing)'
  BY DEF NeverAbandoned, Excused
<1>0. Excused \/ Repairing
  BY AbandonedOrNot
<1>1. ASSUME UNCHANGED <<sock, expected, paired, user, waiting, ready, restart, lock,
                         keepAlive, pairing>>
      PROVE  (Excused \/ Repairing)'
  BY <1>0, <1>1 DEF Excused, Repairing
<1>2. ASSUME NEW s \in Sockets, ReadPumpEnds(s) PROVE (Excused \/ Repairing)'
  BY <1>1, <1>2 DEF ReadPumpEnds
<1>3. ASSUME NEW s \in Sockets, OnDisconnect(s) PROVE (Excused \/ Repairing)'
  <2>1. UNCHANGED <<expected, paired, user, ready, restart, lock, keepAlive, pairing>>
    BY <1>3 DEF OnDisconnect
  <2>2. CASE sock = s /\ expected
    BY <2>1, <2>2 DEF Excused
  <2>3. CASE sock = s /\ ~expected
    <3>1. SpawnAutoReconnect
      BY <1>3, <2>3 DEF OnDisconnect
    <3> QED
      BY <2>1, <3>1, SpawnStep
  <2>4. CASE sock # s
    <3>1. UNCHANGED <<sock, waiting>>
      BY <1>3, <2>4 DEF OnDisconnect
    <3> QED
      BY <1>1, <2>1, <3>1
  <2> QED
    BY <2>2, <2>3, <2>4
<1>4. ASSUME NEW s \in Sockets, KeepAliveGivesUp(s) PROVE (Excused \/ Repairing)'
  <2>1. keepAlive'[s] = "disconnect"
    BY <1>4 DEF KeepAliveGivesUp, TypeOK
  <2> QED
    BY <2>1 DEF Repairing
<1>5. ASSUME NEW s \in Sockets, KeepAliveReconnects(s) PROVE (Excused \/ Repairing)'
  BY <1>5, SpawnStep DEF KeepAliveReconnects
<1>6. ASSUME NEW s \in Sockets, KeepAliveEnds(s) PROVE (Excused \/ Repairing)'
  <2>1. UNCHANGED <<sock, expected, paired, user, waiting, ready, restart, lock, pairing>>
    BY <1>6 DEF KeepAliveEnds
  <2>2. ASSUME NEW t \in Sockets, keepAlive[t] \in {"disconnect", "reset"}
        PROVE  keepAlive'[t] \in {"disconnect", "reset"}
    BY <1>6, <2>2 DEF KeepAliveEnds, TypeOK
  <2> QED
    BY <1>0, <2>1, <2>2 DEF Excused, Repairing
<1>7. ASSUME NEW s \in Sockets, HandlerQueueLoopEnds(s) PROVE (Excused \/ Repairing)'
  BY <1>1, <1>7 DEF HandlerQueueLoopEnds
<1>8. ASSUME NEW s \in Sockets, NEW kind \in NodeKinds, ServerSends(s, kind)
      PROVE  (Excused \/ Repairing)'
  BY <1>1, <1>8 DEF ServerSends
<1>9. ASSUME DialFails \/ HandshakeFails PROVE (Excused \/ Repairing)'
  <2>1. AttemptFailed /\ UNCHANGED <<expected, ready>> /\ lock # Free
    BY <1>9 DEF DialFails, HandshakeFails, Free
  <2> QED
    BY <2>1, AttemptFailedStep
<1>10. ASSUME NEW s \in Sockets, Dial(s) PROVE (Excused \/ Repairing)'
  <2>1. lock'.phase = "handshake"
    BY <1>10 DEF Dial, TypeOK
  <2> QED
    BY <2>1 DEF Repairing, Free
<1>11. ASSUME SendClientFinish PROVE (Excused \/ Repairing)'
  <2>1. lock'.phase = "finish"
    BY <1>11 DEF SendClientFinish, TypeOK
  <2> QED
    BY <2>1 DEF Repairing, Free
<1>12. ASSUME FinishHandshake PROVE (Excused \/ Repairing)'
  <2>1. lock.s \in Sockets /\ sock' = lock.s
    BY <1>12 DEF FinishHandshake, LockWellFormed
  <2> QED
    BY <2>1, NoSocketIsNone DEF Excused
<1>13. ASSUME AutoReconnectCancelled PROVE (Excused \/ Repairing)'
  BY <1>13 DEF AutoReconnectCancelled, Excused
<1>14. ASSUME AutoReconnectWakes PROVE (Excused \/ Repairing)'
  <2>1. waiting' \in Nat
    BY <1>14 DEF AutoReconnectWakes, TypeOK
  <2>2. ready' \in Nat /\ ready' > 0
    BY <1>14 DEF AutoReconnectWakes, TypeOK
  <2>3. waiting' + ready' > 0
    <3>1. ASSUME NEW w \in Nat, NEW r \in Nat, r > 0 PROVE w + r > 0
      BY <3>1
    <3> QED
      BY <2>1, <2>2, <3>1
  <2> QED
    BY <2>3 DEF Repairing
<1>15. ASSUME NEW by \in {"user", "auto", "restart"}, BeginConnect(by)
       PROVE  (Excused \/ Repairing)'
  <2>1. lock'.phase = "dial"
    BY <1>15 DEF BeginConnect
  <2> QED
    BY <2>1 DEF Repairing, Free
<1>16. ASSUME AutoReconnectConnects \/ UserConnect PROVE (Excused \/ Repairing)'
  BY <1>15, <1>16 DEF AutoReconnectConnects, UserConnect
<1>17. ASSUME AutoReconnectNotNeeded PROVE (Excused \/ Repairing)'
  BY <1>17 DEF AutoReconnectNotNeeded, IsConnected, Excused
<1>18. ASSUME HandleNode PROVE (Excused \/ Repairing)'
  <2>1. UNCHANGED <<sock, user, waiting, ready, lock, keepAlive>>
    BY <1>18 DEF HandleNode
  <2>2. (expected => expected') /\ (paired' => paired)
    <3>1. expected' = expected \/ expected' = TRUE
      BY <1>18 DEF HandleNode
    <3>2. paired' = paired \/ paired' = FALSE
      BY <1>18 DEF HandleNode, StoreDelete
    <3> QED
      BY <3>1, <3>2
  <2>3. restart' = restart \/ restart' = "disconnect"
    BY <1>18 DEF HandleNode
  <2>4. pairing' = pairing \/ pairing = "none"
    BY <1>18 DEF HandleNode
  <2> QED
    BY <1>0, <2>1, <2>2, <2>3, <2>4 DEF Excused, Repairing
<1>19. ASSUME Disconnect PROVE (Excused \/ Repairing)'
  BY <1>19 DEF Disconnect, Excused
<1>20. ASSUME RestartDisconnects \/ UserDisconnect \/ Logout PROVE (Excused \/ Repairing)'
  BY <1>19, <1>20 DEF RestartDisconnects, UserDisconnect, Logout
<1>21. ASSUME NEW s \in Sockets, KeepAliveDisconnects(s) PROVE (Excused \/ Repairing)'
  BY <1>19, <1>21 DEF KeepAliveDisconnects
<1>22. ASSUME RestartConnects PROVE (Excused \/ Repairing)'
  <2>1. CASE BeginConnect("restart")
    BY <1>15, <2>1
  <2>2. CASE IsConnected /\ UNCHANGED sock
    BY <2>2 DEF IsConnected, Excused
  <2> QED
    BY <1>22, <2>1, <2>2 DEF RestartConnects
<1>23. ASSUME LogoutDeletes PROVE (Excused \/ Repairing)'
  <2>1. UNCHANGED <<sock, expected, user, waiting, ready, restart, lock, keepAlive, pairing>>
    BY <1>23 DEF LogoutDeletes
  <2>2. paired' = paired \/ paired' = FALSE
    BY <1>23 DEF LogoutDeletes, StoreDelete
  <2> QED
    BY <1>0, <2>1, <2>2 DEF Excused, Repairing
<1>24. ASSUME PairVerifies PROVE (Excused \/ Repairing)'
  BY <1>24 DEF PairVerifies, Excused
<1>25. ASSUME PairSaves PROVE (Excused \/ Repairing)'
  BY <1>25 DEF PairSaves, Excused
<1>26. ASSUME PairConfirms PROVE (Excused \/ Repairing)'
  <2>1. CASE IsConnected /\ UNCHANGED sock
    BY <2>1 DEF IsConnected, Excused
  <2>2. CASE pairing' = "disconnect"
    BY <2>2 DEF Excused
  <2> QED
    BY <1>26, <2>1, <2>2 DEF PairConfirms
<1>27. ASSUME PairDisconnects PROVE (Excused \/ Repairing)'
  BY <1>19, <1>27 DEF PairDisconnects
<1> QED
  BY <1>2, <1>3, <1>4, <1>5, <1>6, <1>7, <1>8, <1>9, <1>10, <1>11, <1>12, <1>13,
     <1>14, <1>16, <1>17, <1>18, <1>20, <1>21, <1>22, <1>23, <1>24, <1>25, <1>26, <1>27
     DEF NextActions

-----------------------------------------------------------------------------
(* The theorems.                                                           *)

\* The invariant holds initially.
LEMMA InitInv == Init => TypeOK /\ ConnInv
<1> SUFFICES ASSUME Init PROVE TypeOK /\ ConnInv
  OBVIOUS
<1>1. TypeOK
  <2>1. bound \in [nodes : Nat, calls : Nat]
    BY DEF Init
  <2>2. queue \in Seq(NodeKinds)
    BY DEF Init
  <2>3. lock \in [by : {"none", "user", "auto", "restart"},
                  phase : {"none", "dial", "handshake", "finish"},
                  s : Sockets \cup {NoSocket}]
    BY FreeType DEF Init
  <2>4. /\ fs \in [Sockets -> {"none", "open", "closed"}]
        /\ keepAlive \in [Sockets -> {"off", "on", "disconnect", "reset"}]
    BY DEF Init
  <2>5. {expected, loggedIn, paired, deleting} \subseteq BOOLEAN
    BY DEF Init
  <2> QED
    BY <2>1, <2>2, <2>3, <2>4, <2>5 DEF Init, TypeOK
<1>2. NoOrphanSocket /\ DyingIsClosed
  BY DEF Init, NoOrphanSocket, DyingIsClosed
<1>3. NeverAbandoned
  BY DEF Init, NeverAbandoned
<1>4. LockWellFormed
  BY DEF Init, LockWellFormed, Free
<1> QED
  BY <1>1, <1>2, <1>3, <1>4 DEF ConnInv

\* The invariant is inductive.
LEMMA InvStep == TypeOK /\ ConnInv /\ [Next]_vars => (TypeOK /\ ConnInv)'
<1> SUFFICES ASSUME TypeOK, ConnInv, [Next]_vars PROVE (TypeOK /\ ConnInv)'
  OBVIOUS
<1>1. CASE Next
  <2>1. NextActions
    BY <1>1, NextSplit
  <2>2. TypeOK'
    BY <2>1, TypeStep DEF ConnInv
  <2>3. SocketInv'
    BY <2>1, SocketStep DEF ConnInv, SocketInv
  <2>4. NeverAbandoned'
    BY <2>1, AbandonStep DEF ConnInv
  <2> QED
    BY <2>2, <2>3, <2>4 DEF ConnInv, SocketInv
<1>2. CASE UNCHANGED vars
  <2>1. TypeOK'
    BY <1>2 DEF vars, TypeOK
  <2>2. SocketInv'
    BY <1>2, SocketFrame DEF vars, ConnInv, SocketInv
  <2>3. NeverAbandoned'
    BY <1>2 DEF vars, ConnInv, NeverAbandoned, Repairing
  <2> QED
    BY <2>1, <2>2, <2>3 DEF ConnInv, SocketInv
<1> QED
  BY <1>1, <1>2

\* The inductive invariant holds in every state of the client.
THEOREM InvAlways == Spec => [](TypeOK /\ ConnInv)
BY InitInv, InvStep, PTL DEF Spec

\* The connection's state is well typed, for every number of sockets.
THEOREM TypeCorrect == Spec => []TypeOK
BY InvAlways, PTL

\* No race of reconnects, keepalives, restarts and user calls leaves an open
\* connection that the client does not know of.
THEOREM OneConnection == Spec => []NoOrphanSocket
<1>1. ConnInv => NoOrphanSocket
  BY DEF ConnInv
<1> QED
  BY <1>1, InvAlways, PTL

\* A client that is meant to be connected and has no socket always has somebody
\* who reconnects it.
THEOREM ReconnectPending == Spec => []NeverAbandoned
<1>1. ConnInv => NeverAbandoned
  BY DEF ConnInv
<1> QED
  BY <1>1, InvAlways, PTL

-----------------------------------------------------------------------------
(* expectedDisconnect.                                                     *)

\* What makes ExpectedHasCause inductive: it holds for the attempt in progress as
\* well.
ExpectedInv == (sock # NoSocket \/ lock # Free) /\ expected => cause \in {"node", "pair"}

\* A step that leaves the flag alone and brings no connection keeps it.
LEMMA ExpectedFrame ==
    ASSUME ExpectedInv, UNCHANGED flagVars,
           (sock' # NoSocket \/ lock' # Free) => (sock # NoSocket \/ lock # Free)
    PROVE  ExpectedInv'
BY DEF ExpectedInv

\* Disconnect sets the flag when it has dropped the socket, under the free lock.
LEMMA ExpectedDisconnect == ASSUME Disconnect, lock' = lock PROVE ExpectedInv'
BY DEF Disconnect, UnlockedDisconnect, LockFree, ExpectedInv

\* Every step keeps ExpectedInv.
LEMMA ExpectedStep == ASSUME ExpectedInv, NextActions PROVE ExpectedInv'
<1>1. ASSUME NEW s \in Sockets, ReadPumpEnds(s) \/ HandlerQueueLoopEnds(s)
      PROVE  ExpectedInv'
  BY <1>1, ExpectedFrame DEF ReadPumpEnds, HandlerQueueLoopEnds
<1>2. ASSUME NEW s \in Sockets, OnDisconnect(s) PROVE ExpectedInv'
  BY <1>2, ExpectedFrame DEF OnDisconnect
<1>3. ASSUME NEW s \in Sockets, KeepAliveGivesUp(s) \/ KeepAliveEnds(s) PROVE ExpectedInv'
  BY <1>3, ExpectedFrame DEF KeepAliveGivesUp, KeepAliveEnds
<1>4. ASSUME NEW s \in Sockets, KeepAliveDisconnects(s) PROVE ExpectedInv'
  BY <1>4, ExpectedDisconnect DEF KeepAliveDisconnects
<1>5. ASSUME NEW s \in Sockets, KeepAliveReconnects(s) PROVE ExpectedInv'
  BY <1>5 DEF KeepAliveReconnects, ExpectedInv
<1>6. ASSUME NEW s \in Sockets, NEW kind \in NodeKinds, ServerSends(s, kind)
      PROVE  ExpectedInv'
  BY <1>6, ExpectedFrame DEF ServerSends
<1>7. ASSUME DialFails \/ HandshakeFails PROVE ExpectedInv'
  BY <1>7, ExpectedFrame DEF DialFails, HandshakeFails, AttemptFailed
<1>8. ASSUME NEW s \in Sockets, Dial(s) PROVE ExpectedInv'
  <2>1. lock # Free
    BY <1>8 DEF Dial, Free
  <2> QED
    BY <1>8, <2>1, ExpectedFrame DEF Dial
<1>9. ASSUME SendClientFinish \/ FinishHandshake PROVE ExpectedInv'
  <2>1. lock # Free
    BY <1>9 DEF SendClientFinish, FinishHandshake, Free
  <2> QED
    BY <1>9, <2>1, ExpectedFrame DEF SendClientFinish, FinishHandshake
<1>10. ASSUME AutoReconnectCancelled \/ AutoReconnectWakes \/ AutoReconnectNotNeeded
       PROVE  ExpectedInv'
  BY <1>10, ExpectedFrame
     DEF AutoReconnectCancelled, AutoReconnectWakes, AutoReconnectNotNeeded
<1>11. ASSUME NEW by, BeginConnect(by) PROVE ExpectedInv'
  BY <1>11 DEF BeginConnect, ExpectedInv
<1>12. ASSUME AutoReconnectConnects \/ UserConnect PROVE ExpectedInv'
  BY <1>11, <1>12 DEF AutoReconnectConnects, UserConnect
<1>13. ASSUME HandleNode PROVE ExpectedInv'
  <2>1. CASE cause' = "node"
    BY <2>1 DEF ExpectedInv
  <2>2. CASE UNCHANGED flagVars
    BY <1>13, <2>2, ExpectedFrame DEF HandleNode
  <2> QED
    BY <1>13, <2>1, <2>2 DEF HandleNode
<1>14. ASSUME RestartDisconnects \/ PairDisconnects \/ UserDisconnect \/ Logout
       PROVE  ExpectedInv'
  BY <1>14, ExpectedDisconnect DEF RestartDisconnects, PairDisconnects, UserDisconnect, Logout
<1>15. ASSUME RestartConnects PROVE ExpectedInv'
  <2>1. CASE UNCHANGED <<sock, fs, callback, lock, flagVars>>
    BY <2>1, ExpectedFrame
  <2> QED
    BY <1>11, <1>15, <2>1 DEF RestartConnects
<1>16. ASSUME PairVerifies \/ PairConfirms \/ LogoutDeletes PROVE ExpectedInv'
  BY <1>16, ExpectedFrame DEF PairVerifies, PairConfirms, LogoutDeletes
<1>17. ASSUME PairSaves PROVE ExpectedInv'
  <2>1. CASE cause' = "pair"
    BY <2>1 DEF ExpectedInv
  <2>2. CASE UNCHANGED flagVars
    BY <1>17, <2>2, ExpectedFrame DEF PairSaves
  <2> QED
    BY <1>17, <2>1, <2>2 DEF PairSaves
<1> QED
  BY <1>1, <1>2, <1>3, <1>4, <1>5, <1>6, <1>7, <1>8, <1>9, <1>10, <1>12, <1>13,
     <1>14, <1>15, <1>16, <1>17 DEF NextActions

\* While there is a socket, its loss counts as expected only because a final node or a
\* pairing was handled since the last reset: a Disconnect by the user, a keepalive, a 515
\* or a failed pairing leaves no flag that outlives the next attempt to connect.
THEOREM ExpectedCaused == Spec => []ExpectedHasCause
<1>1. Init => ExpectedInv
  BY DEF Init, ExpectedInv
<1>2. ExpectedInv /\ [Next]_vars => ExpectedInv'
  <2>1. ASSUME ExpectedInv, Next PROVE ExpectedInv'
    BY <2>1, NextSplit, ExpectedStep
  <2>2. ASSUME ExpectedInv, UNCHANGED vars PROVE ExpectedInv'
    BY <2>2, ExpectedFrame DEF vars
  <2> QED
    BY <2>1, <2>2
<1>3. ExpectedInv => ExpectedHasCause
  BY DEF ExpectedInv, ExpectedHasCause
<1> QED
  BY <1>1, <1>2, <1>3, PTL DEF Spec

-----------------------------------------------------------------------------
(* Disconnect.                                                             *)

\* What Down says, in the terms of the actions' guards.
LEMMA DownFacts ==
    ASSUME TypeOK, NoOrphanSocket, Down
    PROVE  /\ sock = NoSocket /\ waiting = 0 /\ ready = 0 /\ restart = "none" /\ lock = Free
           /\ \A s \in Sockets : keepAlive[s] \notin {"disconnect", "reset"}
           /\ \A s \in Sockets : fs[s] # "open"
           /\ ~IsConnected
           /\ lock.phase = "none"
<1>1. sock = NoSocket /\ restart = "none" /\ lock = Free /\ ~(waiting + ready > 0)
  BY DEF Down, Repairing
<1>2. waiting = 0 /\ ready = 0
  <2>1. waiting \in Nat /\ ready \in Nat
    BY DEF TypeOK
  <2> QED
    BY <1>1, <2>1
<1>3. \A s \in Sockets : keepAlive[s] \notin {"disconnect", "reset"}
  BY DEF Down, Repairing
<1>4. lock.s = NoSocket /\ lock.phase = "none"
  BY <1>1 DEF Free
<1>5. \A s \in Sockets : fs[s] # "open"
  BY <1>1, <1>4, NoSocketIsNone DEF NoOrphanSocket
<1> QED
  BY <1>1, <1>2, <1>3, <1>4, <1>5 DEF IsConnected

\* Steps that leave a client that is down as it was.
LEMMA DownFrame ==
    ASSUME TypeOK, NoOrphanSocket, Down,
           UNCHANGED <<sock, waiting, ready, restart, lock, queue>>,
           loops' \subseteq loops,
           \A s \in Sockets : keepAlive'[s] \in {keepAlive[s], "off"}
    PROVE  Down'
<1>1. ~Repairing'
  BY DownFacts DEF Repairing
<1> QED
  BY <1>1 DEF Down

\* A client that is down stays down until the user connects it.
LEMMA DownStep ==
    ASSUME TypeOK, NoOrphanSocket, Down, NextActions, user' = "down" PROVE Down'
<1> USE DownFacts
<1>1. ASSUME NEW s \in Sockets, ReadPumpEnds(s) PROVE Down'
  BY <1>1 DEF ReadPumpEnds
<1>2. ASSUME NEW s \in Sockets, OnDisconnect(s) PROVE Down'
  BY <1>2, DownFrame, NoSocketIsNone DEF OnDisconnect
<1>3. ASSUME NEW s \in Sockets,
             KeepAliveGivesUp(s) \/ KeepAliveDisconnects(s) \/ KeepAliveReconnects(s)
      PROVE  Down'
  BY <1>3 DEF KeepAliveGivesUp, KeepAliveDisconnects, KeepAliveReconnects
<1>4. ASSUME NEW s \in Sockets, KeepAliveEnds(s) PROVE Down'
  <2>1. keepAlive \in [Sockets -> {"off", "on", "disconnect", "reset"}]
    BY DEF TypeOK
  <2> QED
    BY <1>4, <2>1, DownFrame DEF KeepAliveEnds
<1>5. ASSUME NEW s \in Sockets, HandlerQueueLoopEnds(s) PROVE Down'
  BY <1>5, DownFrame DEF HandlerQueueLoopEnds
<1>6. ASSUME NEW s \in Sockets, NEW kind \in NodeKinds, ServerSends(s, kind) PROVE Down'
  BY <1>6 DEF ServerSends
<1>7. ASSUME DialFails \/ HandshakeFails \/ SendClientFinish \/ FinishHandshake
      PROVE  Down'
  BY <1>7 DEF DialFails, HandshakeFails, SendClientFinish, FinishHandshake
<1>8. ASSUME NEW s \in Sockets, Dial(s) PROVE Down'
  BY <1>8 DEF Dial
<1>9. ASSUME \/ AutoReconnectCancelled \/ AutoReconnectWakes \/ AutoReconnectConnects
             \/ AutoReconnectNotNeeded
      PROVE  Down'
  BY <1>9 DEF AutoReconnectCancelled, AutoReconnectWakes, AutoReconnectConnects,
              AutoReconnectNotNeeded
<1>10. ASSUME HandleNode PROVE Down'
  <2>1. /\ queue \in Seq(NodeKinds) /\ queue # <<>> /\ loops # {}
        /\ queue' = Tail(queue)
        /\ UNCHANGED <<sock, waiting, ready, keepAlive, lock, loops>>
    BY <1>10 DEF HandleNode, TypeOK
  <2>2. \A i \in 1..Len(queue) : queue[i] # "restart515"
    BY <2>1 DEF Down
  <2>3. Head(queue) # "restart515"
    BY <2>1, <2>2
  <2>4. restart' = restart
    BY <1>10, <2>3 DEF HandleNode
  <2>5. \A i \in 1..Len(queue') : queue'[i] # "restart515"
    BY <2>1, <2>2
  <2> QED
    BY <2>1, <2>4, <2>5 DEF Down, Repairing
<1>11. ASSUME RestartDisconnects \/ RestartConnects PROVE Down'
  BY <1>11 DEF RestartDisconnects, RestartConnects
<1>12. ASSUME UserConnect PROVE Down'
  BY <1>12 DEF UserConnect
<1>13. ASSUME UserDisconnect PROVE Down'
  BY <1>13, DownFrame
     DEF UserDisconnect, Disconnect, UnlockedDisconnect, goroutineVars
<1>14. ASSUME Logout PROVE Down'
  BY <1>14 DEF Logout
<1>15. ASSUME LogoutDeletes PROVE Down'
  BY <1>15, DownFrame DEF LogoutDeletes, goroutineVars
<1>16. ASSUME PairVerifies \/ PairSaves \/ PairConfirms PROVE Down'
  BY <1>16, DownFrame DEF PairVerifies, PairSaves, PairConfirms
<1>17. ASSUME PairDisconnects PROVE Down'
  BY <1>17, DownFrame DEF PairDisconnects, Disconnect, UnlockedDisconnect
<1> QED
  BY <1>1, <1>2, <1>3, <1>4, <1>5, <1>6, <1>7, <1>8, <1>9, <1>10, <1>11, <1>12,
     <1>13, <1>14, <1>15, <1>16, <1>17 DEF NextActions

\* Once what was under way has ended, a Disconnect lasts until the user connects.
THEOREM DisconnectLasts == Spec => DisconnectSticks
<1>1. TypeOK /\ NoOrphanSocket /\ [Next]_vars => [Down /\ user' = "down" => Down']_vars
  <2>1. ASSUME TypeOK, NoOrphanSocket, Next, Down, user' = "down" PROVE Down'
    BY <2>1, NextSplit, DownStep
  <2> QED
    BY <2>1
<1> QED
  BY <1>1, TypeCorrect, OneConnection, PTL DEF Spec, DisconnectSticks
=============================================================================
