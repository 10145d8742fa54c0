------------------------------ MODULE Connection ------------------------------
(***************************************************************************)
(* The life of the client's websocket (client.go, handshake.go,            *)
(* keepalive.go, connectionevents.go, socket/framesocket.go).              *)
(*                                                                         *)
(* The goroutines: the user's Connect, Disconnect and Logout; the read     *)
(* pump of each FrameSocket, which ends in Close and OnDisconnect; any     *)
(* number of autoReconnect loops; one keepAliveLoop per socket; the        *)
(* handler queue, which survives the socket that filled it; and the        *)
(* goroutines that a 515 stream error and a pair-success start.  A         *)
(* connection attempt holds socketLock from the check for an old socket to *)
(* the end of the handshake; the other critical sections are single steps. *)
(*                                                                         *)
(* FrameSocket.OnDisconnect is installed only at the end of the handshake  *)
(* and removed by NoiseSocket.Stop, while the read pump may close the      *)
(* socket at any time.  InitialAutoReconnect, AutoReconnectHook and        *)
(* DisableLoginAutoReconnect are unset, as in the MCP tool.                *)
(***************************************************************************)
EXTENDS Integers, Sequences

CONSTANTS
    MaxSockets,     \* bound: sockets that get as far as an open connection
    MaxNodes,       \* bound: nodes the server sends
    MaxUserOps      \* bound: calls of Connect, Disconnect and Logout

Sockets == 1..MaxSockets
NoSocket == 0

\* Nodes that change the state of the connection.  "replaced", "removed" and
\* "failure" are final: the server refuses the client.  "failure503" stands for
\* the connect failures that reconnect, "streamerror" for the stream errors that
\* only report.
FinalNodes == {"replaced", "removed", "failure", "loggedout"}
NodeKinds == FinalNodes \cup
             {"success", "restart515", "streamerror", "failure503", "pairsuccess"}

ASSUME BoundAssumption == {MaxSockets, MaxNodes, MaxUserOps} \subseteq Nat

VARIABLES
    sock,       \* cli.socket
    fs,         \* socket -> its FrameSocket: "none", "open" (conn # nil), "closed"
    callback,   \* sockets whose OnDisconnect is installed
    dying,      \* sockets with an onDisconnect goroutine not yet at the lock
    lock,       \* the attempt that holds socketLock
    expected,   \* expectedDisconnect
    cause,      \* what set it: "none", "call" (Disconnect), "node", "pair"
    loggedIn,   \* isLoggedIn
    paired,     \* Store.ID # nil
    waiting,    \* autoReconnect loops in their delay
    ready,      \* autoReconnect loops about to call connect
    keepAlive,  \* socket -> its keepAliveLoop
    loops,      \* sockets whose handlerQueueLoop runs
    restart,    \* the goroutine of a 515: "none", "disconnect", "connect"
    pairing,    \* the goroutine of handlePairSuccess: where it is
    queue,      \* handlerQueue
    deleting,   \* Logout has disconnected and not yet deleted the store
    user,       \* what the user asked for last: "up", "down", "failed"
    authed,     \* sockets on which the server has sent success
    final,      \* sockets on which the server has sent a final node
    bound       \* nodes sent and user calls made

goroutineVars == <<waiting, ready, keepAlive, loops, restart, pairing, dying>>
flagVars == <<expected, cause>>
worldVars == <<authed, final, bound>>
vars == <<sock, fs, callback, dying, lock, expected, cause, loggedIn, paired, waiting,
          ready, keepAlive, loops, restart, pairing, queue, deleting, user, authed, final,
          bound>>

Free == [by |-> "none", phase |-> "none", s |-> NoSocket]
LockFree == lock = Free
IsConnected == sock # NoSocket /\ fs[sock] = "open"
Fresh == {s \in Sockets : fs[s] = "none" /\ \A t \in Sockets : t < s => fs[t] # "none"}

-----------------------------------------------------------------------------
(* Closing.                                                                *)

ExpectDisconnect(why) == expected' = TRUE /\ cause' = why
ResetExpectedDisconnect == expected' = FALSE /\ cause' = "none"

\* The read pump of s ends: FrameSocket.Close(0) drops the connection and calls
\* OnDisconnect if it is there.
ReadPumpEnds(s) ==
    /\ fs[s] = "open"
    /\ fs' = [fs EXCEPT ![s] = "closed"]
    /\ dying' = IF s \in callback THEN dying \cup {s} ELSE dying
    /\ UNCHANGED <<sock, callback, lock, flagVars, loggedIn, paired, waiting, ready,
                   keepAlive, restart, pairing, loops, queue, deleting, user, worldVars>>

\* autoReconnect returns at once when there is no device to connect as.
SpawnAutoReconnect ==
    waiting' = IF paired THEN waiting + 1 ELSE waiting

\* Mutant of OnDisconnect: every loss is repaired.
OnDisconnectReconnects(s) ==
    /\ s \in dying
    /\ LockFree
    /\ dying' = dying \ {s}
    /\ callback' = callback \ {s}
    /\ sock' = IF sock = s THEN NoSocket ELSE sock
    /\ SpawnAutoReconnect
    /\ UNCHANGED <<fs, lock, flagVars, loggedIn, paired, ready, keepAlive, restart, pairing,
                   loops, queue, deleting, user, worldVars>>

OnDisconnect(s) ==
    /\ s \in dying
    /\ LockFree
    /\ dying' = dying \ {s}
    /\ callback' = callback \ {s}
    /\ IF sock = s
       THEN /\ sock' = NoSocket
            /\ IF expected THEN UNCHANGED waiting ELSE SpawnAutoReconnect
       ELSE UNCHANGED <<sock, waiting>>
    /\ UNCHANGED <<fs, lock, flagVars, loggedIn, paired, ready, keepAlive, restart, pairing,
                   loops, queue, deleting, user, worldVars>>

\* unlockedDisconnect: NoiseSocket.Stop(true) removes OnDisconnect, then closes.
UnlockedDisconnect ==
    /\ sock' = NoSocket
    /\ callback' = callback \ {sock}
    /\ fs' = IF sock = NoSocket THEN fs ELSE [fs EXCEPT ![sock] = "closed"]

\* Client.Disconnect.
Disconnect ==
    /\ LockFree
    /\ ExpectDisconnect("call")
    /\ UnlockedDisconnect

-----------------------------------------------------------------------------
(* Connecting.                                                             *)

\* Mutant of BeginConnect: an open socket is not an obstacle.
BeginConnectAlways(by) ==
    /\ LockFree
    /\ lock' = [by |-> by, phase |-> "dial", s |-> NoSocket]
    /\ ResetExpectedDisconnect
    /\ UNCHANGED <<sock, callback, fs>>

\* Mutant of BeginConnect: expectedDisconnect is not reset.
BeginConnectKeepsExpected(by) ==
    /\ LockFree
    /\ ~IsConnected
    /\ lock' = [by |-> by, phase |-> "dial", s |-> NoSocket]
    /\ UNCHANGED flagVars
    /\ UnlockedDisconnect

\* unlockedConnect takes the lock, disconnects what is left of an old socket
\* and resets expectedDisconnect.
BeginConnect(by) ==
    /\ LockFree
    /\ ~IsConnected
    /\ lock' = [by |-> by, phase |-> "dial", s |-> NoSocket]
    /\ ResetExpectedDisconnect
    /\ UnlockedDisconnect

\* What the caller of connect does with an error: an autoReconnect loop goes on
\* unless the disconnect was expected; Connect returns it; a 515 logs it.
AttemptFailed ==
    /\ lock' = Free
    /\ waiting' = IF lock.by = "auto" /\ ~expected THEN waiting + 1 ELSE waiting
    /\ user' = IF lock.by \in {"user", "restart"} THEN "failed" ELSE user

DialFails ==
    /\ lock.phase = "dial"
    /\ AttemptFailed
    /\ UNCHANGED <<sock, fs, callback, dying, flagVars, loggedIn, paired, ready,
                   keepAlive, restart, pairing, loops, queue, deleting, worldVars>>

Dial(s) ==
    /\ lock.phase = "dial"
    /\ s \in Fresh
    /\ fs' = [fs EXCEPT ![s] = "open"]
    /\ lock' = [lock EXCEPT !.phase = "handshake", !.s = s]
    /\ UNCHANGED <<sock, callback, flagVars, loggedIn, paired, goroutineVars, queue,
                   deleting, user, worldVars>>

\* A closed connection, a timeout or a bad answer; the socket is closed.
HandshakeFails ==
    /\ lock.phase = "handshake"
    /\ fs' = [fs EXCEPT ![lock.s] = "closed"]
    /\ AttemptFailed
    /\ UNCHANGED <<sock, callback, dying, flagVars, loggedIn, paired, ready,
                   keepAlive, restart, pairing, loops, queue, deleting, worldVars>>

\* The last frame of the handshake has been written.
SendClientFinish ==
    /\ lock.phase = "handshake"
    /\ fs[lock.s] = "open"
    /\ lock' = [lock EXCEPT !.phase = "finish"]
    /\ UNCHANGED <<sock, fs, callback, flagVars, loggedIn, paired, goroutineVars,
                   queue, deleting, user, worldVars>>

\* newNoiseSocket installs OnDisconnect; cli.socket is set, the loops start.
FinishHandshake ==
    /\ lock.phase = "finish"
    /\ callback' = callback \cup {lock.s}
    /\ sock' = lock.s
    /\ keepAlive' = [keepAlive EXCEPT ![lock.s] = "on"]
    /\ loops' = loops \cup {lock.s}
    /\ lock' = Free
    /\ UNCHANGED <<fs, dying, flagVars, loggedIn, paired, waiting, ready, restart, pairing,
                   queue, deleting, user, worldVars>>

Attempt ==
    \/ DialFails
    \/ \E s \in Sockets : Dial(s)
    \/ HandshakeFails
    \/ SendClientFinish
    \/ FinishHandshake

-----------------------------------------------------------------------------
(* autoReconnect.                                                          *)

\* WaitTimeoutCtx returns because the disconnect is expected ...
AutoReconnectCancelled ==
    /\ waiting > 0
    /\ expected
    /\ waiting' = waiting - 1
    /\ UNCHANGED <<sock, fs, callback, dying, lock, flagVars, loggedIn, paired, ready,
                   keepAlive, restart, pairing, loops, queue, deleting, user, worldVars>>

\* Mutant of AutoReconnectWakes: a loop that was cancelled goes on.
AutoReconnectWakesCancelled ==
    /\ waiting' = waiting - 1
    /\ ready' = ready + 1
    /\ UNCHANGED <<sock, fs, callback, dying, lock, flagVars, loggedIn, paired,
                   keepAlive, restart, pairing, loops, queue, deleting, user, worldVars>>

\* ... or because the delay is over; with both, either.
AutoReconnectWakes ==
    /\ waiting > 0
    /\ waiting' = waiting - 1
    /\ ready' = ready + 1
    /\ UNCHANGED <<sock, fs, callback, dying, lock, flagVars, loggedIn, paired,
                   keepAlive, restart, pairing, loops, queue, deleting, user, worldVars>>

AutoReconnectConnects ==
    /\ ready > 0
    /\ ready' = ready - 1
    /\ BeginConnect("auto")
    /\ UNCHANGED <<dying, loggedIn, paired, waiting, keepAlive, restart, pairing, loops, queue,
                   deleting, user, worldVars>>

\* ErrAlreadyConnected.
AutoReconnectNotNeeded ==
    /\ ready > 0
    /\ LockFree
    /\ IsConnected
    /\ ready' = ready - 1
    /\ UNCHANGED <<sock, fs, callback, dying, lock, flagVars, loggedIn, paired,
                   waiting, keepAlive, restart, pairing, loops, queue, deleting, user, worldVars>>

AutoReconnect ==
    \/ AutoReconnectCancelled
    \/ AutoReconnectWakes
    \/ AutoReconnectConnects
    \/ AutoReconnectNotNeeded

-----------------------------------------------------------------------------
(* keepAliveLoop: "on", then, after three minutes without an answer,       *)
(* "disconnect" and "reset"; "off" when the connection's context is done.  *)

KeepAliveGivesUp(s) ==
    /\ keepAlive[s] = "on"
    /\ fs[s] = "open"
    /\ keepAlive' = [keepAlive EXCEPT ![s] = "disconnect"]
    /\ UNCHANGED <<sock, fs, callback, dying, lock, flagVars, loggedIn, paired,
                   waiting, ready, restart, pairing, loops, queue, deleting, user, worldVars>>

\* cli.Disconnect(): of cli.socket, whichever that is by now.
KeepAliveDisconnects(s) ==
    /\ keepAlive[s] = "disconnect"
    /\ Disconnect
    /\ keepAlive' = [keepAlive EXCEPT ![s] = "reset"]
    /\ UNCHANGED <<dying, lock, loggedIn, paired, waiting, ready, restart, pairing, loops, queue,
                   deleting, user, worldVars>>

\* Mutant of KeepAliveReconnects: the reconnect is forgotten.
KeepAliveOnlyResets(s) ==
    /\ keepAlive[s] = "reset"
    /\ ResetExpectedDisconnect
    /\ keepAlive' = [keepAlive EXCEPT ![s] = "on"]
    /\ UNCHANGED <<sock, fs, callback, dying, lock, loggedIn, paired, waiting, ready,
                   restart, pairing, loops, queue, deleting, user, worldVars>>

\* resetExpectedDisconnect and go autoReconnect.
KeepAliveReconnects(s) ==
    /\ keepAlive[s] = "reset"
    /\ ResetExpectedDisconnect
    /\ SpawnAutoReconnect
    /\ keepAlive' = [keepAlive EXCEPT ![s] = "on"]
    /\ UNCHANGED <<sock, fs, callback, dying, lock, loggedIn, paired, ready, restart, pairing,
                   loops, queue, deleting, user, worldVars>>

KeepAliveEnds(s) ==
    /\ keepAlive[s] = "on"
    /\ fs[s] = "closed"
    /\ keepAlive' = [keepAlive EXCEPT ![s] = "off"]
    /\ UNCHANGED <<sock, fs, callback, dying, lock, flagVars, loggedIn, paired,
                   waiting, ready, restart, pairing, loops, queue, deleting, user, worldVars>>

KeepAliveLoop(s) ==
    \/ KeepAliveGivesUp(s)
    \/ KeepAliveDisconnects(s)
    \/ KeepAliveReconnects(s)
    \/ KeepAliveEnds(s)

-----------------------------------------------------------------------------
(* Nodes from the server.                                                  *)

\* handleFrame puts a node that arrives on s in the queue.
ServerSends(s, kind) ==
    /\ bound.nodes < MaxNodes
    /\ s = sock
    /\ fs[s] = "open"
    /\ s \notin final
    /\ kind = "success" => s \notin authed /\ paired
    /\ kind = "pairsuccess" => ~paired
    /\ bound' = [bound EXCEPT !.nodes = @ + 1]
    /\ queue' = Append(queue, kind)
    /\ authed' = IF kind = "success" THEN authed \cup {s} ELSE authed
    /\ final' = IF kind \in FinalNodes THEN final \cup {s} ELSE final
    /\ UNCHANGED <<sock, fs, callback, lock, flagVars, loggedIn, paired,
                   goroutineVars, deleting, user>>

\* Store.Delete, which leaves the device as it is when the statement fails.
StoreDelete == paired' \in {paired, FALSE}

\* The handlerQueueLoop of any socket takes the next node: handleConnectSuccess,
\* handleStreamError, handleConnectFailure, handlePairSuccess.  RefreshCAT, of
\* Messenger clients, is nil.  The model has one restart and one pairing at a time.
HandleNode ==
    /\ queue # <<>>
    /\ loops # {}
    /\ queue' = Tail(queue)
    /\ LET kind == Head(queue) IN
       /\ loggedIn' = IF kind = "success" THEN TRUE
                      ELSE IF kind \in {"replaced", "removed", "restart515", "streamerror"}
                      THEN FALSE ELSE loggedIn
       /\ IF kind \in FinalNodes THEN ExpectDisconnect("node") ELSE UNCHANGED flagVars
       /\ IF kind \in {"removed", "loggedout"} THEN StoreDelete ELSE UNCHANGED paired
       /\ restart' = IF kind = "restart515" THEN "disconnect" ELSE restart
       /\ kind = "restart515" => restart = "none"
       /\ pairing' = IF kind = "pairsuccess" THEN "verify" ELSE pairing
       /\ kind = "pairsuccess" => pairing = "none"
    /\ UNCHANGED <<sock, fs, callback, dying, lock, waiting, ready, keepAlive,
                   loops, deleting, user, worldVars>>

\* The loop of a closed socket ends when it looks at the context; until then it
\* may take more nodes.
HandlerQueueLoopEnds(s) ==
    /\ s \in loops
    /\ fs[s] = "closed"
    /\ loops' = loops \ {s}
    /\ UNCHANGED <<sock, fs, callback, dying, lock, flagVars, loggedIn, paired, waiting,
                   ready, keepAlive, restart, pairing, queue, deleting, user, worldVars>>

\* The goroutine of a 515: Disconnect, then connect.
RestartDisconnects ==
    /\ restart = "disconnect"
    /\ Disconnect
    /\ restart' = "connect"
    /\ UNCHANGED <<dying, lock, loggedIn, paired, waiting, ready, keepAlive, pairing, loops, queue,
                   deleting, user, worldVars>>

RestartConnects ==
    /\ restart = "connect"
    /\ restart' = "none"
    /\ LockFree
    /\ IF IsConnected
       THEN UNCHANGED <<sock, fs, callback, lock, flagVars>>
       ELSE BeginConnect("restart")
    /\ UNCHANGED <<dying, loggedIn, paired, waiting, ready, keepAlive, pairing, loops, queue,
                   deleting, user, worldVars>>

-----------------------------------------------------------------------------
(* The goroutine of handlePairSuccess: handlePair, as far as the connection *)
(* sees it (QRPairing has all of it), and Disconnect when it fails.        *)

\* The signatures are right, and Store.ID is set; or the pairing is refused.
PairVerifies ==
    /\ pairing = "verify"
    /\ \/ paired' = TRUE /\ pairing' = "save"
       \/ pairing' = "disconnect" /\ UNCHANGED paired
    /\ UNCHANGED <<sock, fs, callback, dying, lock, flagVars, loggedIn, waiting, ready,
                   keepAlive, restart, loops, queue, deleting, user, worldVars>>

\* Save and PutIdentity succeed, and a disconnection is expected on the socket that is
\* still open; or one of them fails, after Save with an attempt to delete.
PairSaves ==
    /\ pairing = "save"
    /\ \/ pairing' = "confirm" /\ ExpectDisconnect("pair") /\ UNCHANGED paired
       \/ pairing' = "disconnect" /\ StoreDelete /\ UNCHANGED flagVars
    /\ UNCHANGED <<sock, fs, callback, dying, lock, loggedIn, waiting, ready, keepAlive,
                   restart, loops, queue, deleting, user, worldVars>>

\* The confirmation needs a socket; without it the device is deleted again.
PairConfirms ==
    /\ pairing = "confirm"
    /\ \/ IsConnected /\ pairing' = "none" /\ UNCHANGED paired
       \/ pairing' = "disconnect" /\ StoreDelete
    /\ UNCHANGED <<sock, fs, callback, dying, lock, flagVars, loggedIn, waiting, ready,
                   keepAlive, restart, loops, queue, deleting, user, worldVars>>

PairDisconnects ==
    /\ pairing = "disconnect"
    /\ Disconnect
    /\ pairing' = "none"
    /\ UNCHANGED <<dying, lock, loggedIn, paired, waiting, ready, keepAlive, restart, loops,
                   queue, deleting, user, worldVars>>

Pair ==
    \/ PairVerifies
    \/ PairSaves
    \/ PairConfirms
    \/ PairDisconnects

-----------------------------------------------------------------------------
(* The user.                                                               *)

UserCalls ==
    /\ bound.calls < MaxUserOps
    /\ bound' = [bound EXCEPT !.calls = @ + 1]
    /\ ~deleting
    /\ lock.by # "user"

\* Connect; with an open socket it returns ErrAlreadyConnected.
UserConnect ==
    /\ UserCalls
    /\ BeginConnect("user")
    /\ user' = "up"
    /\ UNCHANGED <<loggedIn, paired, goroutineVars, queue, deleting, authed, final>>

UserDisconnect ==
    /\ UserCalls
    /\ Disconnect
    /\ user' = "down"
    /\ UNCHANGED <<lock, loggedIn, paired, goroutineVars, queue, deleting, authed, final>>

\* Logout, once the server has agreed: Disconnect, then Store.Delete.
Logout ==
    /\ UserCalls
    /\ paired
    /\ IsConnected
    /\ Disconnect
    /\ user' = "down"
    /\ deleting' = TRUE
    /\ UNCHANGED <<lock, loggedIn, paired, goroutineVars, queue, authed, final>>

LogoutDeletes ==
    /\ deleting
    /\ deleting' = FALSE
    /\ StoreDelete
    /\ UNCHANGED <<sock, fs, callback, lock, flagVars, loggedIn, goroutineVars,
                   queue, user, worldVars>>

-----------------------------------------------------------------------------
\* A client with or without a paired device, before its first Connect.
Init ==
    /\ sock = NoSocket
    /\ fs = [s \in Sockets |-> "none"]
    /\ callback = {}
    /\ dying = {}
    /\ lock = Free
    /\ expected = FALSE
    /\ cause = "none"
    /\ loggedIn = FALSE
    /\ paired \in BOOLEAN
    /\ waiting = 0
    /\ ready = 0
    /\ keepAlive = [s \in Sockets |-> "off"]
    /\ loops = {}
    /\ restart = "none"
    /\ pairing = "none"
    /\ queue = <<>>
    /\ deleting = FALSE
    /\ user = "down"
    /\ authed = {}
    /\ final = {}
    /\ bound = [nodes |-> 0, calls |-> 0]

Next ==
    \/ \E s \in Sockets : \/ ReadPumpEnds(s) \/ OnDisconnect(s)
                         \/ KeepAliveLoop(s) \/ HandlerQueueLoopEnds(s)
    \/ \E s \in Sockets, kind \in NodeKinds : ServerSends(s, kind)
    \/ Attempt
    \/ AutoReconnect
    \/ HandleNode
    \/ RestartDisconnects
    \/ RestartConnects
    \/ Pair
    \/ UserConnect
    \/ UserDisconnect
    \/ Logout
    \/ LogoutDeletes

Spec == Init /\ [][Next]_vars

\* Goroutines that can run do, timers fire, and an attempt comes to an end: the
\* dial and the handshake have timeouts.  The network may refuse every dial.  A
\* pairing runs database statements and one send, which fails without a socket.
Fairness ==
    /\ \A s \in Sockets :
          /\ WF_vars(OnDisconnect(s))
          /\ WF_vars(KeepAliveDisconnects(s))
          /\ WF_vars(KeepAliveReconnects(s))
    /\ WF_vars(Attempt)
    /\ WF_vars(AutoReconnectCancelled \/ AutoReconnectWakes)
    /\ WF_vars(AutoReconnectConnects \/ AutoReconnectNotNeeded)
    /\ WF_vars(RestartDisconnects)
    /\ WF_vars(RestartConnects)
    /\ WF_vars(PairSaves)
    /\ WF_vars(PairDisconnects)

FairSpec == Spec /\ Fairness

-----------------------------------------------------------------------------
(* Properties.                                                             *)

\* Type invariant.
TypeOK ==
    /\ sock \in Sockets \cup {NoSocket}
    /\ fs \in [Sockets -> {"none", "open", "closed"}]
    /\ callback \subseteq Sockets
    /\ dying \subseteq Sockets
    /\ lock \in [by : {"none", "user", "auto", "restart"},
                 phase : {"none", "dial", "handshake", "finish"},
                 s : Sockets \cup {NoSocket}]
    /\ {expected, loggedIn, paired, deleting} \subseteq BOOLEAN
    /\ waiting \in Nat
    /\ ready \in Nat
    /\ keepAlive \in [Sockets -> {"off", "on", "disconnect", "reset"}]
    /\ loops \subseteq Sockets
    /\ restart \in {"none", "disconnect", "connect"}
    /\ pairing \in {"none", "verify", "save", "confirm", "disconnect"}
    /\ cause \in {"none", "call", "node", "pair"}
    /\ queue \in Seq(NodeKinds)
    /\ user \in {"up", "down", "failed"}
    /\ authed \subseteq Sockets
    /\ final \subseteq Sockets
    /\ bound \in [nodes : Nat, calls : Nat]

\* No connection is left open behind the client's back: whatever reconnects,
\* keepalives and user calls race, an open socket is cli.socket or belongs to
\* the attempt in progress, and an attempt starts only when no other is open.
NoOrphanSocket ==
    /\ \A s \in Sockets : fs[s] = "open" => s \in {sock, lock.s}
    /\ lock # Free => sock = NoSocket

\* Somebody is about to reconnect.
Repairing ==
    \/ waiting + ready > 0
    \/ restart # "none"
    \/ lock # Free
    \/ \E s \in Sockets : keepAlive[s] \in {"disconnect", "reset"}

\* A client without a socket that is not meant to be without one is never
\* given up: an autoReconnect loop, a forced reconnect or an attempt exists, or
\* the client is being paired, which ends in an expected disconnection; until a
\* Connect, or the connect after a 515, has returned an error.
NeverAbandoned ==
    sock = NoSocket /\ ~expected /\ paired /\ user = "up"
       => Repairing \/ pairing \in {"save", "disconnect"}

\* The two invariants are inductive together with: socketLock is free or held by
\* an attempt, which has a socket of its own once it has dialled; and a socket
\* whose onDisconnect is on its way is closed.
LockWellFormed ==
    /\ lock # Free => lock.by # "none" /\ lock.phase # "none"
    /\ lock.phase \in {"handshake", "finish"} => lock.s \in Sockets
    /\ lock.phase = "dial" => lock.s = NoSocket

DyingIsClosed == \A s \in dying : fs[s] = "closed"

ConnInv == NoOrphanSocket /\ NeverAbandoned /\ LockWellFormed /\ DyingIsClosed

\* A client that lost its socket does try again, however often it is refused: it is
\* never for good without a socket, an attempt and a reason to be so.
LossRetried ==
    []<>~(sock = NoSocket /\ LockFree /\ ~expected /\ paired /\ user = "up")

\* The flag that a Disconnect leaves behind never meets a connection: whatever
\* keepalives, 515s, failed pairings and user calls set and reset expectedDisconnect,
\* while there is a socket its loss is taken for an expected one, and not repaired,
\* only because of a final node or a pairing handled since the flag was last reset.
\* (The node may be one of an earlier connection, handled late.)
ExpectedHasCause ==
    sock # NoSocket /\ expected => cause \in {"node", "pair"}

\* Nothing is connected or about to connect, and no 515 is left that somebody
\* could act on.
Down ==
    /\ sock = NoSocket
    /\ ~Repairing
    /\ loops = {} \/ \A i \in 1..Len(queue) : queue[i] # "restart515"

\* Disconnect holds once what was under way has come to an end: dying sockets,
\* late nodes and the ends of loops never bring the connection back.  Before
\* that, a reconnect loop that has left its delay connects again.
DisconnectSticks ==
    [][Down /\ user' = "down" => Down']_vars
=============================================================================
