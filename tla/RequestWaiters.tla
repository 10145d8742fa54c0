---------------------------- MODULE RequestWaiters ----------------------------
(***************************************************************************)
(* Requests and their answers (request.go, with the callers in send.go,    *)
(* keepalive.go and the places of client.go and connectionevents.go that   *)
(* clear the waiters).                                                     *)
(*                                                                         *)
(* A caller registers a channel of capacity 1 under its request id, writes *)
(* a frame, and waits.  Goroutines that race for that channel: the reader  *)
(* of each socket, which takes the waiter out of the map under the lock    *)
(* and sends on it after unlocking; a disconnect or a stream error, which  *)
(* answers every registered waiter; and the caller, which closes the       *)
(* channel when the write fails or, in SendMessage, when it times out.     *)
(*                                                                         *)
(* Three kinds of caller: "iq" is sendIQ, "msg" is SendMessage, "ping" is  *)
(* sendKeepAlive.  Each makes one request; request ids are unique, so a    *)
(* request is named by its caller.  A step is one critical section, one    *)
(* channel operation or one write.                                         *)
(***************************************************************************)
EXTENDS Naturals, FiniteSets

CONSTANTS
    Callers,        \* the requests
    Kind,           \* caller -> "iq", "msg" or "ping"
    NoChan, NoNode, \* no channel, no node
    MaxSockets,     \* bound: sockets ever connected
    MaxErrors,      \* bound: stream errors received
    MaxRequests     \* bound: callers that make their request

Sockets == 1..MaxSockets
NoSocket == 0
Channels == Callers \X {1, 2}
Disconnects == {"streamend", "streamerror", "autherror"}
Nodes == Disconnects \cup {"answer"}

ASSUME KindAssumption == Kind \in [Callers -> {"iq", "msg", "ping"}]
ASSUME NilAssumption == NoChan \notin Channels /\ NoNode \notin Nodes
ASSUME BoundAssumption == {MaxSockets, MaxErrors, MaxRequests} \subseteq Nat

VARIABLES
    waiters,    \* responseWaiters: request id -> channel
    buf,        \* the node in each channel's buffer
    closed,     \* the closed channels
    pc,         \* where each caller is
    att,        \* its attempt, which names its channel
    csock,      \* the socket it read from cli.socket
    write,      \* its frame: "none", "pending", "ok", "err"
    wire,       \* socket -> requests the server has and has not answered
    carrying,   \* socket -> channel its reader holds between unlock and send
    sock,       \* cli.socket
    alive,      \* sockets whose connection is open
    used,       \* sockets connected so far
    loggedIn,   \* cli.isLoggedIn
    errors,     \* stream errors so far
    panic       \* the runtime panic that ended the process

callVars == <<pc, att, csock, write>>
chanVars == <<waiters, buf, closed>>
netVars == <<wire, carrying>>
connVars == <<sock, alive, used, loggedIn, errors>>
vars == <<waiters, buf, closed, pc, att, csock, write, wire, carrying, sock,
          alive, used, loggedIn, errors, panic>>

Chan(c) == <<c, att[c]>>
Ended == {"done", "failed"}
Goto(c, p) == pc' = [pc EXCEPT ![c] = p]

-----------------------------------------------------------------------------
(* The waiters.                                                            *)

Registered == {ch \in Channels : \E c \in Callers : waiters[c] = ch}

\* Mutant of ClearResponseWaiters: the map is not emptied.
ClearResponseWaitersKeepsMap(node) ==
    /\ buf' = [ch \in Channels |->
                  IF ch \in Registered /\ buf[ch] = NoNode THEN node ELSE buf[ch]]
    /\ closed' = closed \cup {ch \in Registered : buf[ch] # NoNode}
    /\ waiters' = waiters
    /\ panic' = IF Registered \cap closed = {} THEN panic ELSE "send"

\* Mutant of ClearResponseWaiters: the map is set to nil.
ClearResponseWaitersNilMap(node) ==
    /\ buf' = [ch \in Channels |->
                  IF ch \in Registered /\ buf[ch] = NoNode THEN node ELSE buf[ch]]
    /\ closed' = closed \cup {ch \in Registered : buf[ch] # NoNode}
    /\ waiters' = NoChan
    /\ panic' = IF Registered \cap closed = {} THEN panic ELSE "send"

\* Every registered waiter gets the node; one whose buffer is full is closed.
ClearResponseWaiters(node) ==
    /\ buf' = [ch \in Channels |->
                  IF ch \in Registered /\ buf[ch] = NoNode THEN node ELSE buf[ch]]
    /\ closed' = closed \cup {ch \in Registered : buf[ch] # NoNode}
    /\ waiters' = [c \in Callers |-> NoChan]
    /\ panic' = IF Registered \cap closed = {} THEN panic ELSE "send"

\* A new channel for attempt n of request c.
WaitResponse(c, n) ==
    /\ att' = [att EXCEPT ![c] = n]
    /\ waiters' = [waiters EXCEPT ![c] = <<c, n>>]
    /\ UNCHANGED <<buf, closed>>

CancelResponse(c) ==
    /\ pc[c] = "cancel"
    /\ closed' = closed \cup {Chan(c)}
    /\ panic' = IF Chan(c) \in closed THEN "close" ELSE panic
    /\ waiters' = [waiters EXCEPT ![c] = NoChan]
    /\ Goto(c, "failed")
    /\ UNCHANGED <<buf, att, csock, write, netVars, connVars>>

\* Mutant of ReceiveResponse: the waiter stays in the map.
ReceiveResponseKeepsWaiter(s, c) ==
    /\ c \in wire[s]
    /\ carrying[s] = NoChan
    /\ wire' = [wire EXCEPT ![s] = @ \ {c}]
    /\ carrying' = [carrying EXCEPT ![s] = waiters[c]]
    /\ UNCHANGED <<chanVars, callVars, connVars, panic>>

\* receiveResponse on the goroutine that reads socket s, up to its unlock.  An
\* answer nobody waits for goes to the node handlers.
ReceiveResponse(s, c) ==
    /\ c \in wire[s]
    /\ carrying[s] = NoChan
    /\ wire' = [wire EXCEPT ![s] = @ \ {c}]
    /\ carrying' = [carrying EXCEPT ![s] = waiters[c]]
    /\ waiters' = [waiters EXCEPT ![c] = NoChan]
    /\ UNCHANGED <<buf, closed, callVars, connVars, panic>>

\* The rest of receiveResponse: the send, which blocks while the buffer is
\* full and panics on a closed channel.
DeliverResponse(s) ==
    /\ carrying[s] # NoChan
    /\ \/ /\ carrying[s] \in closed
          /\ panic' = "send"
          /\ UNCHANGED <<buf, carrying>>
       \/ /\ carrying[s] \notin closed
          /\ buf[carrying[s]] = NoNode
          /\ buf' = [buf EXCEPT ![carrying[s]] = "answer"]
          /\ carrying' = [carrying EXCEPT ![s] = NoChan]
          /\ UNCHANGED panic
    /\ UNCHANGED <<waiters, closed, wire, callVars, connVars>>

-----------------------------------------------------------------------------
(* The callers.                                                            *)

\* messageSendLock: one SendMessage at a time.
SendLockFree == \A c \in Callers : Kind[c] = "msg" => pc[c] \in Ended \cup {"idle"}

Request(c) ==
    /\ pc[c] = "idle"
    /\ Cardinality({d \in Callers : pc[d] # "idle"}) < MaxRequests
    /\ Kind[c] = "msg" => SendLockFree
    /\ WaitResponse(c, 1)
    /\ Goto(c, "getsock")
    /\ UNCHANGED <<csock, write, netVars, connVars, panic>>

\* sendNodeAndGetData reads cli.socket under its lock.
GetSocket(c) ==
    /\ pc[c] = "getsock"
    /\ csock' = [csock EXCEPT ![c] = sock]
    /\ Goto(c, IF sock = NoSocket THEN "cancel" ELSE "send")
    /\ UNCHANGED <<att, write, chanVars, netVars, connVars, panic>>

\* The request may fail between registering and sending: node marshalling and,
\* in SendMessage, encryption and lookups.
PrepareFails(c) ==
    /\ pc[c] = "getsock"
    /\ Goto(c, "cancel")
    /\ UNCHANGED <<att, csock, write, chanVars, netVars, connVars, panic>>

\* The context of a keepalive is the connection's; the others never end.
ContextDone(c) == Kind[c] = "ping" /\ csock[c] \notin alive

\* NoiseSocket.SendFrame holds writeLock while its goroutine writes.
StartSend(c) ==
    /\ pc[c] = "send"
    /\ \A d \in Callers : ~(pc[d] = "sending" /\ csock[d] = csock[c])
    /\ IF ContextDone(c)
       THEN Goto(c, "cancel") /\ UNCHANGED write
       ELSE Goto(c, "sending") /\ write' = [write EXCEPT ![c] = "pending"]
    /\ UNCHANGED <<att, csock, chanVars, netVars, connVars, panic>>

\* The goroutine of SendFrame: it writes even when SendFrame has returned.
WriteFrame(c) ==
    /\ write[c] = "pending"
    /\ IF csock[c] \in alive
       THEN /\ write' = [write EXCEPT ![c] = "ok"]
            /\ wire' = [wire EXCEPT ![csock[c]] = @ \cup {c}]
       ELSE /\ write' = [write EXCEPT ![c] = "err"]
            /\ UNCHANGED wire
    /\ UNCHANGED <<pc, att, csock, carrying, chanVars, connVars, panic>>

SendReturns(c) ==
    /\ pc[c] = "sending"
    /\ \/ write[c] = "ok" /\ Goto(c, "wait")
       \/ write[c] = "err" /\ Goto(c, "cancel")
       \/ ContextDone(c) /\ Goto(c, "cancel")
    /\ UNCHANGED <<att, csock, write, chanVars, netVars, connVars, panic>>

\* What the caller does with a node: sendKeepAlive takes any for an answer;
\* sendIQ (unless NoRetry) and SendMessage retry once after a disconnection
\* that is not an authentication error.
NextStep(c, node) ==
    IF node = "answer" \/ Kind[c] = "ping" THEN {"done"}
    ELSE IF att[c] = 2 \/ node = "autherror" THEN {"failed"}
    ELSE IF Kind[c] = "iq" THEN {"reconnect", "failed"}
    ELSE {"reconnect"}

\* A closed, empty channel yields nil, which isDisconnectNode dereferences.
Receive(c) ==
    /\ pc[c] = "wait"
    /\ buf[Chan(c)] # NoNode \/ Chan(c) \in closed
    /\ IF buf[Chan(c)] # NoNode
       THEN /\ buf' = [buf EXCEPT ![Chan(c)] = NoNode]
            /\ \E p \in NextStep(c, buf[Chan(c)]) : Goto(c, p)
            /\ UNCHANGED panic
       ELSE /\ panic' = IF Kind[c] = "ping" THEN panic ELSE "nil"
            /\ Goto(c, "done")
            /\ UNCHANGED buf
    /\ UNCHANGED <<waiters, closed, att, csock, write, netVars, connVars>>

\* Mutant of Timeout: retryFrame never has one.
TimeoutOfFirstOnly(c) ==
    /\ pc[c] = "wait"
    /\ att[c] = 1
    /\ Goto(c, IF Kind[c] = "msg" THEN "cancel" ELSE "failed")
    /\ UNCHANGED <<att, csock, write, chanVars, netVars, connVars, panic>>

\* sendIQ and sendKeepAlive leave their waiter behind, SendMessage cancels it;
\* the retry of SendMessage has no timeout.
Timeout(c) ==
    /\ pc[c] = "wait"
    /\ Kind[c] = "msg" => att[c] = 1
    /\ Goto(c, IF Kind[c] = "msg" THEN "cancel" ELSE "failed")
    /\ UNCHANGED <<att, csock, write, chanVars, netVars, connVars, panic>>

\* retryFrame: WaitForConnection, 5 seconds.
WaitForConnection(c) ==
    /\ pc[c] = "reconnect"
    /\ \/ sock \in alive /\ loggedIn /\ Goto(c, "retrysock")
       \/ Goto(c, "failed")
    /\ UNCHANGED <<att, csock, write, chanVars, netVars, connVars, panic>>

RetrySocket(c) ==
    /\ pc[c] = "retrysock"
    /\ csock' = [csock EXCEPT ![c] = sock]
    /\ Goto(c, IF sock = NoSocket THEN "failed" ELSE "retryreg")
    /\ UNCHANGED <<att, write, chanVars, netVars, connVars, panic>>

RetryRegister(c) ==
    /\ pc[c] = "retryreg"
    /\ WaitResponse(c, 2)
    /\ Goto(c, "send")
    /\ UNCHANGED <<csock, write, netVars, connVars, panic>>

CallerStep(c) ==
    \/ GetSocket(c)
    \/ PrepareFails(c)
    \/ StartSend(c)
    \/ WriteFrame(c)
    \/ SendReturns(c)
    \/ Receive(c)
    \/ Timeout(c)
    \/ CancelResponse(c)
    \/ WaitForConnection(c)
    \/ RetrySocket(c)
    \/ RetryRegister(c)

-----------------------------------------------------------------------------
(* The connection, as far as the waiters see it.                           *)

\* The peer or the network ends the connection; FrameSocket.Close follows.
SocketDies(s) ==
    /\ s \in alive
    /\ alive' = alive \ {s}
    /\ UNCHANGED <<chanVars, callVars, netVars, sock, used, loggedIn, errors, panic>>

\* Mutant of OnDisconnect: the waiters are not told.
OnDisconnectForgetsWaiters(s) ==
    /\ sock = s
    /\ s \notin alive
    /\ sock' = NoSocket
    /\ UNCHANGED <<chanVars, callVars, netVars, alive, used, loggedIn, errors, panic>>

OnDisconnect(s) ==
    /\ sock = s
    /\ s \notin alive
    /\ sock' = NoSocket
    /\ ClearResponseWaiters("streamend")
    /\ UNCHANGED <<callVars, netVars, alive, used, loggedIn, errors>>

Disconnect ==
    /\ sock # NoSocket
    /\ alive' = alive \ {sock}
    /\ sock' = NoSocket
    /\ ClearResponseWaiters("streamend")
    /\ UNCHANGED <<callVars, netVars, used, loggedIn, errors>>

\* unlockedConnect: a socket that is no longer connected is disconnected first.
Connect ==
    /\ used < MaxSockets
    /\ sock \notin alive
    /\ sock' = used + 1
    /\ used' = used + 1
    /\ alive' = alive \cup {used + 1}
    /\ IF sock = NoSocket THEN UNCHANGED <<chanVars, panic>>
       ELSE ClearResponseWaiters("streamend")
    /\ UNCHANGED <<callVars, netVars, loggedIn, errors>>

HandleStreamError ==
    /\ errors < MaxErrors
    /\ used > 0
    /\ errors' = errors + 1
    /\ loggedIn' = FALSE
    /\ \E node \in {"streamerror", "autherror"} : ClearResponseWaiters(node)
    /\ UNCHANGED <<callVars, netVars, sock, alive, used>>

HandleConnectSuccess ==
    /\ sock \in alive
    /\ ~loggedIn
    /\ loggedIn' = TRUE
    /\ UNCHANGED <<chanVars, callVars, netVars, sock, alive, used, errors, panic>>

Connection ==
    \/ \E s \in Sockets : SocketDies(s) \/ OnDisconnect(s)
    \/ Disconnect
    \/ Connect
    \/ HandleStreamError
    \/ HandleConnectSuccess

-----------------------------------------------------------------------------
Init ==
    /\ waiters = [c \in Callers |-> NoChan]
    /\ buf = [ch \in Channels |-> NoNode]
    /\ closed = {}
    /\ pc = [c \in Callers |-> "idle"]
    /\ att = [c \in Callers |-> 1]
    /\ csock = [c \in Callers |-> NoSocket]
    /\ write = [c \in Callers |-> "none"]
    /\ wire = [s \in Sockets |-> {}]
    /\ carrying = [s \in Sockets |-> NoChan]
    /\ sock = NoSocket
    /\ alive = {}
    /\ used = 0
    /\ loggedIn = FALSE
    /\ errors = 0
    /\ panic = "none"

Next ==
    /\ panic = "none"
    /\ \/ \E c \in Callers : Request(c) \/ CallerStep(c)
       \/ \E s \in Sockets, c \in Callers : ReceiveResponse(s, c)
       \/ \E s \in Sockets : DeliverResponse(s)
       \/ Connection

Spec == Init /\ [][Next]_vars

\* readPump always ends in Close and onDisconnect; goroutines that can run do;
\* every timer fires.  Nothing obliges the server to answer.
Fairness ==
    /\ WF_vars(panic = "none" /\ \E s \in Sockets : OnDisconnect(s))
    /\ WF_vars(panic = "none" /\ \E s \in Sockets : DeliverResponse(s))
    /\ \A c \in Callers : WF_vars(panic = "none" /\ CallerStep(c))

FairSpec == Spec /\ Fairness

-----------------------------------------------------------------------------
(* Properties that hold.                                                   *)

PCs == {"idle", "getsock", "send", "sending", "wait", "cancel", "reconnect",
        "retrysock", "retryreg", "done", "failed"}

\* Type invariant.
TypeOK ==
    /\ waiters \in [Callers -> Channels \cup {NoChan}]
    /\ buf \in [Channels -> Nodes \cup {NoNode}]
    /\ closed \subseteq Channels
    /\ pc \in [Callers -> PCs]
    /\ att \in [Callers -> {1, 2}]
    /\ csock \in [Callers -> Sockets \cup {NoSocket}]
    /\ write \in [Callers -> {"none", "pending", "ok", "err"}]
    /\ wire \in [Sockets -> SUBSET Callers]
    /\ carrying \in [Sockets -> Channels \cup {NoChan}]
    /\ sock \in Sockets \cup {NoSocket}
    /\ alive \subseteq Sockets
    /\ used \in 0..MaxSockets
    /\ loggedIn \in BOOLEAN
    /\ errors \in Nat
    /\ panic \in {"none", "send", "close", "nil"}

\* Each channel is fed from one place: while it is in responseWaiters it is
\* open, empty and its request's own, and while a reader carries it, it is
\* empty and neither registered nor carried by another reader.  So a reader
\* never blocks on its send, and clearResponseWaiters never takes its closing
\* branch, whose nil answer the callers could not stand.
OneDeliverer ==
    /\ \A c \in Callers : waiters[c] # NoChan =>
          /\ waiters[c] = Chan(c)
          /\ buf[Chan(c)] = NoNode
          /\ Chan(c) \notin closed
          /\ \A s \in Sockets : carrying[s] # Chan(c)
    /\ \A s \in Sockets : carrying[s] # NoChan =>
          /\ buf[carrying[s]] = NoNode
          /\ \A t \in Sockets : carrying[t] = carrying[s] => t = s

\* No channel is closed twice and no caller receives nil: of the panics these
\* races could cause only a send on a closed channel remains.
NoNilNoDoubleClose == panic \in {"none", "send"}

\* The answer of c is in its channel, or its reader is about to put it there.
Answered(c) ==
    \/ buf[Chan(c)] # NoNode
    \/ \E s \in Sockets : carrying[s] = Chan(c)

\* A caller that waits has an answer, has one on the way, or is registered and
\* its frame went out on the socket that is still cli.socket: the disconnection
\* of that socket will answer it.
NoStrandedCaller ==
    \A c \in Callers :
       pc[c] = "wait" => Answered(c) \/ (waiters[c] = Chan(c) /\ csock[c] = sock)

\* What makes the three invariants above inductive: only a failed request has a
\* closed channel; channels of attempts not yet made are untouched; the open
\* socket is cli.socket; and a registered caller stays registered, or gets its
\* answer, all the way from waitResponse to its wait.
ClosedMeansFailed ==
    \A c \in Callers, n \in {1, 2} :
       <<c, n>> \in closed => pc[c] = "failed" /\ att[c] = n

Untouched(ch) == buf[ch] = NoNode /\ \A s \in Sockets : carrying[s] # ch

AttemptsInOrder ==
    \A c \in Callers :
       /\ pc[c] \in {"idle", "getsock", "reconnect", "retrysock", "retryreg"} => att[c] = 1
       /\ att[c] = 1 => Untouched(<<c, 2>>)
       /\ pc[c] = "idle" => Untouched(<<c, 1>>) /\ waiters[c] = NoChan

OpenIsCurrent == alive \subseteq {sock}

Tracked ==
    \A c \in Callers :
       /\ pc[c] \in {"getsock", "send", "sending"} => Answered(c) \/ waiters[c] = Chan(c)
       /\ pc[c] = "sending" /\ write[c] = "ok" =>
             Answered(c) \/ (waiters[c] = Chan(c) /\ csock[c] = sock)
       /\ pc[c] \in {"send", "sending", "wait", "retryreg"} => csock[c] \in Sockets

WaiterInv ==
    /\ OneDeliverer
    /\ NoNilNoDoubleClose
    /\ NoStrandedCaller
    /\ ClosedMeansFailed
    /\ AttemptsInOrder
    /\ OpenIsCurrent
    /\ Tracked

\* Every wait ends, although nothing obliges the server to answer and a timed-out
\* caller may leave its waiter behind.  The exception is the retry of a message
\* while its socket lives: SendMessage passes a zero timeout on.
WaitsEnd ==
    \A c \in Callers :
       []<>(\/ pc[c] # "wait" \/ panic # "none"
            \/ Kind[c] = "msg" /\ att[c] = 2 /\ csock[c] \in alive)

-----------------------------------------------------------------------------
(* A claim of the documentation that the code does not keep.               *)

\* README, "Panic Recovery - 2-layer crash protection, server stays running".
NoPanic == panic = "none"
=============================================================================
