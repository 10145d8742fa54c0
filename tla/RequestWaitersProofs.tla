------------------------- MODULE RequestWaitersProofs -------------------------
(* Proofs about RequestWaiters: type correctness, and the invariants that  *)
(* keep each response channel fed from one place and each caller answered. *)
EXTENDS RequestWaiters, TLAPS

USE DEF Sockets, NoSocket, Nodes, Disconnects, PCs, Ended

-----------------------------------------------------------------------------
(* Type correctness.                                                       *)

LEMMA ChannelNames ==
    ASSUME NEW c, NEW n, NEW d, NEW m
    PROVE  /\ c \in Callers /\ n \in {1, 2} => <<c, n>> \in Channels
           /\ <<c, n>> = <<d, m>> => c = d /\ n = m
BY DEF Channels

LEMMA ClearType ==
    ASSUME TypeOK, NEW node \in Nodes, ClearResponseWaiters(node)
    PROVE  /\ waiters' \in [Callers -> Channels \cup {NoChan}]
           /\ buf' \in [Channels -> Nodes \cup {NoNode}]
           /\ closed' \subseteq Channels
           /\ panic' \in {"none", "send", "close", "nil"}
BY DEF TypeOK, ClearResponseWaiters, Registered

LEMMA NextStepType ==
    ASSUME NEW c \in Callers, NEW node, NEW p \in NextStep(c, node)
    PROVE  p \in {"done", "failed", "reconnect"}
BY DEF NextStep

LEMMA TypeStep == TypeOK /\ [Next]_vars => TypeOK'
<1> SUFFICES ASSUME TypeOK, [Next]_vars PROVE TypeOK'
    OBVIOUS
<1> USE BoundAssumption, ChannelNames DEF TypeOK, callVars, chanVars, netVars, connVars, Chan, Goto
<1>1. ASSUME NEW c \in Callers, Request(c) PROVE TypeOK'
      BY <1>1 DEF Request, WaitResponse
<1>1a. ASSUME NEW c \in Callers, RetryRegister(c) PROVE TypeOK'
      BY <1>1a DEF RetryRegister, WaitResponse
<1>2. ASSUME NEW c \in Callers, GetSocket(c) PROVE TypeOK'
      BY <1>2 DEF GetSocket
<1>2a. ASSUME NEW c \in Callers, RetrySocket(c) PROVE TypeOK'
      BY <1>2a DEF RetrySocket
<1>3. ASSUME NEW c \in Callers, PrepareFails(c) \/ Timeout(c) PROVE TypeOK'
      BY <1>3 DEF PrepareFails, Timeout
<1>4. ASSUME NEW c \in Callers, StartSend(c) \/ SendReturns(c) PROVE TypeOK'
      BY <1>4 DEF StartSend, SendReturns
<1>5. ASSUME NEW c \in Callers, WriteFrame(c) PROVE TypeOK'
  <2>1. write' \in [Callers -> {"none", "pending", "ok", "err"}]
        BY <1>5 DEF WriteFrame
  <2>2. wire' \in [Sockets -> SUBSET Callers]
    <3>1. CASE csock[c] \in alive
      <4>1. wire' = [wire EXCEPT ![csock[c]] = wire[csock[c]] \cup {c}]
            BY <1>5, <3>1 DEF WriteFrame
      <4>2. wire[csock[c]] \cup {c} \in SUBSET Callers
            BY <3>1
      <4>3. QED
            BY <4>1, <4>2
    <3>2. CASE csock[c] \notin alive
          BY <1>5, <3>2 DEF WriteFrame
    <3>3. QED
          BY <3>1, <3>2
  <2>3. QED
        BY <1>5, <2>1, <2>2 DEF WriteFrame
<1>6. ASSUME NEW c \in Callers, Receive(c) PROVE TypeOK'
  <2>1. pc' \in [Callers -> PCs]
    <3>1. PICK p \in PCs : pc' = [pc EXCEPT ![c] = p]
          BY <1>6, NextStepType DEF Receive
    <3>2. QED
          BY <3>1
  <2>2. /\ buf' \in [Channels -> Nodes \cup {NoNode}]
        /\ panic' \in {"none", "send", "close", "nil"}
        BY <1>6 DEF Receive
  <2>3. QED
        BY <1>6, <2>1, <2>2 DEF Receive
<1>7. ASSUME NEW c \in Callers, CancelResponse(c) PROVE TypeOK'
      BY <1>7 DEF CancelResponse
<1>8. ASSUME NEW c \in Callers, WaitForConnection(c) PROVE TypeOK'
      BY <1>8 DEF WaitForConnection
<1>9. ASSUME NEW s \in Sockets, NEW c \in Callers, ReceiveResponse(s, c) PROVE TypeOK'
      BY <1>9 DEF ReceiveResponse
<1>10. ASSUME NEW s \in Sockets, DeliverResponse(s) PROVE TypeOK'
      BY <1>10 DEF DeliverResponse
<1>11. ASSUME NEW s \in Sockets, SocketDies(s) PROVE TypeOK'
      BY <1>11 DEF SocketDies
<1>12. ASSUME NEW s \in Sockets, OnDisconnect(s) PROVE TypeOK'
      BY <1>12, ClearType DEF OnDisconnect
<1>13. CASE Disconnect
      BY <1>13, ClearType DEF Disconnect
<1>14. CASE Connect
  <2>1. /\ waiters' \in [Callers -> Channels \cup {NoChan}]
        /\ buf' \in [Channels -> Nodes \cup {NoNode}]
        /\ closed' \subseteq Channels
        /\ panic' \in {"none", "send", "close", "nil"}
        BY <1>14, ClearType DEF Connect
  <2>2. /\ used' \in 0..MaxSockets
        /\ sock' \in Sockets
        /\ alive' \subseteq Sockets
        BY <1>14 DEF Connect
  <2>3. QED
        BY <1>14, <2>1, <2>2 DEF Connect
<1>15. CASE HandleStreamError
  <2>1. PICK node \in Nodes : ClearResponseWaiters(node)
        BY <1>15 DEF HandleStreamError
  <2>2. loggedIn' \in BOOLEAN
        BY <1>15, Zenon DEF HandleStreamError
  <2>3. errors' \in Nat
        BY <1>15 DEF HandleStreamError
  <2>4. QED
        BY <1>15, <2>1, <2>2, <2>3, ClearType DEF HandleStreamError
<1>16. CASE HandleConnectSuccess
      BY <1>16 DEF HandleConnectSuccess
<1>17. CASE UNCHANGED vars
      BY <1>17 DEF vars
<1>18. QED
      BY <1>1, <1>1a, <1>2, <1>2a, <1>3, <1>4, <1>5, <1>6, <1>7, <1>8, <1>9, <1>10, <1>11,
         <1>12, <1>13, <1>14, <1>15, <1>16, <1>17
      DEF Next, CallerStep, Connection

LEMMA TypeInit == Init => TypeOK
<1> SUFFICES ASSUME Init PROVE TypeOK
    OBVIOUS
<1>1. loggedIn \in BOOLEAN
      BY Zenon DEF Init
<1>2. QED
      BY <1>1, BoundAssumption DEF Init, TypeOK

\* Every reachable state is well typed, for any number of callers and sockets.
THEOREM TypeCorrect == Spec => []TypeOK
BY TypeInit, TypeStep, PTL DEF Spec

-----------------------------------------------------------------------------
(* The waiter invariant.                                                   *)

\* clearResponseWaiters never takes its closing branch: it answers every
\* registered caller.
LEMMA ClearEffect ==
    ASSUME TypeOK, WaiterInv, NEW node \in Nodes, ClearResponseWaiters(node)
    PROVE  /\ closed' = closed
           /\ panic' = panic
           /\ \A c \in Callers : waiters'[c] = NoChan
           /\ \A ch \in Channels : ch \notin Registered => buf'[ch] = buf[ch]
           /\ \A c \in Callers : waiters[c] # NoChan => buf'[Chan(c)] # NoNode
<1>1. \A ch \in Registered : buf[ch] = NoNode /\ ch \notin closed
      BY NilAssumption DEF Registered, WaiterInv, OneDeliverer
<1>2. closed' = closed /\ panic' = panic
      BY <1>1 DEF ClearResponseWaiters
<1>3. \A c \in Callers : waiters'[c] = NoChan
      BY DEF ClearResponseWaiters
<1>4. \A ch \in Channels : ch \notin Registered => buf'[ch] = buf[ch]
      BY DEF ClearResponseWaiters
<1>5. ASSUME NEW c \in Callers, waiters[c] # NoChan
      PROVE  buf'[Chan(c)] # NoNode
  <2>1. waiters[c] = Chan(c) /\ Chan(c) \in Channels
        BY <1>5 DEF WaiterInv, OneDeliverer, TypeOK
  <2>2. Chan(c) \in Registered
        BY <2>1 DEF Registered
  <2>3. QED
        BY <1>1, <2>1, <2>2, NilAssumption DEF ClearResponseWaiters
<1>6. QED
      BY <1>2, <1>3, <1>4, <1>5

\* Clearing the waiters keeps the invariant, whatever becomes of the socket.
LEMMA ClearKeepsInv ==
    ASSUME TypeOK, WaiterInv, NEW node \in Nodes, ClearResponseWaiters(node),
           UNCHANGED <<callVars, netVars>>, alive' \subseteq {sock'}
    PROVE  WaiterInv'
<1> USE ClearEffect
<1>1. /\ pc' = pc /\ att' = att /\ csock' = csock /\ write' = write
      /\ wire' = wire /\ carrying' = carrying
      BY DEF callVars, netVars
<1>2. \A c \in Callers : Chan(c)' = Chan(c) /\ Chan(c) \in Channels
      BY <1>1, ChannelNames DEF Chan, TypeOK
<1>3. \A s \in Sockets : carrying[s] # NoChan =>
         carrying[s] \in Channels /\ carrying[s] \notin Registered
      BY DEF TypeOK, WaiterInv, OneDeliverer, Registered
<1>4. OneDeliverer'
      BY <1>1, <1>2, <1>3 DEF WaiterInv, OneDeliverer
<1>5. \A c \in Callers : Answered(c) \/ waiters[c] = Chan(c) => Answered(c)'
  <2> SUFFICES ASSUME NEW c \in Callers, Answered(c) \/ waiters[c] = Chan(c)
               PROVE  Answered(c)'
      OBVIOUS
  <2>1. CASE waiters[c] # NoChan
        BY <1>2, <2>1 DEF Answered
  <2>2. CASE waiters[c] = NoChan
    <3>1. Chan(c) # NoChan
          BY <1>2, NilAssumption
    <3>2. Chan(c) \notin Registered
      <4> SUFFICES ASSUME NEW d \in Callers, waiters[d] = Chan(c) PROVE FALSE
          BY DEF Registered
      <4>1. waiters[d] = Chan(d)
            BY <3>1 DEF WaiterInv, OneDeliverer
      <4>2. c = d
            BY <4>1, ChannelNames DEF Chan
      <4>3. QED
            BY <4>2, <2>2, <3>1
    <3>3. QED
          BY <1>1, <1>2, <2>2, <3>1, <3>2 DEF Answered
  <2>3. QED
        BY <2>1, <2>2
<1>6. NoStrandedCaller'
      BY <1>1, <1>5 DEF WaiterInv, NoStrandedCaller
<1>7. Tracked'
      BY <1>1, <1>5 DEF WaiterInv, Tracked
<1>8. AttemptsInOrder'
  <2> SUFFICES ASSUME NEW c \in Callers
               PROVE  /\ pc[c] \in {"idle", "getsock", "reconnect", "retrysock", "retryreg"} => att[c] = 1
                      /\ att[c] = 1 => Untouched(<<c, 2>>)'
                      /\ pc[c] = "idle" => Untouched(<<c, 1>>)' /\ waiters'[c] = NoChan
      BY <1>1 DEF AttemptsInOrder
  <2>1. ASSUME NEW n \in {1, 2}, <<c, n>> \in Registered
        PROVE  n = att[c] /\ waiters[c] # NoChan
    <3>1. PICK d \in Callers : waiters[d] = <<c, n>>
          BY <2>1 DEF Registered
    <3>2. waiters[d] # NoChan
          BY <3>1, ChannelNames, NilAssumption
    <3>3. <<c, n>> = <<d, att[d]>>
          BY <3>1, <3>2 DEF WaiterInv, OneDeliverer, Chan
    <3>4. QED
          BY <3>2, <3>3, ChannelNames
  <2>2. \A n \in {1, 2} : <<c, n>> \in Channels
        BY ChannelNames
  <2>3. ASSUME att[c] = 1 PROVE Untouched(<<c, 2>>)'
    <3>1. <<c, 2>> \notin Registered
          BY <2>1, <2>3
    <3>2. Untouched(<<c, 2>>)
          BY <2>3 DEF WaiterInv, AttemptsInOrder
    <3>3. QED
          BY <1>1, <2>2, <3>1, <3>2 DEF Untouched
  <2>4. ASSUME pc[c] = "idle" PROVE Untouched(<<c, 1>>)'
    <3>1. Untouched(<<c, 1>>) /\ waiters[c] = NoChan
          BY <2>4 DEF WaiterInv, AttemptsInOrder
    <3>2. <<c, 1>> \notin Registered
          BY <2>1, <3>1
    <3>3. QED
          BY <1>1, <2>2, <3>1, <3>2 DEF Untouched
  <2>5. QED
        BY <2>3, <2>4 DEF WaiterInv, AttemptsInOrder
<1>9. ClosedMeansFailed' /\ NoNilNoDoubleClose' /\ OpenIsCurrent'
      BY <1>1 DEF WaiterInv, ClosedMeansFailed, NoNilNoDoubleClose, OpenIsCurrent
<1>10. QED
      BY <1>4, <1>6, <1>7, <1>8, <1>9 DEF WaiterInv

\* A step of caller c that leaves the channels and the socket alone keeps the
\* invariant if the new place of c fits.
LEMMA CallerMoves ==
    ASSUME TypeOK, WaiterInv, NEW c \in Callers, NEW p \in PCs \ {"idle"},
           pc[c] # "failed", NEW k, NEW w,
           pc' = [pc EXCEPT ![c] = p],
           csock' = [csock EXCEPT ![c] = k],
           write' = [write EXCEPT ![c] = w],
           UNCHANGED <<waiters, buf, closed, att, carrying, sock, alive, panic>>,
           p \in {"getsock", "reconnect", "retrysock", "retryreg"} => att[c] = 1,
           p \in {"getsock", "send", "sending"} => Answered(c) \/ waiters[c] = Chan(c),
           p = "wait" \/ (p = "sending" /\ w = "ok") =>
              Answered(c) \/ (waiters[c] = Chan(c) /\ k = sock),
           p \in {"send", "sending", "wait", "retryreg"} => k \in Sockets
    PROVE  WaiterInv'
<1>1. \A d \in Callers : Chan(d)' = Chan(d) /\ (Answered(d)' <=> Answered(d))
      BY DEF Chan, Answered
<1>2. /\ pc'[c] = p /\ csock'[c] = k /\ write'[c] = w
      /\ \A d \in Callers \ {c} : pc'[d] = pc[d] /\ csock'[d] = csock[d] /\ write'[d] = write[d]
      BY DEF TypeOK
<1>3. OneDeliverer' /\ NoNilNoDoubleClose' /\ OpenIsCurrent'
      BY <1>1 DEF WaiterInv, OneDeliverer, NoNilNoDoubleClose, OpenIsCurrent
<1>4. NoStrandedCaller'
      BY <1>1, <1>2 DEF WaiterInv, NoStrandedCaller
<1>5. ClosedMeansFailed'
      BY <1>2 DEF WaiterInv, ClosedMeansFailed
<1>6. AttemptsInOrder'
      BY <1>2 DEF WaiterInv, AttemptsInOrder, Untouched
<1>7. Tracked'
      BY <1>1, <1>2 DEF WaiterInv, Tracked
<1>8. QED
      BY <1>3, <1>4, <1>5, <1>6, <1>7 DEF WaiterInv

\* Registering an untouched channel keeps the invariant.
LEMMA RegisterKeepsInv ==
    ASSUME TypeOK, WaiterInv, NEW c \in Callers, NEW n \in {1, 2},
           NEW p \in {"getsock", "send"},
           WaitResponse(c, n), pc' = [pc EXCEPT ![c] = p],
           UNCHANGED <<csock, write, carrying, sock, alive, panic>>,
           pc[c] # "failed", att[c] = 1, Untouched(<<c, n>>),
           p = "getsock" => n = 1,
           p = "send" => csock[c] \in Sockets
    PROVE  WaiterInv'
<1> DEFINE ch == <<c, n>>
<1>1. /\ pc'[c] = p /\ att'[c] = n /\ waiters'[c] = ch /\ buf' = buf /\ closed' = closed
      /\ \A d \in Callers \ {c} : pc'[d] = pc[d] /\ att'[d] = att[d] /\ waiters'[d] = waiters[d]
      BY DEF WaitResponse, TypeOK
<1>2. /\ Chan(c)' = ch
      /\ \A d \in Callers \ {c} : Chan(d)' = Chan(d) /\ Chan(d) # ch
      BY <1>1, ChannelNames DEF Chan
<1>3. ch \in Channels /\ ch # NoChan /\ ch \notin closed
  <2>1. ch \in Channels
        BY ChannelNames
  <2>2. ch \notin closed
        BY DEF WaiterInv, ClosedMeansFailed
  <2>3. QED
        BY <2>1, <2>2, NilAssumption
<1>4. buf[ch] = NoNode /\ \A s \in Sockets : carrying[s] # ch
      BY DEF Untouched
<1>5. OneDeliverer'
  <2>1. ASSUME NEW d \in Callers, waiters'[d] # NoChan
        PROVE  /\ waiters'[d] = Chan(d)'
               /\ buf[Chan(d)'] = NoNode
               /\ Chan(d)' \notin closed
               /\ \A s \in Sockets : carrying[s] # Chan(d)'
    <3>1. CASE d = c
          BY <3>1, <1>1, <1>2, <1>3, <1>4
    <3>2. CASE d # c
          BY <3>2, <2>1, <1>1, <1>2 DEF WaiterInv, OneDeliverer
    <3>3. QED
          BY <3>1, <3>2
  <2>2. QED
        BY <2>1, <1>1 DEF WaiterInv, OneDeliverer
<1>6. \A d \in Callers \ {c} : Answered(d)' <=> Answered(d)
      BY <1>1, <1>2 DEF Answered
<1>7. NoStrandedCaller'
      BY <1>1, <1>2, <1>6 DEF WaiterInv, NoStrandedCaller
<1>8. Tracked'
      BY <1>1, <1>2, <1>6 DEF WaiterInv, Tracked
<1>9. ClosedMeansFailed'
      BY <1>1 DEF WaiterInv, ClosedMeansFailed
<1>10. AttemptsInOrder'
      BY <1>1 DEF WaiterInv, AttemptsInOrder, Untouched
<1>11. NoNilNoDoubleClose' /\ OpenIsCurrent'
      BY DEF WaiterInv, NoNilNoDoubleClose, OpenIsCurrent
<1>12. QED
      BY <1>5, <1>7, <1>8, <1>9, <1>10, <1>11 DEF WaiterInv

LEMMA CancelKeepsInv ==
    ASSUME TypeOK, WaiterInv, NEW c \in Callers, CancelResponse(c)
    PROVE  WaiterInv'
<1> USE DEF CancelResponse, Goto, netVars, connVars
<1>1. /\ pc'[c] = "failed" /\ waiters'[c] = NoChan
      /\ \A d \in Callers \ {c} : pc'[d] = pc[d] /\ waiters'[d] = waiters[d]
      BY DEF TypeOK
<1>2. /\ UNCHANGED <<buf, att, csock, write, carrying, sock, alive>>
      /\ closed' = closed \cup {Chan(c)}
      OBVIOUS
<1>3. \A d \in Callers : Chan(d)' = Chan(d) /\ (Answered(d)' <=> Answered(d))
      BY <1>2 DEF Chan, Answered
<1>4. Chan(c) \notin closed
      BY DEF WaiterInv, ClosedMeansFailed, Chan, TypeOK
<1>5. \A d \in Callers \ {c} : Chan(d) # Chan(c)
      BY ChannelNames DEF Chan
<1>6. OneDeliverer'
      BY <1>1, <1>2, <1>3, <1>5 DEF WaiterInv, OneDeliverer
<1>7. NoNilNoDoubleClose' /\ OpenIsCurrent'
      BY <1>2, <1>4 DEF WaiterInv, NoNilNoDoubleClose, OpenIsCurrent
<1>8. ClosedMeansFailed'
  <2> SUFFICES ASSUME NEW d \in Callers, NEW n \in {1, 2}, <<d, n>> \in closed'
               PROVE  pc'[d] = "failed" /\ att[d] = n
      BY <1>2 DEF ClosedMeansFailed
  <2>1. CASE <<d, n>> \in closed
        BY <1>1, <2>1 DEF WaiterInv, ClosedMeansFailed
  <2>2. CASE <<d, n>> = Chan(c)
        BY <1>1, <2>2, ChannelNames DEF Chan
  <2>3. QED
        BY <1>2, <2>1, <2>2
<1>9. NoStrandedCaller' /\ Tracked'
      BY <1>1, <1>2, <1>3 DEF WaiterInv, NoStrandedCaller, Tracked
<1>10. AttemptsInOrder'
      BY <1>1, <1>2 DEF WaiterInv, AttemptsInOrder, Untouched
<1>11. QED
      BY <1>6, <1>7, <1>8, <1>9, <1>10 DEF WaiterInv

LEMMA ReceiveKeepsInv ==
    ASSUME TypeOK, WaiterInv, NEW c \in Callers, Receive(c)
    PROVE  WaiterInv'
<1> USE DEF netVars, connVars
<1>1. Chan(c) \notin closed /\ Chan(c) \in Channels
      BY ChannelNames DEF Receive, WaiterInv, ClosedMeansFailed, Chan, TypeOK
<1>2. /\ buf[Chan(c)] # NoNode
      /\ buf' = [buf EXCEPT ![Chan(c)] = NoNode]
      /\ UNCHANGED <<waiters, closed, att, csock, write, carrying, sock, alive, panic>>
      BY <1>1 DEF Receive
<1>3. PICK p \in NextStep(c, buf[Chan(c)]) : pc' = [pc EXCEPT ![c] = p]
      BY <1>1 DEF Receive, Goto
<1>4. p \in {"done", "failed", "reconnect"}
      BY NextStepType
<1>5. p = "reconnect" => att[c] = 1
      BY DEF NextStep, TypeOK
<1>6. /\ pc'[c] = p
      /\ \A d \in Callers \ {c} : pc'[d] = pc[d]
      BY <1>3 DEF TypeOK
<1>7. \A ch \in Channels \ {Chan(c)} : buf'[ch] = buf[ch]
      BY <1>1, <1>2 DEF TypeOK
<1>7a. buf'[Chan(c)] = NoNode
      BY <1>1, <1>2 DEF TypeOK
<1>8. \A d \in Callers \ {c} : Chan(d) # Chan(c) /\ Chan(d) \in Channels
      BY ChannelNames DEF Chan, TypeOK
<1>9. \A d \in Callers : Chan(d)' = Chan(d)
      BY <1>2 DEF Chan
<1>10. \A d \in Callers \ {c} : Answered(d)' <=> Answered(d)
      BY <1>2, <1>7, <1>8, <1>9 DEF Answered
<1>11. OneDeliverer'
  <2>1. \A ch \in Channels : buf[ch] = NoNode => buf'[ch] = NoNode
        BY <1>2, <1>7
  <2>2. \A d \in Callers : Chan(d) \in Channels
        BY <1>1, <1>8
  <2>3. \A s \in Sockets : carrying[s] # NoChan => carrying[s] \in Channels
        BY DEF TypeOK
  <2>4. QED
        BY <1>2, <1>9, <2>1, <2>2, <2>3 DEF WaiterInv, OneDeliverer
<1>12. NoNilNoDoubleClose' /\ OpenIsCurrent'
      BY <1>2 DEF WaiterInv, NoNilNoDoubleClose, OpenIsCurrent
<1>13. ClosedMeansFailed'
      BY <1>1, <1>2, <1>6 DEF WaiterInv, ClosedMeansFailed, Chan, Receive
<1>14. NoStrandedCaller' /\ Tracked'
      BY <1>2, <1>4, <1>6, <1>9, <1>10 DEF WaiterInv, NoStrandedCaller, Tracked
<1>15. AttemptsInOrder'
  <2>1. \A ch \in Channels : Untouched(ch) => Untouched(ch)'
        BY <1>2, <1>7, <1>7a DEF Untouched
  <2>2. \A d \in Callers, n \in {1, 2} : <<d, n>> \in Channels
        BY ChannelNames
  <2>3. QED
        BY <1>2, <1>4, <1>5, <1>6, <2>1, <2>2 DEF WaiterInv, AttemptsInOrder
<1>16. QED
      BY <1>11, <1>12, <1>13, <1>14, <1>15 DEF WaiterInv

LEMMA ReceiveResponseKeepsInv ==
    ASSUME TypeOK, WaiterInv, NEW s \in Sockets, NEW c \in Callers, ReceiveResponse(s, c)
    PROVE  WaiterInv'
<1> USE DEF ReceiveResponse, callVars, connVars
<1>1. /\ carrying'[s] = waiters[c] /\ waiters'[c] = NoChan /\ carrying[s] = NoChan
      /\ \A t \in Sockets \ {s} : carrying'[t] = carrying[t]
      /\ \A d \in Callers \ {c} : waiters'[d] = waiters[d]
      BY DEF TypeOK
<1>2. UNCHANGED <<buf, closed, pc, att, csock, write, sock, alive, panic>>
      OBVIOUS
<1>3. \A d \in Callers : Chan(d)' = Chan(d) /\ Chan(d) \in Channels
      BY <1>2, ChannelNames DEF Chan, TypeOK
<1>3a. \A d \in Callers \ {c} : Chan(d) # Chan(c)
      BY ChannelNames DEF Chan
<1>3b. \A d \in Callers : Chan(d) # NoChan
      BY <1>3, NilAssumption
<1>4. OneDeliverer'
  <2>1. ASSUME NEW d \in Callers, waiters'[d] # NoChan
        PROVE  /\ waiters'[d] = Chan(d)
               /\ buf[Chan(d)] = NoNode
               /\ Chan(d) \notin closed
               /\ \A t \in Sockets : carrying'[t] # Chan(d)
    <3>1. d # c /\ waiters[d] # NoChan
          BY <2>1, <1>1
    <3>2. waiters[c] # Chan(d)
          BY <3>1, <1>3, <1>3a, <1>3b DEF WaiterInv, OneDeliverer
    <3>3. QED
          BY <3>1, <3>2, <1>1 DEF WaiterInv, OneDeliverer
  <2>2. ASSUME NEW t \in Sockets, carrying'[t] # NoChan
        PROVE  /\ buf[carrying'[t]] = NoNode
               /\ \A u \in Sockets : carrying'[u] = carrying'[t] => u = t
        BY <2>2, <1>1 DEF WaiterInv, OneDeliverer
  <2>3. QED
        BY <2>1, <2>2, <1>2, <1>3 DEF OneDeliverer
<1>5. \A d \in Callers : Answered(d) => Answered(d)'
      BY <1>1, <1>2, <1>3, <1>3b DEF Answered
<1>6. waiters[c] = Chan(c) => Answered(c)'
      BY <1>1, <1>3 DEF Answered
<1>7. NoStrandedCaller' /\ Tracked'
      BY <1>1, <1>2, <1>3, <1>5, <1>6 DEF WaiterInv, NoStrandedCaller, Tracked
<1>8. AttemptsInOrder'
  <2>1. waiters[c] # NoChan => waiters[c] = <<c, att[c]>> /\ pc[c] # "idle"
        BY DEF WaiterInv, OneDeliverer, AttemptsInOrder, Chan
  <2>2. ASSUME NEW d \in Callers, NEW n \in {1, 2}, Untouched(<<d, n>>),
               d = c => n # att[c] \/ pc[c] = "idle"
        PROVE  Untouched(<<d, n>>)'
    <3>1. waiters[c] # <<d, n>>
          BY <2>1, <2>2, ChannelNames, NilAssumption
    <3>2. QED
          BY <2>2, <3>1, <1>1, <1>2 DEF Untouched
  <2>3. ASSUME NEW d \in Callers
        PROVE  /\ pc'[d] \in {"idle", "getsock", "reconnect", "retrysock", "retryreg"} => att'[d] = 1
               /\ att'[d] = 1 => Untouched(<<d, 2>>)'
               /\ pc'[d] = "idle" => Untouched(<<d, 1>>)' /\ waiters'[d] = NoChan
    <3>1. ASSUME att[d] = 1 PROVE Untouched(<<d, 2>>)'
      <4>1. Untouched(<<d, 2>>)
            BY <3>1 DEF WaiterInv, AttemptsInOrder
      <4>2. d = c => 2 # att[c]
            BY <3>1
      <4>3. QED
            BY <2>2, <4>1, <4>2, Zenon
    <3>2. ASSUME pc[d] = "idle" PROVE Untouched(<<d, 1>>)' /\ waiters'[d] = NoChan
      <4>1. Untouched(<<d, 1>>) /\ waiters[d] = NoChan
            BY <3>2 DEF WaiterInv, AttemptsInOrder
      <4>2. QED
            BY <2>2, <3>2, <4>1, <1>1
    <3>3. pc[d] \in {"idle", "getsock", "reconnect", "retrysock", "retryreg"} => att[d] = 1
          BY DEF WaiterInv, AttemptsInOrder
    <3>4. QED
          BY <3>1, <3>2, <3>3, <1>2
  <2>4. QED
        BY <2>3 DEF AttemptsInOrder
<1>9. NoNilNoDoubleClose' /\ OpenIsCurrent' /\ ClosedMeansFailed'
      BY <1>2 DEF WaiterInv, NoNilNoDoubleClose, OpenIsCurrent, ClosedMeansFailed
<1>10. QED
      BY <1>4, <1>7, <1>8, <1>9 DEF WaiterInv

LEMMA DeliverKeepsInv ==
    ASSUME TypeOK, WaiterInv, NEW s \in Sockets, DeliverResponse(s)
    PROVE  WaiterInv'
<1> USE DEF callVars, connVars
<1>1. CASE carrying[s] \in closed
  <2>1. UNCHANGED <<waiters, buf, closed, pc, att, csock, write, carrying, sock, alive>>
        BY <1>1 DEF DeliverResponse
  <2>2. panic' = "send"
        BY <1>1 DEF DeliverResponse
  <2>3. \A d \in Callers : Chan(d)' = Chan(d) /\ (Answered(d)' <=> Answered(d))
        BY <2>1 DEF Chan, Answered
  <2>4. OneDeliverer' /\ NoStrandedCaller' /\ Tracked'
        BY <2>1, <2>3 DEF WaiterInv, OneDeliverer, NoStrandedCaller, Tracked
  <2>5. ClosedMeansFailed' /\ AttemptsInOrder' /\ OpenIsCurrent'
        BY <2>1 DEF WaiterInv, ClosedMeansFailed, AttemptsInOrder, Untouched, OpenIsCurrent
  <2>6. QED
        BY <2>2, <2>4, <2>5 DEF WaiterInv, NoNilNoDoubleClose
<1>2. CASE carrying[s] \notin closed
  <2> DEFINE ch == carrying[s]
  <2>1. /\ ch # NoChan /\ ch \in Channels
        /\ UNCHANGED <<waiters, closed, pc, att, csock, write, sock, alive, panic>>
        /\ buf' = [buf EXCEPT ![ch] = "answer"]
        /\ carrying' = [carrying EXCEPT ![s] = NoChan]
        BY <1>2 DEF DeliverResponse, TypeOK
  <2>2. /\ buf'[ch] # NoNode
        /\ \A x \in Channels \ {ch} : buf'[x] = buf[x]
        BY <2>1, NilAssumption DEF TypeOK
  <2>3. /\ carrying'[s] = NoChan
        /\ \A t \in Sockets \ {s} : carrying'[t] = carrying[t] /\ carrying[t] # ch
        BY <2>1 DEF TypeOK, WaiterInv, OneDeliverer
  <2>4. \A d \in Callers : Chan(d)' = Chan(d) /\ Chan(d) \in Channels /\ Chan(d) # NoChan
        BY <2>1, ChannelNames, NilAssumption DEF Chan, TypeOK
  <2>5. \A d \in Callers : Answered(d) => Answered(d)'
        BY <2>2, <2>3, <2>4 DEF Answered
  <2>6. OneDeliverer'
    <3>1. ASSUME NEW d \in Callers, waiters[d] # NoChan
          PROVE  /\ waiters[d] = Chan(d)
                 /\ buf'[Chan(d)] = NoNode
                 /\ Chan(d) \notin closed
                 /\ \A t \in Sockets : carrying'[t] # Chan(d)
      <4>1. Chan(d) # ch
            BY <3>1 DEF WaiterInv, OneDeliverer
      <4>2. QED
            BY <3>1, <4>1, <2>2, <2>3, <2>4 DEF WaiterInv, OneDeliverer
    <3>2. ASSUME NEW t \in Sockets, carrying'[t] # NoChan
          PROVE  /\ buf'[carrying'[t]] = NoNode
                 /\ \A u \in Sockets : carrying'[u] = carrying'[t] => u = t
      <4>1. t # s /\ carrying'[t] = carrying[t] /\ carrying[t] \in Channels \ {ch}
            BY <3>2, <2>3 DEF TypeOK
      <4>2. QED
            BY <3>2, <4>1, <2>2, <2>3 DEF WaiterInv, OneDeliverer
    <3>3. QED
          BY <2>1, <2>4, <3>1, <3>2 DEF OneDeliverer
  <2>7. NoStrandedCaller' /\ Tracked'
        BY <2>1, <2>4, <2>5 DEF WaiterInv, NoStrandedCaller, Tracked
  <2>8. AttemptsInOrder'
    <3>1. \A d \in Callers, n \in {1, 2} : Untouched(<<d, n>>) => Untouched(<<d, n>>)'
      <4> SUFFICES ASSUME NEW d \in Callers, NEW n \in {1, 2}, Untouched(<<d, n>>)
                   PROVE  Untouched(<<d, n>>)'
          OBVIOUS
      <4>1. <<d, n>> \in Channels \ {ch}
            BY ChannelNames DEF Untouched
      <4>2. <<d, n>> # NoChan
            BY <4>1, NilAssumption
      <4>3. QED
            BY <4>1, <4>2, <2>2, <2>3 DEF Untouched
    <3>2. QED
          BY <2>1, <3>1 DEF WaiterInv, AttemptsInOrder
  <2>9. ClosedMeansFailed' /\ NoNilNoDoubleClose' /\ OpenIsCurrent'
        BY <2>1 DEF WaiterInv, ClosedMeansFailed, NoNilNoDoubleClose, OpenIsCurrent
  <2>10. QED
        BY <2>6, <2>7, <2>8, <2>9 DEF WaiterInv
<1>3. QED
      BY <1>1, <1>2

\* The steps of the callers that only move on.
LEMMA MovesKeepInv ==
    ASSUME TypeOK, WaiterInv, NEW c \in Callers,
           \/ GetSocket(c) \/ PrepareFails(c) \/ StartSend(c) \/ WriteFrame(c)
           \/ SendReturns(c) \/ Timeout(c) \/ WaitForConnection(c) \/ RetrySocket(c)
    PROVE  WaiterInv'
<1> USE DEF callVars, chanVars, netVars, connVars, Goto
<1> DEFINE Same == UNCHANGED <<waiters, buf, closed, att, carrying, sock, alive, panic>>
<1>0. /\ csock = [csock EXCEPT ![c] = csock[c]]
      /\ write = [write EXCEPT ![c] = write[c]]
      /\ pc = [pc EXCEPT ![c] = pc[c]]
      BY DEF TypeOK
<1>1. CASE GetSocket(c)
  <2>1. PICK p \in {"cancel", "send"} :
           pc' = [pc EXCEPT ![c] = p] /\ (p = "send" => sock # NoSocket)
        BY <1>1 DEF GetSocket
  <2>2. /\ csock' = [csock EXCEPT ![c] = sock] /\ write' = [write EXCEPT ![c] = write[c]]
        /\ pc[c] = "getsock" /\ Same
        BY <1>0, <1>1 DEF GetSocket
  <2>3. Answered(c) \/ waiters[c] = Chan(c)
        BY <2>2 DEF WaiterInv, Tracked
  <2>4. p = "send" => sock \in Sockets
        BY <2>1 DEF TypeOK
  <2>5. QED
        BY <2>1, <2>2, <2>3, <2>4, CallerMoves
<1>2. CASE PrepareFails(c) \/ Timeout(c)
  <2>1. PICK p \in {"cancel", "failed"} : pc' = [pc EXCEPT ![c] = p]
        BY <1>2 DEF PrepareFails, Timeout
  <2>2. /\ csock' = [csock EXCEPT ![c] = csock[c]] /\ write' = [write EXCEPT ![c] = write[c]]
        /\ pc[c] # "failed" /\ Same
        BY <1>0, <1>2 DEF PrepareFails, Timeout
  <2>3. QED
        BY <2>1, <2>2, CallerMoves
<1>3. CASE StartSend(c)
  <2>1. /\ csock' = [csock EXCEPT ![c] = csock[c]] /\ pc[c] = "send" /\ Same
        BY <1>0, <1>3 DEF StartSend
  <2>2. /\ Answered(c) \/ waiters[c] = Chan(c)
        /\ csock[c] \in Sockets
        BY <2>1 DEF WaiterInv, Tracked
  <2>3. CASE ContextDone(c)
    <3>1. pc' = [pc EXCEPT ![c] = "cancel"] /\ write' = [write EXCEPT ![c] = write[c]]
          BY <1>0, <1>3, <2>3 DEF StartSend
    <3>2. QED
          BY <2>1, <3>1, CallerMoves
  <2>4. CASE ~ContextDone(c)
    <3>1. pc' = [pc EXCEPT ![c] = "sending"] /\ write' = [write EXCEPT ![c] = "pending"]
          BY <1>3, <2>4 DEF StartSend
    <3>2. QED
          BY <2>1, <2>2, <3>1, CallerMoves
  <2>5. QED
        BY <2>3, <2>4
<1>4. CASE WriteFrame(c)
  <2>1. PICK w \in {"ok", "err"} :
           write' = [write EXCEPT ![c] = w] /\ (w = "ok" => csock[c] \in alive)
        BY <1>4 DEF WriteFrame
  <2>2. /\ pc' = [pc EXCEPT ![c] = pc[c]] /\ csock' = [csock EXCEPT ![c] = csock[c]]
        /\ Same
        BY <1>0, <1>4 DEF WriteFrame
  <2>3. w = "ok" => csock[c] = sock
        BY <2>1 DEF WaiterInv, OpenIsCurrent
  <2>4. CASE pc[c] \in {"idle", "failed"}
    <3>1. pc' = pc /\ csock' = csock
          BY <1>4 DEF WriteFrame
    <3>2. \A d \in Callers : Chan(d)' = Chan(d) /\ (Answered(d)' <=> Answered(d))
          BY <2>2 DEF Chan, Answered
    <3>3. \A d \in Callers \ {c} : write'[d] = write[d]
          BY <2>1 DEF TypeOK
    <3>4. OneDeliverer' /\ NoStrandedCaller' /\ Tracked'
          BY <2>2, <2>4, <3>1, <3>2, <3>3 DEF WaiterInv, OneDeliverer, NoStrandedCaller, Tracked
    <3>5. /\ NoNilNoDoubleClose' /\ ClosedMeansFailed' /\ AttemptsInOrder'
          /\ OpenIsCurrent'
          BY <2>2, <3>1
          DEF WaiterInv, NoNilNoDoubleClose, ClosedMeansFailed, AttemptsInOrder, Untouched,
              OpenIsCurrent
    <3>6. QED
          BY <3>4, <3>5 DEF WaiterInv
  <2>5. CASE pc[c] \notin {"idle", "failed"}
    <3>1. pc[c] \in PCs \ {"idle"}
          BY <2>5 DEF TypeOK
    <3>2. /\ pc[c] \in {"getsock", "reconnect", "retrysock", "retryreg"} => att[c] = 1
          /\ pc[c] \in {"getsock", "send", "sending"} => Answered(c) \/ waiters[c] = Chan(c)
          /\ pc[c] \in {"send", "sending", "wait", "retryreg"} => csock[c] \in Sockets
          BY DEF WaiterInv, AttemptsInOrder, Tracked
    <3>3. pc[c] = "wait" \/ (pc[c] = "sending" /\ w = "ok") =>
             Answered(c) \/ (waiters[c] = Chan(c) /\ csock[c] = sock)
          BY <2>3, <3>2 DEF WaiterInv, NoStrandedCaller
    <3>4. QED
          BY <2>1, <2>2, <2>5, <3>1, <3>2, <3>3, CallerMoves
  <2>6. QED
        BY <2>4, <2>5
<1>5. CASE SendReturns(c)
  <2>1. PICK p \in {"wait", "cancel"} :
           pc' = [pc EXCEPT ![c] = p] /\ (p = "wait" => write[c] = "ok")
        BY <1>5 DEF SendReturns
  <2>2. /\ csock' = [csock EXCEPT ![c] = csock[c]] /\ write' = [write EXCEPT ![c] = write[c]]
        /\ pc[c] = "sending" /\ Same
        BY <1>0, <1>5 DEF SendReturns
  <2>3. /\ csock[c] \in Sockets
        /\ write[c] = "ok" => Answered(c) \/ (waiters[c] = Chan(c) /\ csock[c] = sock)
        BY <2>2 DEF WaiterInv, Tracked
  <2>4. QED
        BY <2>1, <2>2, <2>3, CallerMoves
<1>6. CASE WaitForConnection(c)
  <2>1. PICK p \in {"retrysock", "failed"} : pc' = [pc EXCEPT ![c] = p]
        BY <1>6 DEF WaitForConnection
  <2>2. /\ csock' = [csock EXCEPT ![c] = csock[c]] /\ write' = [write EXCEPT ![c] = write[c]]
        /\ pc[c] = "reconnect" /\ Same
        BY <1>0, <1>6 DEF WaitForConnection
  <2>3. att[c] = 1
        BY <2>2 DEF WaiterInv, AttemptsInOrder
  <2>4. QED
        BY <2>1, <2>2, <2>3, CallerMoves
<1>7. CASE RetrySocket(c)
  <2>1. PICK p \in {"retryreg", "failed"} :
           pc' = [pc EXCEPT ![c] = p] /\ (p = "retryreg" => sock # NoSocket)
        BY <1>7 DEF RetrySocket
  <2>2. /\ csock' = [csock EXCEPT ![c] = sock] /\ write' = [write EXCEPT ![c] = write[c]]
        /\ pc[c] = "retrysock" /\ Same
        BY <1>0, <1>7 DEF RetrySocket
  <2>3. att[c] = 1 /\ (p = "retryreg" => sock \in Sockets)
        BY <2>1, <2>2 DEF WaiterInv, AttemptsInOrder, TypeOK
  <2>4. QED
        BY <2>1, <2>2, <2>3, CallerMoves
<1>8. QED
      BY <1>1, <1>2, <1>3, <1>4, <1>5, <1>6, <1>7

LEMMA RequestsKeepInv ==
    ASSUME TypeOK, WaiterInv, NEW c \in Callers, Request(c) \/ RetryRegister(c)
    PROVE  WaiterInv'
<1> USE DEF netVars, connVars, Goto
<1>1. CASE Request(c)
  <2>1. att[c] = 1 /\ Untouched(<<c, 1>>)
        BY <1>1 DEF Request, WaiterInv, AttemptsInOrder
  <2>2. QED
        BY <1>1, <2>1, RegisterKeepsInv DEF Request
<1>2. CASE RetryRegister(c)
  <2>1. att[c] = 1 /\ Untouched(<<c, 2>>)
        BY <1>2 DEF RetryRegister, WaiterInv, AttemptsInOrder
  <2>2. csock[c] \in Sockets
        BY <1>2 DEF RetryRegister, WaiterInv, Tracked
  <2>3. QED
        BY <1>2, <2>1, <2>2, RegisterKeepsInv DEF RetryRegister
<1>3. QED
      BY <1>1, <1>2

\* Steps of the connection: most of them clear the waiters.
LEMMA ConnectionKeepsInv ==
    ASSUME TypeOK, WaiterInv, Connection
    PROVE  WaiterInv'
<1>1. ASSUME NEW s \in Sockets, OnDisconnect(s) PROVE WaiterInv'
  <2>1. alive' \subseteq {sock'}
        BY <1>1 DEF OnDisconnect, WaiterInv, OpenIsCurrent
  <2>2. QED
        BY <1>1, <2>1, ClearKeepsInv DEF OnDisconnect
<1>2. CASE Disconnect
  <2>1. alive' \subseteq {sock'}
        BY <1>2 DEF Disconnect, WaiterInv, OpenIsCurrent
  <2>2. QED
        BY <1>2, <2>1, ClearKeepsInv DEF Disconnect
<1>3. CASE HandleStreamError
  <2>1. PICK node \in Nodes : ClearResponseWaiters(node)
        BY <1>3 DEF HandleStreamError
  <2>2. alive' \subseteq {sock'}
        BY <1>3 DEF HandleStreamError, WaiterInv, OpenIsCurrent
  <2>3. QED
        BY <1>3, <2>1, <2>2, ClearKeepsInv DEF HandleStreamError
<1>4. CASE Connect
  <2>1. alive' \subseteq {sock'}
        BY <1>4 DEF Connect, WaiterInv, OpenIsCurrent
  <2>2. CASE sock # NoSocket
        BY <1>4, <2>1, <2>2, ClearKeepsInv DEF Connect
  <2>3. CASE sock = NoSocket
    <3>1. UNCHANGED <<waiters, buf, closed, pc, att, csock, write, carrying, panic>>
          BY <1>4, <2>3 DEF Connect, chanVars, callVars, netVars
    <3>2. \A c \in Callers : Chan(c)' = Chan(c) /\ (Answered(c)' <=> Answered(c))
          BY <3>1 DEF Chan, Answered
    <3>3. \A c \in Callers : pc[c] \in {"sending", "wait"} => csock[c] # sock
      <4>1. \A c \in Callers : pc[c] \in {"sending", "wait"} => csock[c] \in Sockets
            BY DEF WaiterInv, Tracked
      <4>2. QED
            BY <4>1, <2>3
    <3>4. OneDeliverer' /\ NoStrandedCaller' /\ Tracked'
          BY <3>1, <3>2, <3>3 DEF WaiterInv, OneDeliverer, NoStrandedCaller, Tracked
    <3>5. NoNilNoDoubleClose' /\ ClosedMeansFailed' /\ AttemptsInOrder'
          BY <3>1
          DEF WaiterInv, NoNilNoDoubleClose, ClosedMeansFailed, AttemptsInOrder, Untouched
    <3>6. QED
          BY <2>1, <3>4, <3>5 DEF WaiterInv, OpenIsCurrent
  <2>4. QED
        BY <2>2, <2>3
<1>5. ASSUME \/ \E s \in Sockets : SocketDies(s)
             \/ HandleConnectSuccess
      PROVE  WaiterInv'
  <2>1. /\ UNCHANGED <<waiters, buf, closed, pc, att, csock, write, carrying, sock, panic>>
        /\ alive' \subseteq alive
        BY <1>5 DEF SocketDies, HandleConnectSuccess, chanVars, callVars, netVars
  <2>2. \A c \in Callers : Chan(c)' = Chan(c) /\ (Answered(c)' <=> Answered(c))
        BY <2>1 DEF Chan, Answered
  <2>3. OneDeliverer' /\ NoStrandedCaller' /\ Tracked'
        BY <2>1, <2>2 DEF WaiterInv, OneDeliverer, NoStrandedCaller, Tracked
  <2>4. NoNilNoDoubleClose' /\ ClosedMeansFailed' /\ AttemptsInOrder' /\ OpenIsCurrent'
        BY <2>1
        DEF WaiterInv, NoNilNoDoubleClose, ClosedMeansFailed, AttemptsInOrder, Untouched,
            OpenIsCurrent
  <2>5. QED
        BY <2>3, <2>4 DEF WaiterInv
<1>6. QED
      BY <1>1, <1>2, <1>3, <1>4, <1>5 DEF Connection

LEMMA WaiterInit == Init => WaiterInv
<1> SUFFICES ASSUME Init PROVE WaiterInv
    OBVIOUS
<1>1. \A c \in Callers, n \in {1, 2} : <<c, n>> \in Channels /\ <<c, n>> # NoChan
      BY ChannelNames, NilAssumption
<1>2. OneDeliverer /\ NoNilNoDoubleClose /\ NoStrandedCaller
      BY DEF Init, OneDeliverer, NoNilNoDoubleClose, NoStrandedCaller
<1>3. ClosedMeansFailed /\ OpenIsCurrent /\ Tracked
      BY DEF Init, ClosedMeansFailed, OpenIsCurrent, Tracked
<1>4. AttemptsInOrder
      BY <1>1 DEF Init, AttemptsInOrder, Untouched
<1>5. QED
      BY <1>2, <1>3, <1>4 DEF WaiterInv

LEMMA WaiterStep == TypeOK /\ WaiterInv /\ [Next]_vars => WaiterInv'
<1> SUFFICES ASSUME TypeOK, WaiterInv, [Next]_vars PROVE WaiterInv'
    OBVIOUS
<1>1. CASE Next
      BY <1>1, RequestsKeepInv, MovesKeepInv, CancelKeepsInv, ReceiveKeepsInv,
         ReceiveResponseKeepsInv, DeliverKeepsInv, ConnectionKeepsInv
      DEF Next, CallerStep
<1>2. CASE UNCHANGED vars
  <2>1. \A c \in Callers : Chan(c)' = Chan(c) /\ (Answered(c)' <=> Answered(c))
        BY <1>2 DEF vars, Chan, Answered
  <2>2. OneDeliverer' /\ NoStrandedCaller' /\ Tracked'
        BY <1>2, <2>1 DEF vars, WaiterInv, OneDeliverer, NoStrandedCaller, Tracked
  <2>3. NoNilNoDoubleClose' /\ ClosedMeansFailed' /\ AttemptsInOrder' /\ OpenIsCurrent'
        BY <1>2
        DEF vars, WaiterInv, NoNilNoDoubleClose, ClosedMeansFailed, AttemptsInOrder,
            Untouched, OpenIsCurrent
  <2>4. QED
        BY <2>2, <2>3 DEF WaiterInv
<1>3. QED
      BY <1>1, <1>2

\* The conjunction of the waiter invariants holds in every reachable state.
THEOREM WaitersSafe == Spec => []WaiterInv
<1>1. TypeOK /\ WaiterInv /\ [Next]_vars => (TypeOK /\ WaiterInv)'
      BY TypeStep, WaiterStep
<1>2. QED
      BY <1>1, TypeInit, WaiterInit, PTL DEF Spec

\* Whatever the number of callers, sockets and stream errors, each channel is
\* fed from one place: readers never block on it, clearing never closes it.
THEOREM ChannelsFedOnce == Spec => []OneDeliverer
<1>1. WaiterInv => OneDeliverer
      BY DEF WaiterInv
<1>2. QED
      BY <1>1, WaitersSafe, PTL

\* No channel is closed twice and no caller dereferences a nil answer.
THEOREM NoNilResponse == Spec => []NoNilNoDoubleClose
<1>1. WaiterInv => NoNilNoDoubleClose
      BY DEF WaiterInv
<1>2. QED
      BY <1>1, WaitersSafe, PTL

\* No caller is left waiting on a socket that is no longer the client's.
THEOREM CallersTracked == Spec => []NoStrandedCaller
<1>1. WaiterInv => NoStrandedCaller
      BY DEF WaiterInv
<1>2. QED
      BY <1>1, WaitersSafe, PTL
=============================================================================
