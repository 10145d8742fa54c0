------------------------- MODULE MessageReceiveProofs -------------------------
(***************************************************************************)
(* Proofs about MessageReceive, for any number of messages, copies,        *)
(* connections and faults: what a receipt means, the promise of AtLeastOnce*)
(* kept, one handler at a time, and the bound on retries.                  *)
(***************************************************************************)
EXTENDS MessageReceive, FiniteSetTheorems, TLAPS

USE DEF Answers

-----------------------------------------------------------------------------
(* The invariants.                                                         *)

Active == PCs \ {"off", "done"}

\* A job starts once: what is queued or parked has not started, nothing is there
\* twice, and a stanza is queued at most once per connection.
QueueInv ==
    /\ \A i \in 1..Len(queue) : pc[queue[i]] = "off" /\ queue[i] \notin parked
    /\ \A i, k \in 1..Len(queue) : queue[i] = queue[k] => i = k
    /\ \A j \in parked : pc[j] = "off"

\* What has been delivered on this or an earlier connection.
Delivered(j) == j[2] < epoch \/ (j[2] = epoch /\ Stanza(j) \in delivered)

DeliveryInv ==
    /\ \A i \in 1..Len(queue) : Delivered(queue[i])
    /\ \A j \in parked : Delivered(j)
    /\ \A j \in Jobs : pc[j] # "off" => Delivered(j)

StartInv == \A j \in Jobs : pc[j] \in {"off", "start"} => part[j] = 1

\* Only past and present connections have loops, and another one can follow a
\* lost one.
EpochInv ==
    /\ \A e \in Epochs : e > epoch => loop[e] = "none"
    /\ ~online => epoch < MaxEpochs

\* In order, the only handler at work is the one the first loop waits for.
OrderInv ==
    disorder \/ /\ epoch = 0 /\ parked = {}
                /\ \A j \in Jobs : pc[j] \in Active => loop[0] = "busy" /\ cur[0] = j

\* What counts as done for the receipt.
Settled(p) ==
    p \in handled \cup swallowed \/ (~opt.buffer /\ p \in used)

StanzaSettled(s) == \A p \in PartsOf(s) : Good(p) => Settled(p)

Before(s, n) == \A p \in PartsOf(s) : p[2] < n /\ Good(p) => Settled(p)

\* The handler has settled every part before the one it is at, and at the end all.
JobInv(j) ==
    /\ pc[j] \in {"decrypt", "handle", "clear"} => Before(Stanza(j), part[j])
    /\ pc[j] = "clear" /\ Good(Part(j)) => Part(j) \in handled \cup swallowed
    /\ pc[j] = "end" => StanzaSettled(Stanza(j))

PartsInv == \A j \in Jobs : JobInv(j)

\* A receipt is about to be sent, or has been, for settled stanzas only.
ReceiptInv ==
    /\ \A j \in Jobs : "receipt" \in work[j] => StanzaSettled(Stanza(j))
    /\ \A s \in receipted : StanzaSettled(s)

\* With the buffer, a used key has a row, and an emptied row has been handled if it
\* could be.
BufferInv ==
    /\ \A p \in Parts : opt.buffer /\ p \in used => buf[p] # "none"
    /\ \A p \in Parts : buf[p] = "nil" /\ Good(p) => p \in handled \cup swallowed

\* Without it, a used key has been handled, is being handled, or is lost.
UsedInv ==
    ~opt.buffer => \A p \in used : Good(p) => p \in handled \cup swallowed \cup spoilt \cup InHand

\* Retry receipts that goroutines still have to send.
PendingRetries(m) == {j \in Jobs : Msg(Stanza(j)) = m /\ "retrySend" \in work[j]}

\* Connections and restarts that have begun a new count.
Lives == IF online THEN epoch ELSE epoch + 1

Asked(m) == IF retries[m] < RetryLimit THEN retries[m] ELSE RetryLimit - 1

\* Every copy, and every retry receipt on its way, has been counted.
RetryInv ==
    /\ \A m \in Msgs : copies[m] + Cardinality(PendingRetries(m))
                          <= (RetryLimit - 1) * Lives + Asked(m)
    /\ RetriesBounded

IInv == QueueInv /\ DeliveryInv /\ StartInv /\ EpochInv /\ OrderInv /\ PartsInv
        /\ ReceiptInv /\ BufferInv /\ UsedInv /\ RetryInv

-----------------------------------------------------------------------------
(* Operators and steps.                                                    *)

\* A stanza has at most two parts.
LEMMA NumPartsType == ASSUME NEW s PROVE NumParts(s) \in {0, 1, 2}
BY DEF NumParts

\* The components of a job, and the part it is at.
LEMMA JobParts ==
    ASSUME NEW j \in Jobs, JobTypes
    PROVE  /\ Stanza(j) \in Stanzas /\ j[2] \in Epochs
           /\ Msg(Stanza(j)) \in Msgs
           /\ Part(j) \in Parts
           /\ Part(j)[1] = Stanza(j) /\ Part(j)[2] = part[j]
BY DEF Jobs, Stanzas, Stanza, Msg, Part, Parts, JobTypes

\* The parts of a stanza.
LEMMA PartsOfType ==
    ASSUME NEW s \in Stanzas, NEW p \in PartsOf(s)
    PROVE  p \in Parts /\ p[1] = s /\ p[2] \in 1..NumParts(s) /\ p = <<s, p[2]>>
BY NumPartsType DEF PartsOf, Parts

\* NextPart moves to the next part or to the end.
LEMMA NextPartStep ==
    ASSUME NEW j \in Jobs, JobTypes, NextPart(j)
    PROVE  /\ \E x \in {"decrypt", "end"} : pc' = [pc EXCEPT ![j] = x]
           /\ \E n \in {1, 2} : part' = [part EXCEPT ![j] = n]
<1>1. CASE part[j] < NumParts(Stanza(j))
  <2>1. part[j] + 1 \in {1, 2}
    BY <1>1, NumPartsType DEF JobTypes
  <2> QED BY <1>1, <2>1 DEF NextPart
<1>2. CASE ~(part[j] < NumParts(Stanza(j)))
  <2>1. part = [part EXCEPT ![j] = part[j]] /\ part[j] \in {1, 2}
    BY DEF JobTypes
  <2> QED BY <1>2, <2>1 DEF NextPart
<1> QED BY <1>1, <1>2

\* AfterHandlers does too, or goes on to clear the row.
LEMMA AfterHandlersStep ==
    ASSUME NEW j \in Jobs, JobTypes, AfterHandlers(j)
    PROVE  /\ \E x \in {"decrypt", "end", "clear"} : pc' = [pc EXCEPT ![j] = x]
           /\ \E n \in {1, 2} : part' = [part EXCEPT ![j] = n]
<1>1. CASE Buffered(j)
  <2>1. part = [part EXCEPT ![j] = part[j]] /\ part[j] \in {1, 2}
    BY DEF JobTypes
  <2> QED BY <1>1, <2>1 DEF AfterHandlers
<1>2. CASE ~Buffered(j)
  BY <1>2, NextPartStep DEF AfterHandlers
<1> QED BY <1>1, <1>2

\* What a handler may send other than by counting a retry.
Plain == SUBSET {"ack", "nack", "receipt", "phone", "retry"}

\* What any step of a handler does to its job and leaves alone.
HandlerStep(j) ==
    /\ pc[j] \in Active
    /\ \E x \in PCs \ {"off", "start"} : pc' = [pc EXCEPT ![j] = x]
    /\ \E n \in {1, 2} : part' = [part EXCEPT ![j] = n]
    /\ work' = work \/ \E w \in Plain : work' = [work EXCEPT ![j] = w]
    /\ garbled' \subseteq garbled \cup {j}
    /\ UNCHANGED <<opt, kind, serverVars, queueVars, tally, retries, receipted, disorder>>

\* Every action of a handler is such a step.
LEMMA HandlerSteps ==
    ASSUME NEW j \in Jobs, JobTypes, Handler(j)
    PROVE  HandlerStep(j)
<1> DEFINE SamePart == part = [part EXCEPT ![j] = part[j]] /\ part[j] \in {1, 2}
<1>0. SamePart BY DEF JobTypes
<1>1. CASE HandleEncryptedMessage(j)
  <2>1. Branch(KindOf(j)) \in PCs \ {"off", "start"}
    BY DEF Branch, PCs
  <2>2. FirstSends(KindOf(j)) \in Plain
    BY DEF FirstSends, Plain
  <2> QED BY <1>0, <1>1, <2>1, <2>2 DEF HandleEncryptedMessage, HandlerStep, Active, PCs
<1>2. CASE HandlePlaintextMessage(j)
  BY <1>0, <1>2 DEF HandlePlaintextMessage, HandlerStep, Active, PCs, Plain
<1>3. CASE DecryptBuffered(j)
  <2>1. CASE NextPart(j) /\ UNCHANGED work
    BY <1>3, <2>1, NextPartStep DEF DecryptBuffered, HandlerStep, Active, PCs
  <2>2. CASE DecryptFailed(j)
    BY <1>0, <1>3, <2>2 DEF DecryptBuffered, DecryptFailed, HandlerStep, Active, PCs, Plain
  <2>3. CASE pc' = [pc EXCEPT ![j] = "handle"] /\ UNCHANGED <<part, work>>
    BY <1>0, <1>3, <2>3 DEF DecryptBuffered, HandlerStep, Active, PCs
  <2> QED BY <1>3, <2>1, <2>2, <2>3 DEF DecryptBuffered
<1>4. CASE DecryptOldCounter(j)
  BY <1>4, NextPartStep DEF DecryptOldCounter, HandlerStep, Active, PCs, sendVars
<1>5. CASE Decrypt(j)
  <2>2. CASE DecryptFailed(j)
    BY <1>0, <1>5, <2>2 DEF Decrypt, DecryptFailed, HandlerStep, Active, PCs, Plain
  <2>3. CASE pc' = [pc EXCEPT ![j] = "handle"] /\ UNCHANGED <<part, work>>
    BY <1>0, <1>5, <2>3 DEF Decrypt, HandlerStep, Active, PCs
  <2> QED BY <1>5, <2>2, <2>3 DEF Decrypt
<1>6. CASE DecryptFails(j)
  BY <1>0, <1>6 DEF DecryptFails, DecryptFailed, HandlerStep, Active, PCs, Plain
<1>7. CASE HandleDecryptedMessage(j)
  <2>1. CASE AfterHandlers(j)
    BY <1>7, <2>1, AfterHandlersStep DEF HandleDecryptedMessage, HandlerStep, Active, PCs, sendVars
  <2>2. CASE HandlerFailed(j)
    BY <1>0, <1>7, <2>2 DEF HandleDecryptedMessage, HandlerFailed, HandlerStep, Active, PCs, sendVars
  <2> QED BY <1>7, <2>1, <2>2 DEF HandleDecryptedMessage
<1>8. CASE HandlePlaceholderResend(j)
  <2>1. CASE AfterHandlers(j)
    BY <1>8, <2>1, AfterHandlersStep DEF HandlePlaceholderResend, HandlerStep, Active, PCs, sendVars
  <2>2. CASE HandlerFailed(j)
    BY <1>0, <1>8, <2>2 DEF HandlePlaceholderResend, HandlerFailed, HandlerStep, Active, PCs, sendVars
  <2> QED BY <1>8, <2>1, <2>2 DEF HandlePlaceholderResend
<1>9. CASE UnmarshalFails(j)
  BY <1>9, NextPartStep DEF UnmarshalFails, HandlerStep, Active, PCs, sendVars
<1>10. CASE ClearBufferedEventPlaintext(j)
  BY <1>10, NextPartStep DEF ClearBufferedEventPlaintext, HandlerStep, Active, PCs, sendVars
<1>11. CASE AnswerStanza(j)
  BY <1>0, <1>11 DEF AnswerStanza, Answer, HandlerStep, Active, PCs, Plain
<1>12. CASE DispatchUndecryptable(j)
  BY <1>0, <1>12 DEF DispatchUndecryptable, HandlerStep, Active, PCs, sendVars
<1>13. CASE HandlerReturns(j)
  BY <1>0, <1>13 DEF HandlerReturns, HandlerStep, Active, PCs, sendVars
<1>14. CASE UnhandledType(j)
  BY <1>14, NextPartStep DEF UnhandledType, HandlerStep, Active, PCs, sendVars
<1>15. CASE UnknownVersion(j)
  BY <1>15, AfterHandlersStep DEF UnknownVersion, HandlerStep, Active, PCs, sendVars
<1> QED
  BY <1>1, <1>2, <1>3, <1>4, <1>5, <1>6, <1>7, <1>8, <1>9, <1>10, <1>11, <1>12, <1>13,
     <1>14, <1>15 DEF Handler

\* What any step of a sending goroutine leaves alone.
SenderStep == UNCHANGED <<opt, kind, online, epoch, delivered, queueVars, jobVars, storeVars,
                          faults, eventVars, disorder>>

\* Every action of a sending goroutine is such a step.
LEMMA SenderSteps ==
    ASSUME NEW j, Sender(j)
    PROVE  SenderStep
BY DEF Sender, SendAck, RequestFromPhone, RetryCount, RetrySend, SenderStep, serverVars, sendVars

\* One step of Next, flattened.
NextActions ==
    \/ \E s \in Stanzas : HandleFrame(s)
    \/ \E j \in Jobs : Unpark(j)
    \/ \E e \in Epochs : QueueLoopTakes(e)
    \/ \E e \in Epochs : QueueLoopGoesOn(e)
    \/ \E e \in Epochs : QueueLoopEnds(e)
    \/ Disconnected
    \/ Connect
    \/ Crash
    \/ \E j \in Jobs : Handler(j)
    \/ \E j \in Jobs : Sender(j)

\* Next is the disjunction of its actions.
LEMMA NextSplit == Next => NextActions
BY DEF Next, NextActions, QueueLoop, ConnectionSteps

-----------------------------------------------------------------------------
(* Types.                                                                  *)

\* The server's side and the connection keep their types.
LEMMA ServerTypesStep ==
    ASSUME TypeOK, EpochInv, NextActions
    PROVE  ServerTypes'
<1> USE DEF TypeOK
<1>1. ASSUME NEW s \in Stanzas, HandleFrame(s) PROVE ServerTypes'
  BY <1>1 DEF HandleFrame, ServerTypes
<1>2. ASSUME NEW j \in Jobs, Unpark(j) PROVE ServerTypes'
  BY <1>2 DEF Unpark, ServerTypes, serverVars
<1>3. ASSUME NEW e \in Epochs, QueueLoopTakes(e) \/ QueueLoopGoesOn(e) \/ QueueLoopEnds(e)
      PROVE ServerTypes'
  BY <1>3 DEF QueueLoopTakes, QueueLoopGoesOn, QueueLoopEnds, ServerTypes, serverVars
<1>4. CASE Disconnected \/ Crash
  BY <1>4 DEF Disconnected, Crash, ServerTypes
<1>5. CASE Connect
  <2>1. epoch + 1 \in Epochs
    BY <1>5, BoundAssumption DEF Connect, EpochInv, ServerTypes, Epochs
  <2> QED BY <1>5, <2>1 DEF Connect, ServerTypes
<1>6. ASSUME NEW j \in Jobs, Handler(j) PROVE ServerTypes'
  <2>1. UNCHANGED <<opt, kind, serverVars>>
    BY <1>6, HandlerSteps DEF HandlerStep
  <2> QED BY <2>1 DEF ServerTypes, serverVars
<1>7. ASSUME NEW j \in Jobs, Sender(j) PROVE ServerTypes'
  <2>1. ASSUME NEW w \in Sends, SendAck(j, w) PROVE ServerTypes'
    BY <2>1 DEF SendAck, ServerTypes
  <2>2. CASE RequestFromPhone(j) \/ RetryCount(j)
    BY <2>2 DEF RequestFromPhone, RetryCount, ServerTypes, serverVars
  <2>3. CASE RetrySend(j)
    <3> DEFINE m == Msg(Stanza(j))
               s == <<m, copies[m] + 1>>
    <3>1. m \in Msgs /\ tally[j] \in Nat
      BY JobParts DEF JobTypes
    <3>2. CASE online /\ copies[m] < MaxCopies
      <4>1. copies[m] + 1 \in 0..MaxCopies
        BY <3>1, <3>2, BoundAssumption DEF ServerTypes
      <4>2. s \in Stanzas
        BY <3>1, <4>1 DEF Stanzas
      <4>3. /\ copies' = [copies EXCEPT ![m] = copies[m] + 1]
            /\ count' = [count EXCEPT ![s] = tally[j]]
            /\ inbox' = inbox \cup {s}
            /\ UNCHANGED <<opt, kind, online, epoch, delivered>>
        BY <2>3, <3>2 DEF RetrySend
      <4> HIDE DEF m, s
      <4> QED BY <3>1, <4>1, <4>2, <4>3 DEF ServerTypes
    <3>3. CASE ~(online /\ copies[m] < MaxCopies)
      BY <2>3, <3>3 DEF RetrySend, ServerTypes
    <3> QED BY <3>2, <3>3
  <2> QED BY <1>7, <2>1, <2>2, <2>3 DEF Sender
<1> QED BY <1>1, <1>2, <1>3, <1>4, <1>5, <1>6, <1>7 DEF NextActions

\* The queue and its loops keep their types, the queue its bound.
LEMMA QueueTypesStep ==
    ASSUME TypeOK, EpochInv, NextActions
    PROVE  QueueTypes'
<1> USE DEF TypeOK
<1>0. ASSUME UNCHANGED queueVars PROVE QueueTypes'
  BY <1>0 DEF QueueTypes, queueVars
<1>1. ASSUME NEW s \in Stanzas, HandleFrame(s) PROVE QueueTypes'
  <2>1. <<s, epoch>> \in Jobs
    BY DEF Jobs, ServerTypes
  <2>2. CASE QueueHasRoom
    <3>1. queue' \in Seq(Jobs) /\ Len(queue') <= QueueCap
      BY <1>1, <2>1, <2>2, BoundAssumption DEF HandleFrame, QueueHasRoom, QueueTypes
    <3> QED BY <1>1, <2>2, <3>1 DEF HandleFrame, QueueTypes
  <2>3. CASE ~QueueHasRoom
    BY <1>1, <2>1, <2>3 DEF HandleFrame, QueueTypes
  <2> QED BY <2>2, <2>3
<1>2. ASSUME NEW j \in Jobs, Unpark(j) PROVE QueueTypes'
  <2>1. queue' \in Seq(Jobs) /\ Len(queue') <= QueueCap
    BY <1>2, BoundAssumption DEF Unpark, QueueHasRoom, QueueTypes
  <2> QED BY <1>2, <2>1 DEF Unpark, QueueTypes
<1>3. ASSUME NEW e \in Epochs, QueueLoopTakes(e) PROVE QueueTypes'
  <2>1. Head(queue) \in Jobs /\ Tail(queue) \in Seq(Jobs) /\ Len(Tail(queue)) <= QueueCap
    BY <1>3, BoundAssumption DEF QueueLoopTakes, QueueTypes
  <2>2. Head(queue) # NoJob
    BY <2>1, NoJobAssumption
  <2> QED BY <1>3, <2>1, <2>2 DEF QueueLoopTakes, QueueTypes
<1>4. ASSUME NEW e \in Epochs, QueueLoopGoesOn(e) PROVE QueueTypes'
  BY <1>4 DEF QueueLoopGoesOn, QueueTypes
<1>5. ASSUME NEW e \in Epochs, QueueLoopEnds(e) PROVE QueueTypes'
  BY <1>5 DEF QueueLoopEnds, QueueTypes
<1>6. CASE Disconnected
  BY <1>0, <1>6 DEF Disconnected
<1>7. CASE Connect
  <2>1. epoch + 1 \in Epochs /\ loop[epoch + 1] = "none"
    BY <1>7, BoundAssumption DEF Connect, EpochInv, ServerTypes, Epochs
  <2> QED BY <1>7, <2>1 DEF Connect, QueueTypes
<1>8. CASE Crash
  <2>1. queue' \in Seq(Jobs) /\ Len(queue') <= QueueCap
    BY <1>8, BoundAssumption DEF Crash
  <2> QED BY <1>8, <2>1 DEF Crash, QueueTypes
<1>9. ASSUME NEW j \in Jobs, Handler(j) PROVE QueueTypes'
  BY <1>0, <1>9, HandlerSteps DEF HandlerStep
<1>10. ASSUME NEW j \in Jobs, Sender(j) PROVE QueueTypes'
  BY <1>0, <1>10, SenderSteps DEF SenderStep
<1> QED BY <1>1, <1>2, <1>3, <1>4, <1>5, <1>6, <1>7, <1>8, <1>9, <1>10 DEF NextActions

\* The handlers and what they have to send keep their types.
LEMMA JobTypesStep ==
    ASSUME TypeOK, NextActions
    PROVE  JobTypes'
<1> USE DEF TypeOK
<1>0. ASSUME UNCHANGED <<jobVars, sendVars>> PROVE JobTypes'
  BY <1>0 DEF JobTypes, jobVars, sendVars
<1>1. ASSUME NEW s \in Stanzas, HandleFrame(s) PROVE JobTypes'
  BY <1>0, <1>1 DEF HandleFrame
<1>2. ASSUME NEW j \in Jobs, Unpark(j) PROVE JobTypes'
  BY <1>0, <1>2 DEF Unpark
<1>3. ASSUME NEW e \in Epochs, QueueLoopTakes(e) PROVE JobTypes'
  BY <1>3 DEF QueueLoopTakes, JobTypes, PCs, sendVars
<1>4. ASSUME NEW e \in Epochs, QueueLoopGoesOn(e) \/ QueueLoopEnds(e) PROVE JobTypes'
  BY <1>0, <1>4 DEF QueueLoopGoesOn, QueueLoopEnds
<1>5. CASE Disconnected \/ Connect
  BY <1>0, <1>5 DEF Disconnected, Connect
<1>6. CASE Crash
  BY <1>6 DEF Crash, JobTypes, PCs
<1>7. ASSUME NEW j \in Jobs, Handler(j) PROVE JobTypes'
  <2>1. HandlerStep(j)
    BY <1>7, HandlerSteps
  <2>2. pc' \in [Jobs -> PCs] /\ part' \in [Jobs -> {1, 2}]
    BY <2>1 DEF HandlerStep, JobTypes
  <2>3. garbled' \subseteq Jobs
    BY <2>1 DEF HandlerStep, JobTypes
  <2>4. work' \in [Jobs -> SUBSET Sends]
    <3>1. CASE work' = work
      BY <3>1 DEF JobTypes
    <3>2. ASSUME NEW w \in Plain, work' = [work EXCEPT ![j] = w] PROVE work' \in [Jobs -> SUBSET Sends]
      <4>1. w \in SUBSET Sends
        BY DEF Plain, Sends
      <4> QED BY <3>2, <4>1 DEF JobTypes
    <3> QED BY <2>1, <3>1, <3>2 DEF HandlerStep
  <2> QED BY <2>1, <2>2, <2>3, <2>4 DEF HandlerStep, JobTypes
<1>8. ASSUME NEW j \in Jobs, Sender(j) PROVE JobTypes'
  <2>1. ASSUME NEW w \in Sends, SendAck(j, w) PROVE JobTypes'
    BY <2>1 DEF SendAck, JobTypes, jobVars
  <2>2. CASE RequestFromPhone(j)
    BY <2>2 DEF RequestFromPhone, JobTypes, jobVars
  <2>3. CASE RetryCount(j)
    <3> DEFINE m == Msg(Stanza(j))
               next == IF retries[m] = 0 /\ count[Stanza(j)] > 0 THEN count[Stanza(j)] + 1
                                                                 ELSE retries[m] + 1
               more == IF EnoughRetries(next) THEN {}
                       ELSE IF next = 1 /\ opt.sync THEN {"phone", "retrySend"}
                       ELSE {"retrySend"}
    <3>1. m \in Msgs /\ next \in Nat
      BY JobParts DEF JobTypes, ServerTypes
    <3>2. more \subseteq Sends
      BY DEF Sends
    <3>3. /\ retries' = [retries EXCEPT ![m] = next]
          /\ tally' = [tally EXCEPT ![j] = IF EnoughRetries(next) THEN 0 ELSE next]
          /\ work' = [work EXCEPT ![j] = (work[j] \ {"retry"}) \cup more]
          /\ UNCHANGED jobVars
      BY <2>3 DEF RetryCount
    <3> HIDE DEF m, next, more
    <3> QED BY <3>1, <3>2, <3>3 DEF JobTypes, jobVars
  <2>4. CASE RetrySend(j)
    BY <2>4 DEF RetrySend, JobTypes, jobVars
  <2> QED BY <1>8, <2>1, <2>2, <2>3, <2>4 DEF Sender
<1> QED BY <1>1, <1>2, <1>3, <1>4, <1>5, <1>6, <1>7, <1>8 DEF NextActions

\* What any step of a handler does to the store and to the events.
EventStep(j) ==
    /\ used' = used \/ used' = used \cup {Part(j)}
    /\ buf' = buf \/ \E b \in {"plain", "nil"} : buf' = [buf EXCEPT ![Part(j)] = b]
    /\ handled' = handled \/ handled' = handled \cup {Part(j)}
    /\ swallowed' = swallowed \/ swallowed' = swallowed \cup {Part(j)}
    /\ spoilt' = spoilt \/ spoilt' = spoilt \cup {Part(j)}
    /\ refused' = refused \/ refused' = refused \cup {Stanza(j)}
    /\ reported' = reported \/ reported' = reported \cup {Stanza(j)}
    /\ faults' = faults \/ (faults < MaxFaults /\ faults' = faults + 1)
    /\ UNCHANGED <<receipted, disorder>>

\* Every action of a handler is such a step.
LEMMA EventSteps ==
    ASSUME NEW j \in Jobs, Handler(j)
    PROVE  EventStep(j)
<1> USE DEF EventStep, storeVars, eventVars
<1>1. CASE HandleEncryptedMessage(j)
  BY <1>1 DEF HandleEncryptedMessage
<1>2. CASE HandlePlaintextMessage(j)
  BY <1>2 DEF HandlePlaintextMessage, Dispatched, DispatchPanicked, DispatchFailed
<1>3. CASE DecryptBuffered(j)
  BY <1>3 DEF DecryptBuffered
<1>4. CASE DecryptOldCounter(j)
  BY <1>4 DEF DecryptOldCounter
<1>5. CASE Decrypt(j)
  BY <1>5 DEF Decrypt, PutBufferedEvent
<1>6. CASE DecryptFails(j)
  BY <1>6 DEF DecryptFails
<1>7. CASE HandleDecryptedMessage(j)
  BY <1>7 DEF HandleDecryptedMessage, Dispatched, DispatchPanicked, DispatchFailed
<1>8. CASE HandlePlaceholderResend(j)
  BY <1>8 DEF HandlePlaceholderResend, Dispatched, DispatchPanicked, DispatchFailed
<1>9. CASE UnmarshalFails(j)
  BY <1>9 DEF UnmarshalFails
<1>10. CASE ClearBufferedEventPlaintext(j)
  BY <1>10 DEF ClearBufferedEventPlaintext
<1>11. CASE \/ AnswerStanza(j) \/ DispatchUndecryptable(j) \/ HandlerReturns(j)
            \/ UnhandledType(j) \/ UnknownVersion(j)
  BY <1>11 DEF AnswerStanza, DispatchUndecryptable, HandlerReturns, UnhandledType,
               UnknownVersion
<1> QED
  BY <1>1, <1>2, <1>3, <1>4, <1>5, <1>6, <1>7, <1>8, <1>9, <1>10, <1>11 DEF Handler

\* The store and the events keep their types.
LEMMA EventTypesStep ==
    ASSUME TypeOK, NextActions
    PROVE  EventTypes'
<1> USE DEF TypeOK
<1>0. ASSUME UNCHANGED <<storeVars, faults, eventVars>>, disorder' \in BOOLEAN,
             receipted' \subseteq Stanzas
      PROVE  EventTypes'
  BY <1>0 DEF EventTypes, storeVars, eventVars
<1> receipted \subseteq Stanzas /\ disorder \in BOOLEAN /\ faults \in 0..MaxFaults
  BY DEF EventTypes
<1>1. ASSUME NEW s \in Stanzas, HandleFrame(s) PROVE EventTypes'
  BY <1>0, <1>1 DEF HandleFrame
<1>2. ASSUME NEW j \in Jobs, Unpark(j) PROVE EventTypes'
  BY <1>0, <1>2 DEF Unpark
<1>3. ASSUME NEW e \in Epochs, QueueLoopTakes(e) \/ QueueLoopEnds(e) PROVE EventTypes'
  BY <1>0, <1>3 DEF QueueLoopTakes, QueueLoopEnds
<1>4. ASSUME NEW e \in Epochs, QueueLoopGoesOn(e) PROVE EventTypes'
  <2>1. faults' = faults \/ (faults < MaxFaults /\ faults' = faults + 1)
    BY <1>4 DEF QueueLoopGoesOn
  <2>2. faults' \in 0..MaxFaults
    BY <2>1, BoundAssumption
  <2>3. disorder' \in BOOLEAN
    BY <1>4 DEF QueueLoopGoesOn
  <2> QED BY <1>4, <2>2, <2>3 DEF QueueLoopGoesOn, EventTypes, storeVars, eventVars
<1>5. CASE Disconnected \/ Connect
  BY <1>0, <1>5 DEF Disconnected, Connect
<1>6. CASE Crash
  BY <1>6 DEF Crash, EventTypes, InHand, storeVars
<1>7. ASSUME NEW j \in Jobs, Handler(j) PROVE EventTypes'
  <2>1. EventStep(j) /\ Part(j) \in Parts /\ Stanza(j) \in Stanzas
    BY <1>7, EventSteps, JobParts
  <2>2. faults' \in 0..MaxFaults
    BY <2>1, BoundAssumption DEF EventStep
  <2>3. buf' \in [Parts -> {"none", "plain", "nil"}]
    BY <2>1 DEF EventStep, EventTypes
  <2> QED BY <2>1, <2>2, <2>3 DEF EventStep, EventTypes
<1>8. ASSUME NEW j \in Jobs, Sender(j) PROVE EventTypes'
  <2>1. receipted' \subseteq Stanzas
    BY <1>8, JobParts DEF Sender, SendAck, RequestFromPhone, RetryCount, RetrySend
  <2> QED BY <1>0, <1>8, <2>1, SenderSteps DEF SenderStep
<1> QED BY <1>1, <1>2, <1>3, <1>4, <1>5, <1>6, <1>7, <1>8 DEF NextActions

-----------------------------------------------------------------------------
(* The queue.                                                              *)

\* Connections have loops when they begin, and a lost one can be followed.
LEMMA EpochStep ==
    ASSUME TypeOK, EpochInv, NextActions
    PROVE  EpochInv'
<1> USE DEF TypeOK
<1>a. epoch \in Nat /\ online \in BOOLEAN
  BY DEF ServerTypes, Epochs
<1>0. ASSUME UNCHANGED <<loop, online, epoch>> PROVE EpochInv'
  BY <1>0 DEF EpochInv
<1>1. ASSUME NEW s \in Stanzas, HandleFrame(s) PROVE EpochInv'
  BY <1>0, <1>1 DEF HandleFrame
<1>2. ASSUME NEW j \in Jobs, Unpark(j) PROVE EpochInv'
  BY <1>0, <1>2 DEF Unpark, serverVars
<1>3. ASSUME NEW e \in Epochs, QueueLoopTakes(e) \/ QueueLoopGoesOn(e) \/ QueueLoopEnds(e)
      PROVE EpochInv'
  <2>1. UNCHANGED <<online, epoch>> /\ loop[e] # "none"
    BY <1>3 DEF QueueLoopTakes, QueueLoopGoesOn, QueueLoopEnds, serverVars
  <2>2. \A f \in Epochs : f # e => loop'[f] = loop[f]
    BY <1>3 DEF QueueLoopTakes, QueueLoopGoesOn, QueueLoopEnds, QueueTypes
  <2> QED BY <2>1, <2>2 DEF EpochInv
<1>4. CASE Disconnected
  BY <1>4 DEF Disconnected, queueVars, EpochInv
<1>5. CASE Connect
  BY <1>a, <1>5 DEF Connect, EpochInv, QueueTypes, Epochs
<1>6. CASE Crash
  BY <1>6 DEF Crash, EpochInv
<1>7. ASSUME NEW j \in Jobs, Handler(j) PROVE EpochInv'
  BY <1>0, <1>7, HandlerSteps DEF HandlerStep, queueVars, serverVars
<1>8. ASSUME NEW j \in Jobs, Sender(j) PROVE EpochInv'
  BY <1>0, <1>8, SenderSteps DEF SenderStep, queueVars
<1> QED BY <1>1, <1>2, <1>3, <1>4, <1>5, <1>6, <1>7, <1>8 DEF NextActions

\* A job that is queued, parked or started was delivered, and is not delivered again.
LEMMA DeliveryStep ==
    ASSUME TypeOK, EpochInv, DeliveryInv, NextActions
    PROVE  DeliveryInv'
<1> USE DEF TypeOK
<1>a. epoch \in Nat /\ epoch \in Epochs /\ online \in BOOLEAN /\ queue \in Seq(Jobs)
  BY DEF ServerTypes, Epochs, QueueTypes
<1>b. ASSUME UNCHANGED <<epoch, delivered>>, NEW j, Delivered(j) PROVE Delivered(j)'
  BY <1>b DEF Delivered
<1>0. ASSUME UNCHANGED <<epoch, delivered, queue, parked, pc>> PROVE DeliveryInv'
  BY <1>0 DEF DeliveryInv, Delivered
<1>1. ASSUME NEW s \in Stanzas, HandleFrame(s) PROVE DeliveryInv'
  <2>1. UNCHANGED <<epoch, pc>> /\ delivered' = delivered \cup {s}
    BY <1>1 DEF HandleFrame, jobVars
  <2>2. ASSUME NEW j, Delivered(j) PROVE Delivered(j)'
    BY <2>1, <2>2 DEF Delivered
  <2>3. Delivered(<<s, epoch>>)'
    BY <2>1 DEF Delivered, Stanza
  <2>4. (\A j \in Jobs : pc[j] # "off" => Delivered(j))'
    BY <2>1, <2>2 DEF DeliveryInv
  <2>5. (\A i \in 1..Len(queue) : Delivered(queue[i]))'
    <3>1. CASE queue' = Append(queue, <<s, epoch>>)
      <4>1. <<s, epoch>> \in Jobs
        BY <1>a DEF Jobs
      <4>2. ASSUME NEW i \in 1..Len(queue')
            PROVE  \/ i \in 1..Len(queue) /\ queue'[i] = queue[i]
                   \/ queue'[i] = <<s, epoch>>
        BY <1>a, <3>1, <4>1
      <4> QED BY <2>1, <2>2, <2>3, <4>2 DEF DeliveryInv
    <3>2. CASE queue' = queue
      BY <2>2, <3>2 DEF DeliveryInv
    <3> QED BY <1>1, <3>1, <3>2 DEF HandleFrame
  <2>6. (\A j \in parked : Delivered(j))'
    BY <1>1, <2>2, <2>3 DEF DeliveryInv, HandleFrame
  <2> QED BY <2>4, <2>5, <2>6 DEF DeliveryInv
<1>2. ASSUME NEW j \in Jobs, Unpark(j) PROVE DeliveryInv'
  <2>1. UNCHANGED <<epoch, delivered, pc>> /\ parked' = parked \ {j} /\ queue' = Append(queue, j)
        /\ Delivered(j)
    BY <1>2 DEF Unpark, serverVars, jobVars, DeliveryInv
  <2>2. \A i \in 1..Len(queue') : Delivered(queue'[i])
    BY <1>a, <2>1 DEF DeliveryInv
  <2> QED BY <1>b, <2>1, <2>2 DEF DeliveryInv
<1>3. ASSUME NEW e \in Epochs, QueueLoopTakes(e) PROVE DeliveryInv'
  <2>1. /\ UNCHANGED <<epoch, delivered, parked>> /\ queue # <<>>
        /\ pc' = [pc EXCEPT ![Head(queue)] = "start"] /\ queue' = Tail(queue)
    BY <1>3 DEF QueueLoopTakes, serverVars
  <2>2. Head(queue) = queue[1] /\ 1 \in 1..Len(queue)
    BY <1>a, <2>1
  <2>3. \A j \in Jobs : pc'[j] # "off" => Delivered(j)
    BY <2>1, <2>2 DEF DeliveryInv, JobTypes
  <2>4. \A i \in 1..Len(queue') : Delivered(queue'[i])
    BY <1>a, <2>1 DEF DeliveryInv
  <2> QED BY <1>b, <2>1, <2>3, <2>4 DEF DeliveryInv
<1>4. ASSUME NEW e \in Epochs, QueueLoopGoesOn(e) \/ QueueLoopEnds(e) PROVE DeliveryInv'
  BY <1>0, <1>4 DEF QueueLoopGoesOn, QueueLoopEnds, serverVars, jobVars
<1>5. CASE Disconnected
  BY <1>0, <1>5 DEF Disconnected, queueVars, jobVars
<1>6. CASE Connect
  <2>1. ASSUME NEW j \in Jobs, Delivered(j) PROVE Delivered(j)'
    <3>1. j[2] \in Nat
      BY DEF Jobs, Epochs
    <3> QED BY <1>a, <1>6, <2>1, <3>1 DEF Connect, Delivered
  <2>2. \A i \in 1..Len(queue) : queue[i] \in Jobs
    BY <1>a
  <2>3. UNCHANGED <<queue, parked, pc>> /\ parked \subseteq Jobs
    BY <1>6 DEF Connect, jobVars, QueueTypes
  <2> QED BY <2>1, <2>2, <2>3 DEF DeliveryInv
<1>7. CASE Crash
  <2>1. queue' = <<>> /\ parked' = {} /\ UNCHANGED <<epoch, delivered>>
    BY <1>7 DEF Crash
  <2>2. \A j \in Jobs : pc'[j] # "off" => pc[j] # "off"
    BY <1>7 DEF Crash
  <2>3. Len(queue') = 0
    BY <2>1
  <2> QED BY <1>b, <2>1, <2>2, <2>3 DEF DeliveryInv
<1>8. ASSUME NEW j \in Jobs, Handler(j) PROVE DeliveryInv'
  <2>1. HandlerStep(j)
    BY <1>8, HandlerSteps
  <2>2. UNCHANGED <<epoch, delivered, queue, parked>> /\ pc[j] # "off"
    BY <2>1 DEF HandlerStep, serverVars, queueVars, Active
  <2>3. \A i \in Jobs : i # j => pc'[i] = pc[i]
    BY <2>1 DEF HandlerStep, JobTypes
  <2> QED BY <1>b, <2>2, <2>3 DEF DeliveryInv
<1>9. ASSUME NEW j \in Jobs, Sender(j) PROVE DeliveryInv'
  BY <1>0, <1>9, SenderSteps DEF SenderStep, queueVars, jobVars
<1> QED BY <1>1, <1>2, <1>3, <1>4, <1>5, <1>6, <1>7, <1>8, <1>9 DEF NextActions

\* A job that is not delivered yet is not queued, parked or started.
LEMMA NotYetDelivered ==
    ASSUME DeliveryInv, ServerTypes, NEW s \in Stanzas, s \notin delivered
    PROVE  /\ \A i \in 1..Len(queue) : queue[i] # <<s, epoch>>
           /\ <<s, epoch>> \notin parked
           /\ pc[<<s, epoch>>] = "off"
<1>1. ~Delivered(<<s, epoch>>)
  BY DEF Delivered, Stanza, ServerTypes, Epochs
<1>2. <<s, epoch>> \in Jobs
  BY DEF Jobs, ServerTypes
<1> QED BY <1>1, <1>2 DEF DeliveryInv

\* The elements of a sequence with one more.
LEMMA AppendAt ==
    ASSUME NEW S, NEW q \in Seq(S), NEW x \in S
    PROVE  /\ \A i \in 1..Len(q) : Append(q, x)[i] = q[i]
           /\ Append(q, x)[Len(q) + 1] = x
           /\ \A i \in 1..Len(Append(q, x)) : i \in 1..Len(q) \/ i = Len(q) + 1
OBVIOUS

\* Appending a job that has not started and is not there yet.
LEMMA AppendQueue ==
    ASSUME QueueInv, queue \in Seq(Jobs), NEW j \in Jobs,
           \A i \in 1..Len(queue) : queue[i] # j, pc[j] = "off", j \notin parked',
           queue' = Append(queue, j), UNCHANGED pc, parked' \subseteq parked
    PROVE  QueueInv'
<1>1. /\ \A i \in 1..Len(queue) : queue'[i] = queue[i]
      /\ queue'[Len(queue) + 1] = j
      /\ \A i \in 1..Len(queue') : i \in 1..Len(queue) \/ i = Len(queue) + 1
  BY AppendAt
<1>2. \A i \in 1..Len(queue') : pc[queue'[i]] = "off" /\ queue'[i] \notin parked'
  BY <1>1 DEF QueueInv
<1>3. \A i, k \in 1..Len(queue') : queue'[i] = queue'[k] => i = k
  BY <1>1 DEF QueueInv
<1> QED BY <1>2, <1>3 DEF QueueInv

\* A job is in the queue or parked at most once, and only before it starts.
LEMMA QueueStep ==
    ASSUME TypeOK, DeliveryInv, QueueInv, NextActions
    PROVE  QueueInv'
<1> USE DEF TypeOK
<1>a. epoch \in Epochs /\ queue \in Seq(Jobs) /\ parked \subseteq Jobs
  BY DEF ServerTypes, QueueTypes
<1>0. ASSUME UNCHANGED <<queue, parked, pc>> PROVE QueueInv'
  BY <1>0 DEF QueueInv
<1>1. ASSUME NEW s \in Stanzas, HandleFrame(s) PROVE QueueInv'
  <2>1. s \notin delivered /\ UNCHANGED pc /\ <<s, epoch>> \in Jobs
    BY <1>1, <1>a DEF HandleFrame, jobVars, Jobs
  <2>2. CASE QueueHasRoom
    <3>1. queue' = Append(queue, <<s, epoch>>) /\ parked' = parked
      BY <1>1, <2>2 DEF HandleFrame
    <3> QED BY <1>a, <2>1, <3>1, NotYetDelivered, AppendQueue
  <2>3. CASE ~QueueHasRoom
    <3>1. queue' = queue /\ parked' = parked \cup {<<s, epoch>>}
      BY <1>1, <2>3 DEF HandleFrame
    <3> QED BY <2>1, <3>1, NotYetDelivered DEF QueueInv
  <2> QED BY <2>2, <2>3
<1>2. ASSUME NEW j \in Jobs, Unpark(j) PROVE QueueInv'
  <2>1. j \in parked /\ queue' = Append(queue, j) /\ parked' = parked \ {j} /\ UNCHANGED pc
    BY <1>2 DEF Unpark, jobVars
  <2>2. pc[j] = "off" /\ \A i \in 1..Len(queue) : queue[i] # j
    BY <2>1 DEF QueueInv
  <2> QED BY <1>a, <2>1, <2>2, AppendQueue
<1>3. ASSUME NEW e \in Epochs, QueueLoopTakes(e) PROVE QueueInv'
  <2>1. /\ queue # <<>> /\ queue' = Tail(queue) /\ parked' = parked
        /\ pc' = [pc EXCEPT ![Head(queue)] = "start"]
    BY <1>3 DEF QueueLoopTakes
  <2>2. Head(queue) = queue[1] /\ 1 \in 1..Len(queue)
    BY <1>a, <2>1
  <2>3. ASSUME NEW i \in 1..Len(queue')
        PROVE  i + 1 \in 1..Len(queue) /\ queue'[i] = queue[i + 1] /\ queue'[i] \in Jobs
    BY <1>a, <2>1
  <2>4. \A i \in 1..Len(queue') : queue'[i] # queue[1]
    BY <2>2, <2>3 DEF QueueInv
  <2>5. \A i \in 1..Len(queue') : pc'[queue'[i]] = "off" /\ queue'[i] \notin parked'
    BY <2>1, <2>2, <2>3, <2>4 DEF QueueInv, JobTypes
  <2>6. \A i, k \in 1..Len(queue') : queue'[i] = queue'[k] => i = k
    BY <2>3 DEF QueueInv
  <2>7. \A j \in parked' : pc'[j] = "off"
    BY <1>a, <2>1, <2>2 DEF QueueInv, JobTypes
  <2> QED BY <2>5, <2>6, <2>7 DEF QueueInv
<1>4. ASSUME NEW e \in Epochs, QueueLoopGoesOn(e) \/ QueueLoopEnds(e) PROVE QueueInv'
  BY <1>0, <1>4 DEF QueueLoopGoesOn, QueueLoopEnds, jobVars
<1>5. CASE Disconnected \/ Connect
  BY <1>0, <1>5 DEF Disconnected, Connect, queueVars, jobVars
<1>6. CASE Crash
  <2>1. Len(queue') = 0 /\ parked' = {}
    BY <1>6 DEF Crash
  <2> QED BY <2>1 DEF QueueInv
<1>7. ASSUME NEW j \in Jobs, Handler(j) PROVE QueueInv'
  <2>1. HandlerStep(j)
    BY <1>7, HandlerSteps
  <2>2. UNCHANGED <<queue, parked>> /\ pc[j] # "off"
    BY <2>1 DEF HandlerStep, queueVars, Active
  <2>3. \A i \in Jobs : i # j => pc'[i] = pc[i]
    BY <2>1 DEF HandlerStep, JobTypes
  <2>4. \A i \in 1..Len(queue) : queue[i] \in Jobs
    BY <1>a
  <2> QED BY <1>a, <2>2, <2>3, <2>4 DEF QueueInv
<1>8. ASSUME NEW j \in Jobs, Sender(j) PROVE QueueInv'
  BY <1>0, <1>8, SenderSteps DEF SenderStep, queueVars, jobVars
<1> QED BY <1>1, <1>2, <1>3, <1>4, <1>5, <1>6, <1>7, <1>8 DEF NextActions

\* What a step does to the handler of a job: nothing, or the job is at work and
\* goes on, or it is new and starts, or the process ends.
LEMMA JobSteps ==
    ASSUME TypeOK, QueueInv, NextActions
    PROVE  \/ UNCHANGED <<pc, part>>
           \/ \E j \in Jobs : Handler(j)
           \/ \E j \in Jobs : /\ pc[j] = "off" /\ pc' = [pc EXCEPT ![j] = "start"]
                              /\ UNCHANGED part
           \/ Crash
<1> USE DEF TypeOK
<1>1. ASSUME NEW s \in Stanzas, HandleFrame(s) PROVE UNCHANGED <<pc, part>>
  BY <1>1 DEF HandleFrame, jobVars
<1>2. ASSUME NEW j \in Jobs, Unpark(j) PROVE UNCHANGED <<pc, part>>
  BY <1>2 DEF Unpark, jobVars
<1>3. ASSUME NEW e \in Epochs, QueueLoopTakes(e)
      PROVE  \E j \in Jobs : /\ pc[j] = "off" /\ pc' = [pc EXCEPT ![j] = "start"]
                             /\ UNCHANGED part
  <2>1. queue # <<>> /\ queue \in Seq(Jobs)
    BY <1>3 DEF QueueLoopTakes, QueueTypes
  <2>2. Head(queue) = queue[1] /\ 1 \in 1..Len(queue) /\ queue[1] \in Jobs
    BY <2>1
  <2> QED BY <1>3, <2>2 DEF QueueInv, QueueLoopTakes
<1>4. ASSUME NEW e \in Epochs, QueueLoopGoesOn(e) \/ QueueLoopEnds(e) PROVE UNCHANGED <<pc, part>>
  BY <1>4 DEF QueueLoopGoesOn, QueueLoopEnds, jobVars
<1>5. ASSUME Disconnected \/ Connect PROVE UNCHANGED <<pc, part>>
  BY <1>5 DEF Disconnected, Connect, jobVars
<1>6. ASSUME NEW j \in Jobs, Sender(j) PROVE UNCHANGED <<pc, part>>
  BY <1>6, SenderSteps DEF SenderStep, jobVars
<1> QED BY <1>1, <1>2, <1>3, <1>4, <1>5, <1>6 DEF NextActions

\* A job starts at its first part.
LEMMA StartStep ==
    ASSUME TypeOK, QueueInv, StartInv, NextActions
    PROVE  StartInv'
<1> USE DEF TypeOK
<1>1. CASE UNCHANGED <<pc, part>>
  BY <1>1 DEF StartInv
<1>2. ASSUME NEW j \in Jobs, Handler(j) PROVE StartInv'
  <2>1. HandlerStep(j)
    BY <1>2, HandlerSteps
  <2>2. pc'[j] \notin {"off", "start"}
    BY <2>1 DEF HandlerStep, JobTypes
  <2>3. \A i \in Jobs : i # j => pc'[i] = pc[i] /\ part'[i] = part[i]
    BY <2>1 DEF HandlerStep, JobTypes
  <2> QED BY <2>2, <2>3 DEF StartInv
<1>3. ASSUME NEW j \in Jobs, pc[j] = "off", pc' = [pc EXCEPT ![j] = "start"], UNCHANGED part
      PROVE  StartInv'
  BY <1>3 DEF StartInv, JobTypes
<1>4. CASE Crash
  BY <1>4 DEF Crash, StartInv
<1> QED BY <1>1, <1>2, <1>3, <1>4, JobSteps

\* In order, the only handler at work is the one the first loop waits for.
LEMMA OrderStep ==
    ASSUME TypeOK, EpochInv, OrderInv, NextActions
    PROVE  OrderInv'
<1> USE DEF TypeOK
<1>a. SUFFICES ASSUME disorder' # TRUE PROVE OrderInv'
  BY DEF OrderInv
<1>0. ASSUME UNCHANGED <<epoch, parked, pc, loop, cur, disorder>> PROVE OrderInv'
  BY <1>0 DEF OrderInv
<1>1. ASSUME NEW s \in Stanzas, HandleFrame(s) PROVE OrderInv'
  BY <1>0, <1>1, <1>a DEF HandleFrame, jobVars
<1>2. ASSUME NEW j \in Jobs, Unpark(j) PROVE OrderInv'
  <2>1. UNCHANGED <<epoch, pc, loop, cur, disorder>> /\ parked' \subseteq parked
    BY <1>2 DEF Unpark, serverVars, jobVars
  <2> QED BY <2>1 DEF OrderInv
<1>3. ASSUME NEW e \in Epochs, QueueLoopTakes(e) PROVE OrderInv'
  <2>1. /\ UNCHANGED <<epoch, parked, disorder>> /\ loop[e] = "idle"
        /\ loop' = [loop EXCEPT ![e] = "busy"]
        /\ cur' = [cur EXCEPT ![e] = Head(queue)]
        /\ pc' = [pc EXCEPT ![Head(queue)] = "start"]
    BY <1>3 DEF QueueLoopTakes, serverVars
  <2>2. /\ epoch = 0 /\ parked = {}
        /\ \A j \in Jobs : pc[j] \in Active => loop[0] = "busy" /\ cur[0] = j
    BY <1>a, <2>1 DEF OrderInv, EventTypes
  <2>3. e = 0
    BY <2>1, <2>2 DEF EpochInv, Epochs
  <2>4. \A j \in Jobs : pc[j] \notin Active
    BY <2>1, <2>2, <2>3
  <2>5. loop'[0] = "busy" /\ cur'[0] = Head(queue)
    BY <2>1, <2>3 DEF QueueTypes
  <2>6. \A j \in Jobs : pc'[j] \in Active => j = Head(queue)
    BY <2>1, <2>4 DEF JobTypes
  <2> QED BY <2>1, <2>2, <2>5, <2>6 DEF OrderInv
<1>4. ASSUME NEW e \in Epochs, QueueLoopGoesOn(e) PROVE OrderInv'
  <2>1. UNCHANGED <<epoch, parked, pc, disorder>> /\ loop[e] = "busy" /\ DoneChan(e)
    BY <1>4, <1>a DEF QueueLoopGoesOn, serverVars, jobVars
  <2>2. /\ epoch = 0 /\ parked = {}
        /\ \A j \in Jobs : pc[j] \in Active => loop[0] = "busy" /\ cur[0] = j
    BY <1>a, <2>1 DEF OrderInv, EventTypes
  <2>3. e = 0
    BY <2>1, <2>2 DEF EpochInv, Epochs
  <2>4. \A j \in Jobs : pc[j] \notin Active
    BY <2>1, <2>2, <2>3 DEF DoneChan, Active
  <2> QED BY <2>1, <2>2, <2>4 DEF OrderInv
<1>5. ASSUME NEW e \in Epochs, QueueLoopEnds(e) PROVE OrderInv'
  <2>1. UNCHANGED <<epoch, parked, pc, cur, disorder>> /\ loop[e] = "idle"
        /\ loop' = [loop EXCEPT ![e] = "ended"]
    BY <1>5 DEF QueueLoopEnds, serverVars, jobVars
  <2>2. loop[0] = "busy" => loop'[0] = "busy"
    BY <2>1 DEF QueueTypes
  <2> QED BY <2>1, <2>2 DEF OrderInv
<1>6. CASE Disconnected
  BY <1>0, <1>6 DEF Disconnected, queueVars, jobVars
<1>7. CASE Connect
  BY <1>7, <1>a DEF Connect
<1>8. CASE Crash
  <2>1. UNCHANGED <<epoch, disorder>> /\ parked' = {}
    BY <1>8 DEF Crash
  <2>2. \A j \in Jobs : pc'[j] \notin Active
    BY <1>8 DEF Crash, Active
  <2> QED BY <2>1, <2>2 DEF OrderInv
<1>9. ASSUME NEW j \in Jobs, Handler(j) PROVE OrderInv'
  <2>1. HandlerStep(j)
    BY <1>9, HandlerSteps
  <2>2. UNCHANGED <<epoch, parked, loop, cur, disorder>> /\ pc[j] \in Active
    BY <2>1 DEF HandlerStep, serverVars, queueVars
  <2>3. \A i \in Jobs : i # j => pc'[i] = pc[i]
    BY <2>1 DEF HandlerStep, JobTypes
  <2> QED BY <2>2, <2>3 DEF OrderInv
<1>10. ASSUME NEW j \in Jobs, Sender(j) PROVE OrderInv'
  BY <1>0, <1>10, SenderSteps DEF SenderStep, queueVars, jobVars
<1> QED BY <1>1, <1>2, <1>3, <1>4, <1>5, <1>6, <1>7, <1>8, <1>9, <1>10 DEF NextActions

-----------------------------------------------------------------------------
(* What a receipt covers.                                                  *)

\* The settings and kinds never change, keys stay used and events stay handled.
LEMMA Monotone ==
    ASSUME TypeOK, NextActions
    PROVE  /\ UNCHANGED <<opt, kind>>
           /\ used \subseteq used' /\ handled \subseteq handled'
           /\ swallowed \subseteq swallowed' /\ spoilt \subseteq spoilt'
<1> USE DEF TypeOK, storeVars, eventVars
<1>1. ASSUME NEW s \in Stanzas, HandleFrame(s) PROVE UNCHANGED <<opt, kind, storeVars, eventVars>>
  BY <1>1 DEF HandleFrame
<1>2. ASSUME NEW j \in Jobs, Unpark(j) PROVE UNCHANGED <<opt, kind, storeVars, eventVars>>
  BY <1>2 DEF Unpark
<1>3. ASSUME NEW e \in Epochs, QueueLoopTakes(e) \/ QueueLoopGoesOn(e) \/ QueueLoopEnds(e)
      PROVE UNCHANGED <<opt, kind, storeVars, eventVars>>
  BY <1>3 DEF QueueLoopTakes, QueueLoopGoesOn, QueueLoopEnds
<1>4. ASSUME Disconnected \/ Connect PROVE UNCHANGED <<opt, kind, storeVars, eventVars>>
  BY <1>4 DEF Disconnected, Connect
<1>5. ASSUME Crash PROVE UNCHANGED <<opt, kind, storeVars, handled, swallowed>> /\ spoilt \subseteq spoilt'
  BY <1>5 DEF Crash
<1>6. ASSUME NEW j \in Jobs, Handler(j)
      PROVE  /\ UNCHANGED <<opt, kind>>
             /\ used \subseteq used' /\ handled \subseteq handled'
             /\ swallowed \subseteq swallowed' /\ spoilt \subseteq spoilt'
  BY <1>6, HandlerSteps, EventSteps DEF HandlerStep, EventStep
<1>7. ASSUME NEW j \in Jobs, Sender(j) PROVE UNCHANGED <<opt, kind, storeVars, eventVars>>
  BY <1>7, SenderSteps DEF SenderStep
<1> QED BY <1>1, <1>2, <1>3, <1>4, <1>5, <1>6, <1>7 DEF NextActions

\* What is settled stays settled.
LEMMA SettledStays ==
    ASSUME TypeOK, NextActions
    PROVE  /\ \A p : Good(p)' = Good(p)
           /\ \A s : NumParts(s)' = NumParts(s) /\ PartsOf(s)' = PartsOf(s)
           /\ \A p : Settled(p) => Settled(p)'
           /\ \A s : StanzaSettled(s) => StanzaSettled(s)'
           /\ \A s, n : Before(s, n) => Before(s, n)'
<1>0. /\ UNCHANGED <<opt, kind>>
      /\ used \subseteq used' /\ handled \subseteq handled' /\ swallowed \subseteq swallowed'
  BY Monotone
<1>1. \A p : Good(p)' = Good(p)
  BY <1>0 DEF Good, BadPadding, Garbled, Msg
<1>2. \A s : NumParts(s)' = NumParts(s) /\ PartsOf(s)' = PartsOf(s)
  BY <1>0 DEF NumParts, PartsOf, Msg
<1>3. \A p : Settled(p) => Settled(p)'
  BY <1>0 DEF Settled
<1>4. \A s : StanzaSettled(s) => StanzaSettled(s)'
  BY <1>1, <1>2, <1>3 DEF StanzaSettled
<1>5. \A s, n : Before(s, n) => Before(s, n)'
  BY <1>1, <1>2, <1>3 DEF Before
<1> QED BY <1>1, <1>2, <1>3, <1>4, <1>5

\* When the part is settled, NextPart leads to a part before which all are.
LEMMA PartDone ==
    ASSUME TypeOK, NextActions, NEW j \in Jobs, NextPart(j), Before(Stanza(j), part[j]),
           NEW q, q = Part(j), Good(q) => Settled(q)'
    PROVE  JobInv(j)'
<1> USE DEF TypeOK
<1> DEFINE s == Stanza(j)
<1>0. /\ s \in Stanzas /\ q = <<s, part[j]>> /\ NumParts(s) \in {0, 1, 2} /\ part[j] \in {1, 2}
  BY JobParts, NumPartsType DEF Part, JobTypes
<1>1. /\ Before(s, part[j])
      /\ \A p : Good(p)' = Good(p)
      /\ \A p : Settled(p) => Settled(p)'
      /\ NumParts(s)' = NumParts(s) /\ PartsOf(s)' = PartsOf(s)
  BY SettledStays
<1>2. ASSUME NEW p \in PartsOf(s), Good(p), p[2] < part[j] \/ p[2] = part[j]
      PROVE  Settled(p)'
  <2>1. CASE p[2] < part[j]
    BY <1>1, <1>2, <2>1 DEF Before
  <2>2. CASE p[2] = part[j]
    <3>1. p = q
      BY <1>0, <2>2, PartsOfType
    <3> QED BY <1>2, <3>1
  <2> QED BY <1>2, <2>1, <2>2
<1>3. CASE part[j] < NumParts(s)
  <2>1. pc'[j] = "decrypt" /\ part'[j] = part[j] + 1
    BY <1>3 DEF NextPart, JobTypes
  <2>2. ASSUME NEW p \in PartsOf(s), Good(p), p[2] < part[j] + 1 PROVE Settled(p)'
    <3>1. p[2] \in Nat
      BY <1>0, PartsOfType
    <3>2. p[2] < part[j] \/ p[2] = part[j]
      BY <1>0, <2>2, <3>1
    <3> QED BY <1>2, <2>2, <3>2
  <2>3. Before(s, part[j])'
    BY <1>1, <2>1, <2>2 DEF Before
  <2> QED BY <2>1, <2>3 DEF JobInv
<1>4. CASE ~(part[j] < NumParts(s))
  <2>1. pc'[j] = "end"
    BY <1>4 DEF NextPart, JobTypes
  <2>2. ASSUME NEW p \in PartsOf(s), Good(p) PROVE Settled(p)'
    <3>1. p[2] \in 1..NumParts(s)
      BY <1>0, PartsOfType
    <3>2. p[2] < part[j] \/ p[2] = part[j]
      BY <1>0, <1>4, <3>1
    <3> QED BY <1>2, <2>2, <3>2
  <2>3. StanzaSettled(s)'
    BY <1>1, <2>2 DEF StanzaSettled
  <2> QED BY <2>1, <2>3 DEF JobInv
<1> QED BY <1>3, <1>4

\* After the handlers have had the part, too.
LEMMA PartHandled ==
    ASSUME TypeOK, NextActions, NEW j \in Jobs, AfterHandlers(j), Before(Stanza(j), part[j]),
           NEW q, q = Part(j), Good(q) => q \in handled' \cup swallowed'
    PROVE  JobInv(j)'
<1> USE DEF TypeOK
<1>1. Good(q) => Settled(q)'
  BY DEF Settled
<1>2. CASE Buffered(j)
  <2>1. pc'[j] = "clear" /\ part' = part
    BY <1>2 DEF AfterHandlers, JobTypes
  <2>2. Part(j)' = q
    BY <2>1 DEF Part
  <2>5. Good(Part(j))' => Part(j)' \in handled' \cup swallowed'
    BY <2>2, SettledStays
  <2>3. \A p : p \in PartsOf(Stanza(j)) /\ p[2] < part[j] /\ Good(p) => Settled(p)'
    BY SettledStays DEF Before
  <2>4. Before(Stanza(j), part[j])'
    BY <2>1, <2>3, SettledStays DEF Before
  <2> QED BY <2>1, <2>2, <2>4, <2>5 DEF JobInv
<1>3. CASE ~Buffered(j)
  BY <1>1, <1>3, PartDone DEF AfterHandlers
<1> QED BY <1>2, <1>3

\* A handler settles the parts of its stanza in order.
LEMMA PartsStep ==
    ASSUME TypeOK, QueueInv, StartInv, BufferInv, PartsInv, NextActions
    PROVE  PartsInv'
<1> USE DEF TypeOK
<1>a. ASSUME NEW i \in Jobs, pc'[i] = pc[i], part'[i] = part[i] PROVE JobInv(i)'
  <2>1. JobInv(i)
    BY DEF PartsInv
  <2>2. pc'[i] \in {"decrypt", "handle", "clear"} => Before(Stanza(i), part[i])'
    <3>1. CASE pc[i] \in {"decrypt", "handle", "clear"}
      <4>1. Before(Stanza(i), part[i])
        BY <2>1, <3>1 DEF JobInv
      <4>2. \A p : p \in PartsOf(Stanza(i)) /\ p[2] < part[i] /\ Good(p) => Settled(p)'
        BY <4>1, SettledStays DEF Before
      <4> QED BY <1>a, <4>2, SettledStays DEF Before
    <3> QED BY <1>a, <3>1
  <2>3. pc'[i] = "clear" /\ Good(Part(i))' => Part(i)' \in handled' \cup swallowed'
    <3>1. Part(i)' = Part(i)
      BY <1>a DEF Part
    <3>2. Good(Part(i))' => Good(Part(i))
      BY <3>1, SettledStays
    <3> QED BY <1>a, <2>1, <3>1, <3>2, Monotone DEF JobInv
  <2>4. pc'[i] = "end" => StanzaSettled(Stanza(i))'
    BY <1>a, <2>1, SettledStays DEF JobInv
  <2> QED BY <2>2, <2>3, <2>4 DEF JobInv
<1>b. ASSUME NEW i \in Jobs, pc'[i] \notin {"decrypt", "handle", "clear", "end"} PROVE JobInv(i)'
  BY <1>b DEF JobInv
<1>1. CASE UNCHANGED <<pc, part>>
  BY <1>a, <1>1 DEF PartsInv
<1>2. ASSUME NEW j \in Jobs, Handler(j) PROVE PartsInv'
  <2>1. \A i \in Jobs : i # j => pc'[i] = pc[i] /\ part'[i] = part[i]
    BY <1>2, HandlerSteps DEF HandlerStep, JobTypes
  <2>2. SUFFICES JobInv(j)'
    BY <1>a, <2>1 DEF PartsInv
  <2>3. JobInv(j)
    BY DEF PartsInv
  <2>4. PICK q \in Parts : q = Part(j)
    BY JobParts
  <2>5. ASSUME pc[j] \in {"decrypt", "handle", "clear"}, NextPart(j),
               Good(q) => Settled(q)'
        PROVE  JobInv(j)'
    BY <2>3, <2>4, <2>5, PartDone DEF JobInv
  <2>6. ASSUME pc[j] \in {"decrypt", "handle", "clear"}, AfterHandlers(j),
               Good(q) => q \in handled' \cup swallowed'
        PROVE  JobInv(j)'
    BY <2>3, <2>4, <2>6, PartHandled DEF JobInv
  <2>7. ASSUME pc[j] = "decrypt", pc' = [pc EXCEPT ![j] = "handle"], UNCHANGED part
        PROVE  JobInv(j)'
    <3>1. \A p : p \in PartsOf(Stanza(j)) /\ p[2] < part[j] /\ Good(p) => Settled(p)'
      BY <2>3, <2>7, SettledStays DEF Before, JobInv
    <3>2. Before(Stanza(j), part[j])'
      BY <2>7, <3>1, SettledStays DEF Before
    <3>3. pc'[j] = "handle"
      BY <2>7 DEF JobTypes
    <3> QED BY <3>2, <3>3 DEF JobInv
  <2>8. ASSUME pc' = [pc EXCEPT ![j] = "wait"] \/ pc' = [pc EXCEPT ![j] = "undec"]
                 \/ pc' = [pc EXCEPT ![j] = "done"]
        PROVE  JobInv(j)'
    BY <1>b, <2>8 DEF JobTypes
  <2>11. CASE HandleEncryptedMessage(j)
    <3>1. pc'[j] = Branch(KindOf(j)) /\ part'[j] = 1
      BY <2>11 DEF HandleEncryptedMessage, StartInv, JobTypes
    <3>2. CASE pc'[j] = "decrypt"
      <4>1. \A p \in PartsOf(Stanza(j)) : ~(p[2] < 1)
        BY JobParts, PartsOfType, NumPartsType
      <4>2. Before(Stanza(j), part[j])'
        BY <3>1, <4>1, SettledStays DEF Before
      <4> QED BY <3>2, <4>2 DEF JobInv
    <3>3. CASE pc'[j] = "end"
      <4>1. NumParts(Stanza(j)) = 0
        BY <3>1, <3>3 DEF Branch, KindOf, NumParts
      <4>2. PartsOf(Stanza(j)) = {}
        BY <4>1 DEF PartsOf
      <4>3. StanzaSettled(Stanza(j))'
        BY <4>2, SettledStays DEF StanzaSettled
      <4> QED BY <3>3, <4>3 DEF JobInv
    <3>4. CASE pc'[j] \notin {"decrypt", "end"}
      BY <1>b, <3>1, <3>4 DEF Branch
    <3> QED BY <3>2, <3>3, <3>4
  <2>12. CASE HandlePlaintextMessage(j) \/ DecryptFails(j) \/ AnswerStanza(j)
              \/ DispatchUndecryptable(j) \/ HandlerReturns(j)
    BY <2>8, <2>12 DEF HandlePlaintextMessage, DecryptFails, DecryptFailed, AnswerStanza,
                       DispatchUndecryptable, HandlerReturns
  <2>13. CASE DecryptBuffered(j)
    <3>1. CASE buf[q] = "nil"
      <4>1. Good(q) => Settled(q)
        BY <2>4, <3>1 DEF BufferInv, Settled
      <4>2. Good(q) => Settled(q)'
        BY <4>1, SettledStays
      <4> QED BY <2>4, <2>5, <2>13, <3>1, <4>2 DEF DecryptBuffered
    <3>2. CASE buf[q] # "nil"
      BY <2>4, <2>7, <2>8, <2>13, <3>2 DEF DecryptBuffered, DecryptFailed
    <3> QED BY <3>1, <3>2
  <2>14. CASE DecryptOldCounter(j)
    <3>1. q \in used /\ ~opt.buffer
      BY <2>4, <2>14 DEF DecryptOldCounter, Buffered, BufferInv
    <3>2. Settled(q)
      BY <3>1 DEF Settled
    <3>3. Settled(q)'
      BY <3>2, SettledStays
    <3> QED BY <2>5, <2>14, <3>3 DEF DecryptOldCounter
  <2>15. CASE Decrypt(j)
    BY <2>7, <2>8, <2>15 DEF Decrypt, DecryptFailed
  <2>16. CASE HandleDecryptedMessage(j)
    BY <2>4, <2>6, <2>8, <2>16 DEF HandleDecryptedMessage, Dispatched, DispatchPanicked, HandlerFailed
  <2>17. CASE HandlePlaceholderResend(j)
    BY <2>4, <2>6, <2>8, <2>17 DEF HandlePlaceholderResend, Dispatched, DispatchPanicked, HandlerFailed
  <2>18. CASE UnmarshalFails(j)
    BY <2>4, <2>5, <2>18 DEF UnmarshalFails, Good
  <2>19. CASE ClearBufferedEventPlaintext(j)
    <3>1. Good(q) => Settled(q)
      BY <2>3, <2>4, <2>19 DEF ClearBufferedEventPlaintext, JobInv, Settled
    <3>2. Good(q) => Settled(q)'
      BY <3>1, SettledStays
    <3> QED BY <2>5, <2>19, <3>2 DEF ClearBufferedEventPlaintext
  <2>20. CASE UnhandledType(j)
    <3>1. ~Good(q)
      BY <2>4, <2>20, JobParts DEF UnhandledType, KindOf, Good
    <3> QED BY <2>5, <2>20, <3>1 DEF UnhandledType
  <2>21. CASE UnknownVersion(j)
    <3>1. ~Good(q)
      BY <2>4, <2>21, JobParts DEF UnknownVersion, KindOf, Good
    <3> QED BY <2>6, <2>21, <3>1 DEF UnknownVersion
  <2> QED BY <1>2, <2>11, <2>12, <2>13, <2>14, <2>15, <2>16, <2>17, <2>18, <2>19, <2>20, <2>21
          DEF Handler
<1>3. ASSUME NEW j \in Jobs, pc[j] = "off", pc' = [pc EXCEPT ![j] = "start"], UNCHANGED part
      PROVE  PartsInv'
  <2>1. ASSUME NEW i \in Jobs PROVE JobInv(i)'
    <3>1. CASE i = j
      BY <1>3, <1>b, <3>1 DEF JobTypes
    <3>2. CASE i # j
      BY <1>3, <1>a, <3>2 DEF JobTypes
    <3> QED BY <3>1, <3>2
  <2> QED BY <2>1 DEF PartsInv
<1>4. CASE Crash
  <2>1. \A i \in Jobs : pc'[i] \in {"off", "done"}
    BY <1>4 DEF Crash
  <2> QED BY <1>b, <2>1 DEF PartsInv
<1> QED BY <1>1, <1>2, <1>3, <1>4, JobSteps

\* Receipts go out, and are on their way, for settled stanzas only.
LEMMA ReceiptStep ==
    ASSUME TypeOK, PartsInv, ReceiptInv, NextActions
    PROVE  ReceiptInv'
<1> USE DEF TypeOK
<1>a. \A s : StanzaSettled(s) => StanzaSettled(s)'
  BY SettledStays
<1>0. ASSUME UNCHANGED <<work, receipted>> PROVE ReceiptInv'
  BY <1>0, <1>a DEF ReceiptInv
<1>1. ASSUME NEW s \in Stanzas, HandleFrame(s) PROVE ReceiptInv'
  BY <1>0, <1>1 DEF HandleFrame, sendVars
<1>2. ASSUME NEW j \in Jobs, Unpark(j) PROVE ReceiptInv'
  BY <1>0, <1>2 DEF Unpark, sendVars
<1>3. ASSUME NEW e \in Epochs, QueueLoopTakes(e) \/ QueueLoopGoesOn(e) \/ QueueLoopEnds(e)
      PROVE ReceiptInv'
  BY <1>0, <1>3 DEF QueueLoopTakes, QueueLoopGoesOn, QueueLoopEnds, sendVars
<1>4. CASE Disconnected \/ Connect
  BY <1>0, <1>4 DEF Disconnected, Connect, sendVars
<1>5. CASE Crash
  <2>1. receipted' = receipted /\ \A j \in Jobs : work'[j] = {}
    BY <1>5 DEF Crash
  <2> QED BY <1>a, <2>1 DEF ReceiptInv
<1>6. ASSUME NEW j \in Jobs, Handler(j) PROVE ReceiptInv'
  <2>1. receipted' = receipted /\ \A i \in Jobs : i # j => work'[i] = work[i]
    BY <1>6, HandlerSteps DEF HandlerStep, JobTypes
  <2>2. "receipt" \in work'[j] => StanzaSettled(Stanza(j))
    <3>1. CASE AnswerStanza(j)
      BY <3>1 DEF AnswerStanza, PartsInv, JobInv
    <3>2. CASE ~AnswerStanza(j)
      <4>1. \/ work' = work
            \/ \E w \in {{}, {"ack"}, {"phone", "ack"}, {"nack"}, {"retry", "ack"}} :
                  work' = [work EXCEPT ![j] = w]
        BY <1>6, <3>2
           DEF Handler, HandleEncryptedMessage, FirstSends, HandlePlaintextMessage,
               DecryptBuffered, DecryptOldCounter, Decrypt, DecryptFails, DecryptFailed,
               HandleDecryptedMessage, HandlePlaceholderResend, UnmarshalFails,
               ClearBufferedEventPlaintext, DispatchUndecryptable, HandlerReturns,
               UnhandledType, UnknownVersion, sendVars
      <4> QED BY <4>1 DEF ReceiptInv, JobTypes
    <3> QED BY <3>1, <3>2
  <2> QED BY <1>a, <2>1, <2>2 DEF ReceiptInv
<1>7. ASSUME NEW j \in Jobs, Sender(j) PROVE ReceiptInv'
  <2>1. \A i \in Jobs : "receipt" \in work'[i] => "receipt" \in work[i]
    BY <1>7 DEF Sender, SendAck, RequestFromPhone, RetryCount, RetrySend, JobTypes
  <2>2. \/ receipted' = receipted
        \/ "receipt" \in work[j] /\ receipted' = receipted \cup {Stanza(j)}
    <3>1. ASSUME NEW w \in Sends, SendAck(j, w)
          PROVE  \/ receipted' = receipted
                 \/ w = "receipt" /\ w \in work[j] /\ receipted' = receipted \cup {Stanza(j)}
      BY <3>1 DEF SendAck
    <3>2. ASSUME RequestFromPhone(j) \/ RetryCount(j) \/ RetrySend(j) PROVE receipted' = receipted
      BY <3>2 DEF RequestFromPhone, RetryCount, RetrySend
    <3> QED BY <1>7, <3>1, <3>2 DEF Sender
  <2> QED BY <1>a, <2>1, <2>2 DEF ReceiptInv
<1> QED BY <1>1, <1>2, <1>3, <1>4, <1>5, <1>6, <1>7 DEF NextActions

\* The rows of the buffer say what has been decrypted and handled.
LEMMA BufferStep ==
    ASSUME TypeOK, PartsInv, BufferInv, NextActions
    PROVE  BufferInv'
<1> USE DEF TypeOK
<1>a. /\ UNCHANGED opt /\ handled \subseteq handled' /\ swallowed \subseteq swallowed'
      /\ \A p : Good(p)' => Good(p)
  BY Monotone, SettledStays
<1>0. ASSUME UNCHANGED <<used, buf>> PROVE BufferInv'
  BY <1>0, <1>a DEF BufferInv
<1>1. ASSUME NEW s \in Stanzas, HandleFrame(s) PROVE BufferInv'
  BY <1>0, <1>1 DEF HandleFrame, storeVars
<1>2. ASSUME NEW j \in Jobs, Unpark(j) PROVE BufferInv'
  BY <1>0, <1>2 DEF Unpark, storeVars
<1>3. ASSUME NEW e \in Epochs, QueueLoopTakes(e) \/ QueueLoopGoesOn(e) \/ QueueLoopEnds(e)
      PROVE BufferInv'
  BY <1>0, <1>3 DEF QueueLoopTakes, QueueLoopGoesOn, QueueLoopEnds, storeVars
<1>4. CASE Disconnected \/ Connect \/ Crash
  BY <1>0, <1>4 DEF Disconnected, Connect, Crash, storeVars
<1>5. ASSUME NEW j \in Jobs, Handler(j) PROVE BufferInv'
  <2>0. Part(j) \in Parts
    BY JobParts
  <2>1. CASE Decrypt(j)
    <3>1. CASE KindOf(j) = "bot"
      BY <1>0, <2>1, <3>1 DEF Decrypt, Buffered
    <3>2. CASE KindOf(j) # "bot" /\ ~opt.buffer
      <4>1. UNCHANGED buf
        BY <2>1, <3>2 DEF Decrypt, Buffered
      <4> QED BY <1>a, <3>2, <4>1 DEF BufferInv
    <3>3. CASE KindOf(j) # "bot" /\ opt.buffer
      <4>1. used' = used \cup {Part(j)} /\ buf' = [buf EXCEPT ![Part(j)] = "plain"]
        BY <2>1, <3>3 DEF Decrypt, Buffered, PutBufferedEvent
      <4> QED BY <1>a, <2>0, <4>1 DEF BufferInv, EventTypes
    <3> QED BY <3>1, <3>2, <3>3
  <2>2. CASE ClearBufferedEventPlaintext(j)
    <3>1. Good(Part(j)) => Part(j) \in handled \cup swallowed
      BY <2>2 DEF ClearBufferedEventPlaintext, PartsInv, JobInv
    <3>2. used' = used /\ (buf' = buf \/ buf' = [buf EXCEPT ![Part(j)] = "nil"])
      BY <2>2 DEF ClearBufferedEventPlaintext
    <3>3. /\ \A p \in Parts : p # Part(j) => buf'[p] = buf[p]
          /\ buf'[Part(j)] = buf[Part(j)] \/ buf'[Part(j)] = "nil"
      BY <2>0, <3>2 DEF EventTypes
    <3> QED BY <1>a, <3>1, <3>2, <3>3 DEF BufferInv
  <2>3. CASE ~Decrypt(j) /\ ~ClearBufferedEventPlaintext(j)
    <3>1. UNCHANGED storeVars
      BY <1>5, <2>3
         DEF Handler, HandleEncryptedMessage, HandlePlaintextMessage, DecryptBuffered,
             DecryptOldCounter, DecryptFails, HandleDecryptedMessage, HandlePlaceholderResend,
             UnmarshalFails, AnswerStanza, DispatchUndecryptable, HandlerReturns,
             UnhandledType, UnknownVersion
    <3> QED BY <1>0, <3>1 DEF storeVars
  <2> QED BY <2>1, <2>2, <2>3
<1>6. ASSUME NEW j \in Jobs, Sender(j) PROVE BufferInv'
  BY <1>0, <1>6, SenderSteps DEF SenderStep, storeVars
<1> QED BY <1>1, <1>2, <1>3, <1>4, <1>5, <1>6 DEF NextActions

\* What a handler may do to a part it has in hand: keep it, give it to the event
\* handlers, which accept it or fail, or find that it cannot be read.
LEMMA HandedOn ==
    ASSUME TypeOK, NEW j \in Jobs, Handler(j), pc[j] = "handle", Good(Part(j))
    PROVE  Part(j) \in handled' \cup swallowed' \cup spoilt'
<1>1. CASE HandleDecryptedMessage(j)
  BY <1>1 DEF HandleDecryptedMessage, Dispatched, DispatchPanicked, DispatchFailed
<1>2. CASE HandlePlaceholderResend(j)
  BY <1>2 DEF HandlePlaceholderResend, Dispatched, DispatchPanicked, DispatchFailed
<1>3. ~UnmarshalFails(j)
  BY DEF UnmarshalFails, Good
<1>4. ~UnknownVersion(j)
  BY JobParts DEF UnknownVersion, Good, KindOf, TypeOK
<1> QED
  BY <1>1, <1>2, <1>3, <1>4
     DEF Handler, HandleEncryptedMessage, HandlePlaintextMessage, DecryptBuffered,
         DecryptOldCounter, Decrypt, DecryptFails, ClearBufferedEventPlaintext, AnswerStanza,
         DispatchUndecryptable, HandlerReturns, UnhandledType

\* A part in hand stays there until it is handled or lost.
LEMMA InHandStep ==
    ASSUME TypeOK, QueueInv, NextActions, NEW p \in InHand, Good(p)
    PROVE  p \in handled' \cup swallowed' \cup spoilt' \cup InHand'
<1> USE DEF TypeOK
<1>0. PICK i \in Jobs : pc[i] = "handle" /\ Part(i) = p /\ p \in Parts
  BY DEF InHand
<1>a. ASSUME pc'[i] = pc[i], part'[i] = part[i] PROVE p \in InHand'
  <2>1. Part(i)' = p
    BY <1>0, <1>a DEF Part
  <2> QED BY <1>0, <1>a, <2>1 DEF InHand
<1>1. CASE UNCHANGED <<pc, part>>
  BY <1>a, <1>1
<1>2. ASSUME NEW j \in Jobs, Handler(j)
      PROVE  p \in handled' \cup swallowed' \cup spoilt' \cup InHand'
  <2>1. CASE i = j
    BY <1>0, <1>2, <2>1, HandedOn
  <2>2. CASE i # j
    <3>1. pc'[i] = pc[i] /\ part'[i] = part[i]
      BY <1>2, <2>2, HandlerSteps DEF HandlerStep, JobTypes
    <3> QED BY <1>a, <3>1
  <2> QED BY <2>1, <2>2
<1>3. ASSUME NEW j \in Jobs, pc[j] = "off", pc' = [pc EXCEPT ![j] = "start"], UNCHANGED part
      PROVE  p \in InHand'
  <2>1. pc'[i] = pc[i]
    BY <1>0, <1>3 DEF JobTypes
  <2> QED BY <1>a, <1>3, <2>1
<1>4. CASE Crash
  BY <1>4 DEF Crash
<1> QED BY <1>1, <1>2, <1>3, <1>4, JobSteps

\* The key of a part is used by the handler that has it in hand.
LEMMA UsedByDecrypt ==
    ASSUME TypeOK, NextActions, NEW p \in used', p \notin used, Good(p)
    PROVE  p \in InHand'
<1> USE DEF TypeOK
<1>1. PICK j \in Jobs : Handler(j) /\ used' # used
  <2>1. ASSUME NEW s \in Stanzas, HandleFrame(s) PROVE used' = used
    BY <2>1 DEF HandleFrame, storeVars
  <2>2. ASSUME NEW j \in Jobs, Unpark(j) PROVE used' = used
    BY <2>2 DEF Unpark, storeVars
  <2>3. ASSUME NEW e \in Epochs, QueueLoopTakes(e) \/ QueueLoopGoesOn(e) \/ QueueLoopEnds(e)
        PROVE used' = used
    BY <2>3 DEF QueueLoopTakes, QueueLoopGoesOn, QueueLoopEnds, storeVars
  <2>4. ASSUME Disconnected \/ Connect \/ Crash PROVE used' = used
    BY <2>4 DEF Disconnected, Connect, Crash, storeVars
  <2>5. ASSUME NEW j \in Jobs, Sender(j) PROVE used' = used
    BY <2>5, SenderSteps DEF SenderStep, storeVars
  <2> QED BY <2>1, <2>2, <2>3, <2>4, <2>5 DEF NextActions
<1>2. Decrypt(j)
  BY <1>1
     DEF Handler, HandleEncryptedMessage, HandlePlaintextMessage, DecryptBuffered,
         DecryptOldCounter, DecryptFails, HandleDecryptedMessage, HandlePlaceholderResend,
         UnmarshalFails, ClearBufferedEventPlaintext, AnswerStanza, DispatchUndecryptable,
         HandlerReturns, UnhandledType, UnknownVersion, storeVars
<1>3. p = Part(j)
  BY <1>2 DEF Decrypt
<1>4. ~BadPadding(Stanza(j))
  BY <1>3, JobParts DEF Good
<1>5. pc' = [pc EXCEPT ![j] = "handle"] /\ part' = part
  BY <1>2, <1>4 DEF Decrypt
<1>6. pc'[j] = "handle" /\ Part(j)' = p
  BY <1>3, <1>5 DEF JobTypes, Part
<1> QED BY <1>3, <1>6, JobParts DEF InHand

\* Without the buffer, a used key has been handled, is being handled, or is lost.
LEMMA UsedStep ==
    ASSUME TypeOK, QueueInv, UsedInv, NextActions
    PROVE  UsedInv'
<1>1. SUFFICES ASSUME ~opt'.buffer, NEW p \in used', Good(p)'
               PROVE  p \in handled' \cup swallowed' \cup spoilt' \cup InHand'
  BY DEF UsedInv
<1>2. ~opt.buffer /\ Good(p)
  BY <1>1, Monotone, SettledStays
<1>3. CASE p \in used
  <2>1. p \in handled \cup swallowed \cup spoilt \cup InHand
    BY <1>2, <1>3 DEF UsedInv
  <2> QED BY <1>2, <2>1, Monotone, InHandStep
<1>4. CASE p \notin used
  BY <1>2, <1>4, UsedByDecrypt
<1> QED BY <1>3, <1>4

-----------------------------------------------------------------------------
(* Retries.                                                                *)

\* A message has finitely many jobs.
LEMMA PendingFinite ==
    ASSUME NEW m
    PROVE  IsFiniteSet(PendingRetries(m)) /\ Cardinality(PendingRetries(m)) \in Nat
<1> DEFINE J == ({m} \X (0..MaxCopies)) \X Epochs
<1>1. IsFiniteSet(0..MaxCopies) /\ IsFiniteSet(Epochs) /\ IsFiniteSet({m})
  <2>1. 0 \in Int /\ MaxCopies \in Int /\ MaxEpochs \in Int
    BY BoundAssumption
  <2>2. IsFiniteSet(0..MaxCopies) /\ IsFiniteSet(0..MaxEpochs)
    BY <2>1, FS_Interval
  <2> QED BY <2>2, FS_Singleton DEF Epochs
<1>2. IsFiniteSet({m} \X (0..MaxCopies))
  BY <1>1, FS_Product
<1>3. IsFiniteSet(J)
  BY <1>1, <1>2, FS_Product
<1>4. PendingRetries(m) \subseteq J
  BY DEF PendingRetries, Jobs, Stanzas, Stanza, Msg
<1> QED BY <1>3, <1>4, FS_Subset, FS_CardinalityType

\* Products.
LEMMA Distribute ==
    ASSUME NEW a \in Nat, NEW b \in Nat
    PROVE  a * b \in Nat /\ a * (b + 1) = a * b + a
OBVIOUS

\* The quantities of the bound.
LEMMA RetryTypes ==
    ASSUME TypeOK, NEW m \in Msgs
    PROVE  /\ RetryLimit - 1 \in Nat /\ epoch \in Nat /\ Lives \in Nat
           /\ copies[m] \in Nat /\ retries[m] \in Nat
           /\ Asked(m) \in 0..(RetryLimit - 1)
           /\ (RetryLimit - 1) * epoch \in Nat /\ (RetryLimit - 1) * Lives \in Nat
           /\ (RetryLimit - 1) * (epoch + 1) = (RetryLimit - 1) * epoch + (RetryLimit - 1)
<1>1. RetryLimit - 1 \in Nat /\ epoch \in Nat /\ copies[m] \in Nat /\ retries[m] \in Nat
  BY BoundAssumption DEF TypeOK, ServerTypes, JobTypes, Epochs
<1>2. Lives \in Nat
  BY <1>1 DEF Lives
<1>3. Asked(m) \in 0..(RetryLimit - 1)
  BY <1>1, BoundAssumption DEF Asked
<1> QED BY <1>1, <1>2, <1>3, Distribute

\* A step that counts, sends and starts nothing.
LEMMA RetryFrame ==
    ASSUME TypeOK, RetryInv, UNCHANGED <<copies, retries, online, epoch>>,
           \A m \in Msgs : PendingRetries(m)' \subseteq PendingRetries(m)
    PROVE  RetryInv'
<1>1. ASSUME NEW m \in Msgs
      PROVE  copies'[m] + Cardinality(PendingRetries(m)') <= (RetryLimit - 1) * Lives' + Asked(m)'
  <2>1. Cardinality(PendingRetries(m)') <= Cardinality(PendingRetries(m))
        /\ Cardinality(PendingRetries(m)') \in Nat /\ Cardinality(PendingRetries(m)) \in Nat
    BY PendingFinite, FS_Subset, FS_CardinalityType
  <2>2. copies[m] + Cardinality(PendingRetries(m)) <= (RetryLimit - 1) * Lives + Asked(m)
    BY DEF RetryInv
  <2>3. Lives' = Lives /\ Asked(m)' = Asked(m) /\ copies'[m] = copies[m]
    BY DEF Lives, Asked
  <2> HIDE DEF Lives, Asked
  <2> QED BY <2>1, <2>2, <2>3, RetryTypes
<1>2. RetriesBounded'
  BY DEF RetryInv, RetriesBounded
<1> QED BY <1>1, <1>2 DEF RetryInv

\* Every retry receipt is counted before it is sent, and every life of the process
\* counts to RetryLimit - 1 at most.
LEMMA RetryStep ==
    ASSUME TypeOK, TypeOK', RetryInv, NextActions
    PROVE  RetryInv'
<1>a. ASSUME UNCHANGED <<copies, retries, online, epoch, work>> PROVE RetryInv'
  <2>1. \A m \in Msgs : PendingRetries(m)' = PendingRetries(m)
    BY <1>a DEF PendingRetries
  <2> QED BY <1>a, <2>1, RetryFrame
<1>1. ASSUME NEW s \in Stanzas, HandleFrame(s) PROVE RetryInv'
  BY <1>a, <1>1 DEF HandleFrame, sendVars
<1>2. ASSUME NEW j \in Jobs, Unpark(j) PROVE RetryInv'
  BY <1>a, <1>2 DEF Unpark, sendVars, serverVars
<1>3. ASSUME NEW e \in Epochs, QueueLoopTakes(e) \/ QueueLoopGoesOn(e) \/ QueueLoopEnds(e)
      PROVE RetryInv'
  BY <1>a, <1>3 DEF QueueLoopTakes, QueueLoopGoesOn, QueueLoopEnds, sendVars, serverVars
<1>4. CASE Disconnected
  <2>1. UNCHANGED <<copies, retries, epoch, work>> /\ Lives = epoch /\ Lives' = epoch + 1
    BY <1>4 DEF Disconnected, sendVars, Lives
  <2>2. ASSUME NEW m \in Msgs
        PROVE  copies'[m] + Cardinality(PendingRetries(m)') <= (RetryLimit - 1) * Lives' + Asked(m)'
    <3>1. PendingRetries(m)' = PendingRetries(m) /\ Asked(m)' = Asked(m) /\ copies'[m] = copies[m]
      BY <2>1 DEF PendingRetries, Asked
    <3>2. copies[m] + Cardinality(PendingRetries(m)) <= (RetryLimit - 1) * Lives + Asked(m)
      BY DEF RetryInv
    <3>3. Cardinality(PendingRetries(m)) \in Nat
      BY PendingFinite
    <3> QED BY <2>1, <3>1, <3>2, <3>3, RetryTypes
  <2>3. RetriesBounded'
    BY <2>1 DEF RetryInv, RetriesBounded
  <2> QED BY <2>2, <2>3 DEF RetryInv
<1>5. CASE Connect
  <2>1. UNCHANGED <<copies, retries, work>> /\ Lives' = Lives /\ epoch' = epoch + 1
    BY <1>5 DEF Connect, sendVars, Lives
  <2>2. ASSUME NEW m \in Msgs
        PROVE  copies'[m] + Cardinality(PendingRetries(m)') <= (RetryLimit - 1) * Lives' + Asked(m)'
    <3>1. PendingRetries(m)' = PendingRetries(m) /\ Asked(m)' = Asked(m) /\ copies'[m] = copies[m]
      BY <2>1 DEF PendingRetries, Asked
    <3> QED BY <2>1, <3>1 DEF RetryInv
  <2>3. ASSUME NEW m \in Msgs PROVE copies'[m] <= (RetryLimit - 1) * (epoch' + 1)
    <3>1. copies[m] <= (RetryLimit - 1) * (epoch + 1)
      BY DEF RetryInv, RetriesBounded
    <3>2. epoch' + 1 = (epoch + 1) + 1 /\ epoch + 1 \in Nat
      BY <2>1, RetryTypes
    <3>3. (RetryLimit - 1) * (epoch' + 1) = (RetryLimit - 1) * (epoch + 1) + (RetryLimit - 1)
      BY <3>2, RetryTypes, Distribute
    <3> QED BY <2>1, <3>1, <3>3, RetryTypes
  <2> QED BY <2>2, <2>3 DEF RetryInv, RetriesBounded
<1>6. CASE Crash
  <2>1. UNCHANGED <<copies, epoch>> /\ Lives' = epoch + 1
    BY <1>6 DEF Crash, Lives
  <2>2. RetriesBounded'
    BY <2>1 DEF RetryInv, RetriesBounded
  <2>3. ASSUME NEW m \in Msgs
        PROVE  copies'[m] + Cardinality(PendingRetries(m)') <= (RetryLimit - 1) * Lives' + Asked(m)'
    <3>1. PendingRetries(m)' = {}
      BY <1>6 DEF Crash, PendingRetries
    <3>2. Cardinality(PendingRetries(m)') = 0
      BY <3>1, FS_EmptySet
    <3>3. copies[m] <= (RetryLimit - 1) * (epoch + 1)
      BY DEF RetryInv, RetriesBounded
    <3>4. Asked(m)' = 0
      BY <1>6, BoundAssumption DEF Crash, Asked
    <3> QED BY <2>1, <3>2, <3>3, <3>4, RetryTypes
  <2> QED BY <2>2, <2>3 DEF RetryInv
<1>7. ASSUME NEW j \in Jobs, Handler(j) PROVE RetryInv'
  <2>1. HandlerStep(j)
    BY <1>7, HandlerSteps DEF TypeOK
  <2>2. UNCHANGED <<copies, retries, online, epoch>>
    BY <2>1 DEF HandlerStep, serverVars
  <2>3. \A i \in Jobs : "retrySend" \in work'[i] => "retrySend" \in work[i]
    <3>1. ASSUME NEW w \in Plain, work' = [work EXCEPT ![j] = w], NEW i \in Jobs,
                 "retrySend" \in work'[i]
          PROVE  "retrySend" \in work[i]
      BY <3>1 DEF Plain, TypeOK, JobTypes
    <3> QED BY <2>1, <3>1 DEF HandlerStep
  <2>4. \A m \in Msgs : PendingRetries(m)' \subseteq PendingRetries(m)
    BY <2>3 DEF PendingRetries
  <2> QED BY <2>2, <2>4, RetryFrame
<1>8. ASSUME NEW j \in Jobs, Sender(j) PROVE RetryInv'
  <2> DEFINE k == Msg(Stanza(j))
  <2>0. k \in Msgs
    BY JobParts DEF TypeOK
  <2>1. CASE (\E w \in Sends : SendAck(j, w)) \/ RequestFromPhone(j)
    <3>1. UNCHANGED <<copies, retries, online, epoch>>
      BY <2>1 DEF SendAck, RequestFromPhone, serverVars
    <3>2. \A i \in Jobs : "retrySend" \in work'[i] => "retrySend" \in work[i]
      BY <2>1 DEF SendAck, RequestFromPhone, TypeOK, JobTypes
    <3>3. \A m \in Msgs : PendingRetries(m)' \subseteq PendingRetries(m)
      BY <3>2 DEF PendingRetries
    <3> QED BY <3>1, <3>3, RetryFrame
  <2>2. CASE RetryCount(j)
    <3>1. UNCHANGED <<copies, online, epoch>> /\ Lives' = Lives
      BY <2>2 DEF RetryCount, serverVars, Lives
    <3>2. PICK n \in Nat : n > retries[k] /\ retries' = [retries EXCEPT ![k] = n]
                           /\ work' = [work EXCEPT ![j] = (work[j] \ {"retry"}) \cup
                                         (IF EnoughRetries(n) THEN {}
                                          ELSE IF n = 1 /\ opt.sync THEN {"phone", "retrySend"}
                                          ELSE {"retrySend"})]
      <4> DEFINE next == IF retries[k] = 0 /\ count[Stanza(j)] > 0 THEN count[Stanza(j)] + 1
                                                                   ELSE retries[k] + 1
      <4>1. next \in Nat /\ next > retries[k]
        BY <2>0, JobParts DEF TypeOK, JobTypes, ServerTypes
      <4> QED BY <2>2, <4>1 DEF RetryCount
    <3>3. ASSUME NEW m \in Msgs
          PROVE  copies'[m] + Cardinality(PendingRetries(m)') <= (RetryLimit - 1) * Lives' + Asked(m)'
      <4>0. /\ copies[m] + Cardinality(PendingRetries(m)) <= (RetryLimit - 1) * Lives + Asked(m)
            /\ IsFiniteSet(PendingRetries(m)) /\ Cardinality(PendingRetries(m)) \in Nat
            /\ copies'[m] = copies[m]
        BY <3>1, PendingFinite DEF RetryInv
      <4>1. CASE m # k
        <5>1. PendingRetries(m)' = PendingRetries(m)
          BY <3>2, <4>1 DEF PendingRetries, TypeOK, JobTypes
        <5>2. Asked(m)' = Asked(m)
          BY <3>2, <4>1 DEF Asked, TypeOK, JobTypes
        <5> QED BY <3>1, <4>0, <5>1, <5>2
      <4>2. CASE m = k /\ EnoughRetries(n)
        <5>1. PendingRetries(m)' \subseteq PendingRetries(m)
          BY <3>2, <4>2 DEF PendingRetries, TypeOK, JobTypes
        <5>2. Cardinality(PendingRetries(m)') <= Cardinality(PendingRetries(m))
              /\ Cardinality(PendingRetries(m)') \in Nat
          BY <4>0, <5>1, FS_Subset, FS_CardinalityType
        <5>3. Asked(m)' = RetryLimit - 1
          BY <2>0, <3>2, <4>2, BoundAssumption DEF Asked, EnoughRetries, TypeOK, JobTypes
        <5> QED BY <3>1, <4>0, <5>2, <5>3, RetryTypes
      <4>3. CASE m = k /\ ~EnoughRetries(n)
        <5>1. PendingRetries(m)' \subseteq PendingRetries(m) \cup {j}
          BY <3>2 DEF PendingRetries, TypeOK, JobTypes
        <5>2. Cardinality(PendingRetries(m)') <= Cardinality(PendingRetries(m)) + 1
              /\ Cardinality(PendingRetries(m)') \in Nat
          <6>1. IsFiniteSet(PendingRetries(m) \cup {j})
                /\ Cardinality(PendingRetries(m) \cup {j}) <= Cardinality(PendingRetries(m)) + 1
            <7>1. /\ IsFiniteSet(PendingRetries(m) \cup {j})
                  /\ \/ Cardinality(PendingRetries(m) \cup {j}) = Cardinality(PendingRetries(m))
                     \/ Cardinality(PendingRetries(m) \cup {j}) = Cardinality(PendingRetries(m)) + 1
              BY <4>0, FS_AddElement, Zenon
            <7> QED BY <4>0, <7>1
          <6>2. Cardinality(PendingRetries(m)') <= Cardinality(PendingRetries(m) \cup {j})
            BY <5>1, <6>1, FS_Subset
          <6> QED BY <4>0, <5>1, <6>1, <6>2, FS_Subset, FS_CardinalityType
        <5>3. n < RetryLimit
          BY <3>2, <4>3, BoundAssumption DEF EnoughRetries
        <5>4. Asked(m)' = n /\ Asked(m) = retries[m]
          BY <2>0, <3>2, <4>3, <5>3, RetryTypes, BoundAssumption DEF Asked, TypeOK, JobTypes
        <5>5. Asked(m)' >= Asked(m) + 1
          BY <2>0, <3>2, <4>3, <5>4, RetryTypes
        <5> QED BY <3>1, <3>2, <4>0, <5>2, <5>4, <5>5, RetryTypes
      <4> QED BY <4>1, <4>2, <4>3
    <3>4. RetriesBounded'
      BY <3>1 DEF RetryInv, RetriesBounded
    <3> QED BY <3>3, <3>4 DEF RetryInv
  <2>3. CASE RetrySend(j)
    <3>1. /\ "retrySend" \in work[j] /\ work' = [work EXCEPT ![j] = work[j] \ {"retrySend"}]
          /\ UNCHANGED <<retries, online, epoch>> /\ Lives' = Lives
      BY <2>3 DEF RetrySend, Lives
    <3>2. CASE online /\ copies' = [copies EXCEPT ![k] = copies[k] + 1]
      <4>1. ASSUME NEW m \in Msgs
            PROVE  copies'[m] + Cardinality(PendingRetries(m)')
                     <= (RetryLimit - 1) * Lives' + Asked(m)'
        <5>0. /\ copies[m] + Cardinality(PendingRetries(m)) <= (RetryLimit - 1) * Lives + Asked(m)
              /\ IsFiniteSet(PendingRetries(m)) /\ Cardinality(PendingRetries(m)) \in Nat
              /\ Asked(m)' = Asked(m)
          BY <3>1, PendingFinite DEF RetryInv, Asked
        <5>1. CASE m # k
          <6>1. PendingRetries(m)' = PendingRetries(m) /\ copies'[m] = copies[m]
            BY <2>0, <3>1, <3>2, <5>1 DEF PendingRetries, TypeOK, JobTypes, ServerTypes
          <6> QED BY <3>1, <5>0, <6>1
        <5>2. CASE m = k
          <6>1. PendingRetries(m)' = PendingRetries(m) \ {j} /\ j \in PendingRetries(m)
            BY <3>1, <5>2 DEF PendingRetries, TypeOK, JobTypes
          <6>2. Cardinality(PendingRetries(m)') = Cardinality(PendingRetries(m)) - 1
            BY <5>0, <6>1, FS_RemoveElement
          <6>3. copies'[m] = copies[m] + 1
            BY <2>0, <3>2, <5>2 DEF TypeOK, ServerTypes
          <6> QED BY <3>1, <5>0, <6>2, <6>3, RetryTypes
        <5> QED BY <5>1, <5>2
      <4>2. ASSUME NEW m \in Msgs PROVE copies'[m] <= (RetryLimit - 1) * (epoch' + 1)
        <5>1. online' /\ Lives' = epoch' /\ Lives = epoch /\ epoch' = epoch
          BY <3>1, <3>2 DEF Lives
        <5>2. Cardinality(PendingRetries(m)') \in Nat
          <6>1. PendingRetries(m)' \subseteq PendingRetries(m)
            BY <3>1 DEF PendingRetries, TypeOK, JobTypes
          <6> QED BY <6>1, PendingFinite, FS_Subset, FS_CardinalityType
        <5>3. Asked(m)' = Asked(m)
          BY <3>1 DEF Asked
        <5>4. copies'[m] \in Nat
          BY DEF TypeOK, ServerTypes
        <5> QED BY <4>1, <5>1, <5>2, <5>3, <5>4, RetryTypes
      <4> QED BY <4>1, <4>2 DEF RetryInv, RetriesBounded
    <3>3. CASE UNCHANGED copies
      <4>1. \A m \in Msgs : PendingRetries(m)' \subseteq PendingRetries(m)
        BY <3>1 DEF PendingRetries, TypeOK, JobTypes
      <4> QED BY <3>1, <3>3, <4>1, RetryFrame
    <3> QED BY <2>3, <3>2, <3>3 DEF RetrySend
  <2> QED BY <1>8, <2>1, <2>2, <2>3 DEF Sender
<1> QED BY <1>1, <1>2, <1>3, <1>4, <1>5, <1>6, <1>7, <1>8 DEF NextActions

-----------------------------------------------------------------------------
(* The theorems.                                                           *)

\* The initial state has the types and the invariants.
LEMMA InitInv == Init => TypeOK /\ IInv
<1> SUFFICES ASSUME Init PROVE TypeOK /\ IInv
  OBVIOUS
<1>1. ServerTypes
  <2>1. 0 \in 0..MaxCopies /\ 0 \in Epochs
    BY BoundAssumption DEF Epochs
  <2>2. inbox \subseteq Stanzas
    BY <2>1 DEF Init, Stanzas
  <2> QED BY <2>1, <2>2, KindAssumption DEF Init, ServerTypes
<1>2. QueueTypes
  <2>1. queue \in Seq(Jobs) /\ Len(queue) <= QueueCap
    BY BoundAssumption DEF Init
  <2> QED BY <2>1, NoJobAssumption DEF Init, QueueTypes
<1>3. JobTypes
  BY DEF Init, JobTypes, PCs
<1>4. EventTypes
  <2>1. faults \in 0..MaxFaults
    BY BoundAssumption DEF Init
  <2>2. disorder \in BOOLEAN
    BY DEF Init
  <2> QED BY <2>1, <2>2 DEF Init, EventTypes
<1>5. QueueInv /\ DeliveryInv
  <2>1. Len(queue) = 0 /\ parked = {} /\ \A j \in Jobs : pc[j] = "off"
    BY DEF Init
  <2> QED BY <2>1 DEF QueueInv, DeliveryInv
<1>6. StartInv /\ OrderInv
  BY DEF Init, StartInv, OrderInv, Active
<1>7. EpochInv
  BY DEF Init, EpochInv, Epochs
<1>8. PartsInv /\ ReceiptInv /\ BufferInv /\ UsedInv
  BY DEF Init, PartsInv, JobInv, ReceiptInv, BufferInv, UsedInv
<1>9. RetryInv
  <2>0. TypeOK
    BY <1>1, <1>2, <1>3, <1>4 DEF TypeOK
  <2>1. ASSUME NEW m \in Msgs
        PROVE  /\ copies[m] + Cardinality(PendingRetries(m)) <= (RetryLimit - 1) * Lives + Asked(m)
               /\ copies[m] <= (RetryLimit - 1) * (epoch + 1)
    <3>1. PendingRetries(m) = {} /\ copies[m] = 0
      BY DEF Init, PendingRetries
    <3>2. Cardinality(PendingRetries(m)) = 0
      BY <3>1, FS_EmptySet
    <3> QED BY <2>0, <3>1, <3>2, RetryTypes
  <2> QED BY <2>1 DEF RetryInv, RetriesBounded
<1> QED BY <1>1, <1>2, <1>3, <1>4, <1>5, <1>6, <1>7, <1>8, <1>9 DEF TypeOK, IInv

\* Every step keeps them.
LEMMA StepInv == TypeOK /\ IInv /\ [Next]_vars => TypeOK' /\ IInv'
<1> SUFFICES ASSUME TypeOK, IInv, [Next]_vars PROVE TypeOK' /\ IInv'
  OBVIOUS
<1>1. CASE Next
  <2>1. NextActions
    BY <1>1, NextSplit
  <2>2. TypeOK'
    BY <2>1, ServerTypesStep, QueueTypesStep, JobTypesStep, EventTypesStep DEF IInv, TypeOK
  <2>3. QueueInv' /\ DeliveryInv' /\ StartInv' /\ EpochInv' /\ OrderInv'
    BY <2>1, QueueStep, DeliveryStep, StartStep, EpochStep, OrderStep DEF IInv
  <2>4. PartsInv' /\ ReceiptInv' /\ BufferInv' /\ UsedInv'
    BY <2>1, PartsStep, ReceiptStep, BufferStep, UsedStep DEF IInv
  <2>5. RetryInv'
    BY <2>1, <2>2, RetryStep DEF IInv
  <2> QED BY <2>2, <2>3, <2>4, <2>5 DEF IInv
<1>2. CASE UNCHANGED vars
  <2>1. TypeOK'
    BY <1>2 DEF vars, TypeOK, ServerTypes, QueueTypes, JobTypes, EventTypes
  <2>2. QueueInv' /\ DeliveryInv' /\ StartInv' /\ EpochInv' /\ OrderInv'
    BY <1>2 DEF vars, IInv, QueueInv, DeliveryInv, Delivered, StartInv, EpochInv, OrderInv
  <2>3. /\ \A p : Good(p)' = Good(p) /\ Settled(p)' = Settled(p)
        /\ \A s : PartsOf(s)' = PartsOf(s)
        /\ \A j : Part(j)' = Part(j)
        /\ InHand' = InHand
    BY <1>2 DEF vars, Good, BadPadding, Garbled, Settled, PartsOf, NumParts, Part, InHand
  <2>4. PartsInv'
    BY <1>2, <2>3 DEF vars, IInv, PartsInv, JobInv, Before, StanzaSettled
  <2>5. ReceiptInv'
    BY <1>2, <2>3 DEF vars, IInv, ReceiptInv, StanzaSettled
  <2>6. BufferInv' /\ UsedInv'
    BY <1>2, <2>3 DEF vars, IInv, BufferInv, UsedInv
  <2>7. RetryInv'
    <3>1. \A m \in Msgs : PendingRetries(m)' \subseteq PendingRetries(m)
      BY <1>2 DEF vars, PendingRetries
    <3> QED BY <1>2, <3>1, RetryFrame DEF vars, IInv
  <2> QED BY <2>1, <2>2, <2>4, <2>5, <2>6, <2>7 DEF IInv
<1> QED BY <1>1, <1>2

\* The invariants hold in every reachable state.
LEMMA Invariance == Spec => [](TypeOK /\ IInv)
BY InitInv, StepInv, PTL DEF Spec

\* The state of the receiver has its types, handlerQueue never holds more than
\* handlerQueueSize nodes, and each handlerQueueLoop is busy exactly while it waits.
THEOREM TypeCorrect == Spec => []TypeOK
BY Invariance, PTL

\* As long as the queue has not overflowed, no handler was left in the background
\* and there was no second connection, handlerQueueLoop has one stanza handled at
\* a time.
THEOREM HandlersOneAtATime == Spec => []OneAtATime
<1>1. OrderInv => OneAtATime
  BY DEF OrderInv, OneAtATime, Active
<1> QED BY <1>1, Invariance, PTL DEF IInv

\* decryptMessages sends a delivery receipt only for a stanza whose readable parts
\* the event handlers have had, up to what a used key hides without the buffer.
THEOREM ReceiptsMeanHandled == Spec => []ReceiptMeansHandled
<1>1. TypeOK /\ ReceiptInv /\ UsedInv => ReceiptMeansHandled
  BY DEF ReceiptInv, UsedInv, ReceiptMeansHandled, StanzaSettled, Settled
<1> QED BY <1>1, Invariance, PTL DEF IInv

\* sendRetryReceipt asks for a message at most RetryLimit - 1 times in each life of
\* the process or connection.
THEOREM RetriesStayBounded == Spec => []RetriesBounded
<1>1. RetryInv => RetriesBounded
  BY DEF RetryInv
<1> QED BY <1>1, Invariance, PTL DEF IInv

-----------------------------------------------------------------------------
(* The refinement of AtLeastOnce.                                          *)

\* The parts the receipts cover, as AtLeastOnce sees them.
Covered == {p \in UNION {PartsOf(s) : s \in receipted} : Good(p)}

\* A step that leaves the store, the events and the receipts alone.
LEMMA PromiseStutters ==
    ASSUME UNCHANGED <<opt, kind, used, handled, swallowed, receipted>>
    PROVE  UNCHANGED Promise!promiseVars
<1>1. Covered' = Covered
  BY DEF Covered, PartsOf, NumParts, Good, BadPadding, Garbled, Msg
<1> QED BY <1>1 DEF Promise!promiseVars, Covered

\* Initially nothing is opened, finished or covered.
LEMMA PromiseInit == Init => Promise!Init
<1> SUFFICES ASSUME Init PROVE Promise!Init
  OBVIOUS
<1>1. opt.buffer \in BOOLEAN
  BY DEF Init
<1>2. Covered = {}
  BY DEF Init, Covered
<1>3. used \cup handled \cup swallowed = {} /\ handled \cup swallowed = {}
  BY DEF Init
<1> QED BY <1>1, <1>2, <1>3 DEF Promise!Init, Covered

\* A step of a handler opens a part, finishes one, or does neither.
LEMMA PromiseHandler ==
    ASSUME TypeOK, NEW j \in Jobs, Handler(j)
    PROVE  Promise!Next \/ UNCHANGED Promise!promiseVars
<1> DEFINE q == Part(j)
<1>0. q \in Parts /\ UNCHANGED <<opt, kind, receipted>>
  BY JobParts, HandlerSteps DEF HandlerStep, TypeOK
<1>1. Covered' = Covered
  BY <1>0 DEF Covered, PartsOf, NumParts, Good, BadPadding, Garbled, Msg
<1>2. ASSUME used' = used \cup {q}, UNCHANGED <<handled, swallowed>> PROVE Promise!Next
  <2>1. used' \cup handled' \cup swallowed' = (used \cup handled \cup swallowed) \cup {q}
    BY <1>2
  <2> HIDE DEF q
  <2>2. Promise!Open
    BY <1>0, <1>1, <1>2, <2>1 DEF Promise!Open, Covered
  <2> QED BY <2>2 DEF Promise!Next
<1>3. ASSUME handled' \cup swallowed' = (handled \cup swallowed) \cup {q}, used' = used
      PROVE  Promise!Next
  <2>1. /\ used' \cup handled' \cup swallowed' = (used \cup handled \cup swallowed) \cup {q}
        /\ handled' \cup swallowed' = (handled \cup swallowed) \cup {q}
    BY <1>3
  <2> HIDE DEF q
  <2>2. Promise!Finish
    BY <1>0, <1>1, <2>1 DEF Promise!Finish, Covered
  <2> QED BY <2>2 DEF Promise!Next
<1>4. \/ UNCHANGED <<used, handled, swallowed>>
      \/ used' = used \cup {q} /\ UNCHANGED <<handled, swallowed>>
      \/ used' = used /\ handled' = handled \cup {q} /\ swallowed' = swallowed
      \/ used' = used /\ handled' = handled /\ swallowed' = swallowed \cup {q}
  <2> USE DEF storeVars, eventVars
  <2>1. CASE Decrypt(j)
    BY <2>1 DEF Decrypt
  <2>2. CASE HandlePlaintextMessage(j)
    BY <2>2 DEF HandlePlaintextMessage, Dispatched, DispatchPanicked, DispatchFailed
  <2>3. CASE HandleDecryptedMessage(j)
    BY <2>3 DEF HandleDecryptedMessage, Dispatched, DispatchPanicked, DispatchFailed
  <2>4. CASE HandlePlaceholderResend(j)
    BY <2>4 DEF HandlePlaceholderResend, Dispatched, DispatchPanicked, DispatchFailed
  <2>5. CASE HandleEncryptedMessage(j) \/ DecryptBuffered(j) \/ DecryptOldCounter(j)
             \/ DecryptFails(j) \/ UnmarshalFails(j) \/ ClearBufferedEventPlaintext(j)
             \/ AnswerStanza(j) \/ DispatchUndecryptable(j) \/ HandlerReturns(j)
             \/ UnhandledType(j) \/ UnknownVersion(j)
    BY <2>5 DEF HandleEncryptedMessage, DecryptBuffered, DecryptOldCounter, DecryptFails,
                UnmarshalFails, ClearBufferedEventPlaintext, AnswerStanza,
                DispatchUndecryptable, HandlerReturns, UnhandledType, UnknownVersion
  <2> QED BY <2>1, <2>2, <2>3, <2>4, <2>5, Handler(j) DEF Handler
<1>5. CASE UNCHANGED <<used, handled, swallowed>>
  BY <1>0, <1>5, PromiseStutters
<1>6. CASE used' = used \cup {q} /\ UNCHANGED <<handled, swallowed>>
  BY <1>2, <1>6
<1>7. CASE used' = used /\ handled' = handled \cup {q} /\ swallowed' = swallowed
  <2>1. handled' \cup swallowed' = (handled \cup swallowed) \cup {q}
    BY <1>7
  <2> QED BY <1>3, <1>7, <2>1
<1>8. CASE used' = used /\ handled' = handled /\ swallowed' = swallowed \cup {q}
  <2>1. handled' \cup swallowed' = (handled \cup swallowed) \cup {q}
    BY <1>8
  <2> QED BY <1>3, <1>8, <2>1
<1> QED BY <1>4, <1>5, <1>6, <1>7, <1>8

\* A receipt covers only what is finished, or opened where that is enough.
LEMMA PromiseSender ==
    ASSUME TypeOK, ReceiptInv, NEW j \in Jobs, Sender(j)
    PROVE  Promise!Next \/ UNCHANGED Promise!promiseVars
<1>0. UNCHANGED <<opt, kind, used, handled, swallowed>>
  BY SenderSteps DEF SenderStep, storeVars, eventVars
<1>1. CASE receipted' = receipted
  BY <1>0, <1>1, PromiseStutters
<1>2. ASSUME receipted' # receipted PROVE Promise!Next
  <2>1. PICK w \in Sends : SendAck(j, w)
    BY <1>2 DEF Sender, RequestFromPhone, RetryCount, RetrySend
  <2>2. "receipt" \in work[j] /\ receipted' = receipted \cup {Stanza(j)}
    BY <1>2, <2>1 DEF SendAck
  <2>3. StanzaSettled(Stanza(j))
    BY <2>2 DEF ReceiptInv
  <2>4. \A s : PartsOf(s)' = PartsOf(s)
    BY <1>0 DEF PartsOf, NumParts, Msg
  <2>5. \A p : Good(p)' = Good(p)
    BY <1>0 DEF Good, BadPadding, Garbled, Msg
  <2>6. Covered \subseteq Covered'
    BY <2>2, <2>4, <2>5 DEF Covered
  <2>7. \A p \in Covered' : p \in Covered \/ Settled(p)
    BY <2>2, <2>3, <2>4, <2>5 DEF Covered, StanzaSettled
  <2>8. Covered' \subseteq Covered \cup (IF opt.buffer THEN handled \cup swallowed
                                                      ELSE used \cup handled \cup swallowed)
    BY <2>7 DEF Settled
  <2>9. Promise!Receipt
    BY <1>0, <2>6, <2>8 DEF Promise!Receipt, Covered
  <2> QED BY <2>9 DEF Promise!Next
<1> QED BY <1>1, <1>2

\* The other steps are not seen.
LEMMA PromiseElse ==
    ASSUME TypeOK, NextActions, \A j \in Jobs : ~Handler(j) /\ ~Sender(j)
    PROVE  UNCHANGED Promise!promiseVars
<1> USE DEF storeVars, eventVars
<1>1. ASSUME NEW s \in Stanzas, HandleFrame(s)
      PROVE  UNCHANGED <<opt, kind, used, handled, swallowed, receipted>>
  BY <1>1 DEF HandleFrame
<1>2. ASSUME NEW j \in Jobs, Unpark(j)
      PROVE  UNCHANGED <<opt, kind, used, handled, swallowed, receipted>>
  BY <1>2 DEF Unpark
<1>3. ASSUME NEW e \in Epochs, QueueLoopTakes(e) \/ QueueLoopGoesOn(e) \/ QueueLoopEnds(e)
      PROVE  UNCHANGED <<opt, kind, used, handled, swallowed, receipted>>
  BY <1>3 DEF QueueLoopTakes, QueueLoopGoesOn, QueueLoopEnds
<1>4. ASSUME Disconnected \/ Connect \/ Crash
      PROVE  UNCHANGED <<opt, kind, used, handled, swallowed, receipted>>
  BY <1>4 DEF Disconnected, Connect, Crash
<1> QED BY <1>1, <1>2, <1>3, <1>4, PromiseStutters DEF NextActions

\* Receiving implements AtLeastOnce: with the event buffer, the server forgets a
\* part only when the event handlers have had it; without it, only when its key
\* has been used.
THEOREM PromiseIsKept == Spec => PromiseKept
<1>1. TypeOK /\ IInv /\ [Next]_vars => [Promise!Next]_(Promise!promiseVars)
  <2> SUFFICES ASSUME TypeOK, IInv, [Next]_vars
               PROVE  Promise!Next \/ UNCHANGED Promise!promiseVars
    OBVIOUS
  <2>1. CASE UNCHANGED vars
    <3>1. UNCHANGED <<opt, kind, used, handled, swallowed, receipted>>
      BY <2>1 DEF vars
    <3> QED BY <3>1, PromiseStutters
  <2>2. CASE Next
    BY <2>2, NextSplit, PromiseHandler, PromiseSender, PromiseElse DEF IInv
  <2> QED BY <2>1, <2>2
<1> QED BY <1>1, PromiseInit, Invariance, PTL DEF Spec, PromiseKept, Promise!Spec

=============================================================================
