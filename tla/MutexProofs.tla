----------------------------- MODULE MutexProofs -----------------------------
(***************************************************************************)
(* Proofs about Mutex.  The first part holds for every Environment: types, *)
(* exact counters, no orphaned waiter.                                     *)
(***************************************************************************)
EXTENDS Mutex, FiniteSetTheorems, SequenceTheorems, TLAPS

\* Goroutines in a channel's queue are blocked in a send to it, each once.
QueueShape ==
    /\ \A l \in Lockers : \A i \in 1 .. Len(sendq[l]) :
         pc[sendq[l][i]] = "queued" /\ m[sendq[l][i]] = l
    /\ \A l \in Lockers : \A i, j \in 1 .. Len(sendq[l]) :
         i # j => sendq[l][i] # sendq[l][j]

\* What the holder of mutexLocker is doing.
HolderShape ==
    /\ mutexLocker \in Clients => /\ pc[mutexLocker] = "unlock"
                                   /\ taking = arg[mutexLocker]
                                   /\ left = NoEntries
    /\ mutexLocker \in Owners => conn[mutexLocker] = "closing"
    /\ taking # NoId => lockers[taking] # NoLocker

\* No locker serves two ids.
LockersInjective ==
    \A i, j \in Ids : lockers[i] = lockers[j] /\ lockers[i] # NoLocker => i = j

IInv ==
    /\ TypeOK
    /\ QueueShape
    /\ HolderShape
    /\ LockersInjective
    /\ NoOrphanWaiter
    /\ CounterExact
-----------------------------------------------------------------------------
LEMMA ConstantFacts ==
    /\ Conn \in [Clients -> Owners]
    /\ NoClient \notin Clients /\ NoLocker \notin Lockers /\ NoId \notin Ids
    /\ Free \notin Clients /\ Free \notin Owners
    /\ \A x \in Clients : x \notin Owners
BY ConstantsAssumption, NullsAssumption

\* Who gets the token when a receiver takes one from a channel with a queue.
LEMMA HeadIsQueued ==
    ASSUME TypeOK, QueueShape, NEW l \in Lockers, sendq[l] # <<>>
    PROVE  /\ Head(sendq[l]) \in Clients
           /\ pc[Head(sendq[l])] = "queued"
           /\ m[Head(sendq[l])] = l
           /\ Tail(sendq[l]) \in Seq(Clients)
           /\ Len(Tail(sendq[l])) = Len(sendq[l]) - 1
           /\ \A i \in 1 .. Len(sendq[l]) - 1 :
                Tail(sendq[l])[i] = sendq[l][i + 1] /\ Tail(sendq[l])[i] # Head(sendq[l])
<1>1. sendq[l] \in Seq(Clients)
  BY DEF TypeOK
<1>2. Len(sendq[l]) \in Nat /\ Len(sendq[l]) >= 1 /\ Head(sendq[l]) = sendq[l][1]
  BY <1>1
<1>3. /\ Head(sendq[l]) \in Clients
      /\ Tail(sendq[l]) \in Seq(Clients)
      /\ Len(Tail(sendq[l])) = Len(sendq[l]) - 1
      /\ \A i \in 1 .. Len(sendq[l]) - 1 : Tail(sendq[l])[i] = sendq[l][i + 1]
  BY <1>1, HeadTailProperties
<1>4. ASSUME NEW i \in 1 .. Len(sendq[l]) - 1
      PROVE  Tail(sendq[l])[i] # Head(sendq[l])
  <2>1. i + 1 \in 1 .. Len(sendq[l]) /\ 1 \in 1 .. Len(sendq[l]) /\ i + 1 # 1
    BY <1>2
  <2>2. sendq[l][i + 1] # sendq[l][1]
    BY <2>1 DEF QueueShape
  <2>3. QED
    BY <2>2, <1>2, <1>3
<1>5. pc[sendq[l][1]] = "queued" /\ m[sendq[l][1]] = l
  BY <1>2 DEF QueueShape
<1>6. QED
  BY <1>2, <1>3, <1>4, <1>5

\* The types, one action at a time.
LEMMA TypeStep ==
    ASSUME TypeOK, QueueShape, HolderShape, NoOrphanWaiter, [Next]_vars
    PROVE  TypeOK'
<1> USE ConstantFacts DEF mapVars, chanVars, recvVars, callVars, NoEntries, Pending
<1>1. CASE UNCHANGED vars
  BY <1>1 DEF vars, TypeOK
<1>2. ASSUME NEW o \in Owners, Connect(o)
      PROVE  TypeOK'
  BY <1>2 DEF Connect, TypeOK, ClientsOf
<1>3. ASSUME NEW c \in Clients, NEW id \in Ids, CallLock(c, id) \/ StrayUnlock(c, id)
      PROVE  TypeOK'
  <2>1. CASE CallLock(c, id)
    BY <2>1 DEF CallLock, TypeOK
  <2>2. CASE StrayUnlock(c, id)
    BY <2>2 DEF StrayUnlock, TypeOK
  <2>3. QED
    BY <1>3, <2>1, <2>2
<1>4. ASSUME NEW c \in Clients, CallUnlock(c)
      PROVE  TypeOK'
  BY <1>4 DEF CallUnlock, TypeOK
<1>5. ASSUME NEW o \in Owners, Drop(o)
      PROVE  TypeOK'
  BY <1>5 DEF Drop, TypeOK, ClientsOf
<1>6. ASSUME NEW c \in Clients, Lock(c)
      PROVE  TypeOK'
  <2>1. ASSUME NEW l \in Lockers, Register(c, l), pc[c] = "lock", mutexLocker = Free,
               ch' \in [Lockers -> Clients \cup {NoClient}],
               sendq' \in [Lockers -> Seq(Clients)]
        PROVE  TypeOK'
    BY <2>1 DEF Register, AddEntry, TypeOK
  <2>2. CASE LockFound(c)
    BY <2>1, <2>2 DEF LockFound, TypeOK
  <2>3. CASE LockNew(c)
    <3>1. PICK l \in Lockers :
            /\ Register(c, l)
            /\ ch' = [ch EXCEPT ![l] = NoClient]
            /\ sendq' = [sendq EXCEPT ![l] = <<>>]
      BY <2>3 DEF LockNew
    <3>2. ch' \in [Lockers -> Clients \cup {NoClient}]
      BY <3>1 DEF TypeOK
    <3>3. sendq' \in [Lockers -> Seq(Clients)]
      BY <3>1 DEF TypeOK
    <3>4. QED
      BY <2>1, <2>3, <3>1, <3>2, <3>3 DEF LockNew
  <2>4. QED
    BY <1>6, <2>2, <2>3 DEF Lock
<1>7. ASSUME NEW c \in Clients, Send(c)
      PROVE  TypeOK'
  <2>1. CASE SendHandOff(c)
    BY <2>1 DEF SendHandOff, ReceiverBlockedOn, Returned, TypeOK
  <2>2. CASE SendBuffer(c)
    BY <2>2 DEF SendBuffer, Returned, TypeOK
  <2>3. CASE SendQueue(c)
    BY <2>3 DEF SendQueue, TypeOK
  <2>4. QED
    BY <1>7, <2>1, <2>2, <2>3 DEF Send
<1>8. ASSUME NEW id \in Ids, Receive(id), lockers[id] # NoLocker,
             mutexLocker' \in Clients \cup Owners, left' \in [Ids -> Nat]
      PROVE  TypeOK'
  <2>1. CASE ReceiveBlocks(id)
    BY <1>8, <2>1 DEF Receive, ReceiveBlocks, TypeOK
  <2>2. CASE ReceiveLast(id)
    BY <1>8, <2>2 DEF Receive, ReceiveLast, TypeOK
  <2>3. CASE ReceiveNext(id)
    <3> DEFINE next == Head(sendq[lockers[id]])
    <3>1. lockers[id] \in Lockers /\ sendq[lockers[id]] # <<>>
      BY <1>8, <2>3 DEF TypeOK, ReceiveNext
    <3>2. next \in Clients /\ pc[next] = "queued" /\ Tail(sendq[lockers[id]]) \in Seq(Clients)
      BY <3>1, HeadIsQueued
    <3>3. QED
      BY <1>8, <2>3, <3>1, <3>2 DEF Receive, ReceiveNext, Returned, TypeOK
  <2>4. QED
    BY <1>8, <2>1, <2>2, <2>3 DEF Receive
<1>9. ASSUME NEW c \in Clients, Unlock(c)
      PROVE  TypeOK'
  <2>1. CASE UnlockNotFound(c)
    BY <2>1 DEF UnlockNotFound, TypeOK
  <2>2. CASE UnlockReceive(c)
    BY <1>8, <2>2 DEF UnlockReceive, TypeOK
  <2>3. CASE UnlockFinish(c)
    <3>1. taking \in Ids /\ pc[c] = "unlock"
      BY <2>3 DEF UnlockFinish, HolderShape, TypeOK
    <3>2. lockersCounters' \in [Ids -> Int] /\ lockers' \in [Ids -> Lockers \cup {NoLocker}]
      <4>1. \/ /\ lockers' = [lockers EXCEPT ![taking] = NoLocker]
               /\ lockersCounters' = [lockersCounters EXCEPT ![taking] = 0]
            \/ /\ lockersCounters' = [lockersCounters EXCEPT ![taking] = @ - 1]
               /\ lockers' = lockers
        BY <2>3, Zenon DEF UnlockFinish
      <4>2. lockers \in [Ids -> Lockers \cup {NoLocker}] /\ lockersCounters \in [Ids -> Int]
        BY DEF TypeOK
      <4>3. lockers' \in [Ids -> Lockers \cup {NoLocker}]
        BY <4>1, <4>2
      <4>4. lockersCounters' \in [Ids -> Int]
        BY <3>1, <4>1, <4>2
      <4>5. QED
        BY <4>3, <4>4
    <3>3. owners2Lockers' \in [Owners -> [Ids -> Nat]]
      BY <2>3, <3>1 DEF UnlockFinish, RemoveEntries, TypeOK
    <3>4. left = NoEntries
      BY <2>3 DEF UnlockFinish, HolderShape
    <3>5. QED
      BY <2>3, <3>1, <3>2, <3>3, <3>4 DEF UnlockFinish, TypeOK
  <2>4. QED
    BY <1>9, <2>1, <2>2, <2>3 DEF Unlock
<1>10. ASSUME NEW o \in Owners, UnlockForOwner(o)
       PROVE  TypeOK'
  <2>1. CASE UnlockForOwnerBegin(o)
    BY <2>1 DEF UnlockForOwnerBegin, TypeOK
  <2>2. CASE UnlockForOwnerReceive(o)
    BY <1>8, <2>2 DEF UnlockForOwnerReceive, TypeOK
  <2>3. CASE UnlockForOwnerCount(o)
    <3>1. taking \in Ids
      BY <2>3 DEF UnlockForOwnerCount, TypeOK
    <3>2. lockersCounters' \in [Ids -> Int]
      BY <2>3, <3>1 DEF UnlockForOwnerCount, TypeOK
    <3>3. QED
      BY <2>3, <3>1, <3>2 DEF UnlockForOwnerCount, TypeOK
  <2>4. CASE UnlockForOwnerPanic(o)
    BY <2>4 DEF UnlockForOwnerPanic, TypeOK
  <2>5. CASE UnlockForOwnerEnd(o)
    BY <2>5 DEF UnlockForOwnerEnd, TypeOK
  <2>6. QED
    BY <1>10, <2>1, <2>2, <2>3, <2>4, <2>5 DEF UnlockForOwner
<1>11. QED
  BY <1>1, <1>2, <1>3, <1>4, <1>5, <1>6, <1>7, <1>9, <1>10 DEF Next

\* A step that leaves the queues and the queued goroutines alone.
LEMMA QueueKept ==
    ASSUME TypeOK, QueueShape, sendq' = sendq,
           \A x \in Clients : pc[x] = "queued" => pc'[x] = "queued" /\ m'[x] = m[x]
    PROVE  QueueShape'
<1>1. \A l \in Lockers : \A i \in 1 .. Len(sendq[l]) : sendq[l][i] \in Clients
  <2>1. \A l \in Lockers : sendq[l] \in Seq(Clients)
    BY DEF TypeOK
  <2>2. QED
    BY <2>1, ElementOfSeq
<1>2. QED
  BY <1>1 DEF QueueShape

LEMMA QueueStep ==
    ASSUME TypeOK, QueueShape, HolderShape, [Next]_vars
    PROVE  QueueShape'
<1> USE ConstantFacts DEF mapVars, chanVars, recvVars, callVars
<1>1. CASE UNCHANGED vars
  BY <1>1, QueueKept DEF vars
<1>2. ASSUME NEW o \in Owners, Connect(o) \/ Drop(o)
      PROVE  QueueShape'
  <2>1. sendq' = sendq /\ m' = m
    BY <1>2 DEF Connect, Drop
  <2>2. \A x \in Clients : pc[x] = "queued" => pc'[x] = "queued"
    BY <1>2 DEF Connect, Drop
  <2>3. QED
    BY <2>1, <2>2, QueueKept
<1>3. ASSUME NEW c \in Clients, NEW id \in Ids, CallLock(c, id) \/ StrayUnlock(c, id)
      PROVE  QueueShape'
  <2>1. sendq' = sendq /\ m' = m
    BY <1>3 DEF CallLock, StrayUnlock
  <2>2. \A x \in Clients : pc[x] = "queued" => pc'[x] = "queued"
    BY <1>3 DEF CallLock, StrayUnlock, TypeOK
  <2>3. QED
    BY <2>1, <2>2, QueueKept
<1>4. ASSUME NEW c \in Clients, CallUnlock(c)
      PROVE  QueueShape'
  BY <1>4, QueueKept DEF CallUnlock, TypeOK
<1>5. ASSUME NEW c \in Clients, Lock(c)
      PROVE  QueueShape'
  <2>1. pc[c] = "lock"
    BY <1>5 DEF Lock, LockFound, LockNew
  <2>2. PICK l \in Lockers \cup {NoLocker} : Register(c, l)
    BY <1>5 DEF Lock, LockFound, LockNew, TypeOK
  <2>3. \A x \in Clients : pc[x] = "queued" => pc'[x] = "queued" /\ m'[x] = m[x]
    BY <2>1, <2>2 DEF Register, TypeOK
  <2>4. CASE LockFound(c)
    BY <2>3, <2>4, QueueKept DEF LockFound
  <2>5. CASE LockNew(c)
    <3>1. PICK k \in Lockers : sendq' = [sendq EXCEPT ![k] = <<>>]
      BY <2>5 DEF LockNew
    <3>2. \A j \in Lockers : sendq'[j] = IF j = k THEN <<>> ELSE sendq[j]
      BY <3>1 DEF TypeOK
    <3>3. \A j \in Lockers : \A i \in 1 .. Len(sendq[j]) : sendq[j][i] \in Clients
      <4>1. \A j \in Lockers : sendq[j] \in Seq(Clients)
        BY DEF TypeOK
      <4>2. QED
        BY <4>1, ElementOfSeq
    <3>4. 1 .. Len(<<>>) = {}
      OBVIOUS
    <3>5. QED
      BY <2>3, <3>2, <3>3, <3>4 DEF QueueShape
  <2>6. QED
    BY <1>5, <2>4, <2>5 DEF Lock
<1>6. ASSUME NEW c \in Clients, Send(c)
      PROVE  QueueShape'
  <2>1. CASE SendHandOff(c) \/ SendBuffer(c)
    <3>1. \A x \in Clients : pc[x] = "queued" => pc'[x] = "queued" /\ m'[x] = m[x]
      BY <2>1 DEF SendHandOff, SendBuffer, TypeOK
    <3>2. sendq' = sendq
      BY <2>1 DEF SendHandOff, SendBuffer
    <3>3. QED
      BY <3>1, <3>2, QueueKept
  <2>2. CASE SendQueue(c)
    <3> DEFINE q == sendq[m[c]]
    <3>1. m[c] \in Lockers /\ pc[c] = "send" /\ pc'[c] = "queued" /\ m' = m
      BY <2>2 DEF SendQueue, TypeOK, Pending
    <3>2. q \in Seq(Clients)
      BY <3>1 DEF TypeOK
    <3>3. /\ Len(Append(q, c)) = Len(q) + 1
          /\ Append(q, c)[Len(q) + 1] = c
          /\ \A i \in 1 .. Len(q) : Append(q, c)[i] = q[i]
      BY <3>2
    <3>4. \A l \in Lockers : sendq'[l] = IF l = m[c] THEN Append(q, c) ELSE sendq[l]
      BY <2>2 DEF SendQueue, TypeOK
    <3>5. \A l \in Lockers : \A i \in 1 .. Len(sendq[l]) :
            sendq[l][i] # c /\ sendq[l][i] \in Clients
      <4>1. \A l \in Lockers : sendq[l] \in Seq(Clients)
        BY DEF TypeOK
      <4>2. \A l \in Lockers : \A i \in 1 .. Len(sendq[l]) : sendq[l][i] \in Clients
        BY <4>1, ElementOfSeq
      <4>3. QED
        BY <3>1, <4>2 DEF QueueShape
    <3>6. \A x \in Clients : pc[x] = "queued" => pc'[x] = "queued"
      BY <2>2 DEF SendQueue, TypeOK
    <3>7. Len(q) \in Nat
      BY <3>2
    <3>11. /\ Len(sendq'[m[c]]) = Len(q) + 1
           /\ sendq'[m[c]][Len(q) + 1] = c
           /\ \A i \in 1 .. Len(q) : sendq'[m[c]][i] = q[i]
      <4>1. sendq'[m[c]] = Append(q, c)
        BY <3>1, <3>4
      <4>2. QED
        BY <4>1, <3>3
    <3>12. /\ \A i \in 1 .. Len(q) :
                q[i] \in Clients /\ q[i] # c /\ pc[q[i]] = "queued" /\ m[q[i]] = m[c]
           /\ \A i, j \in 1 .. Len(q) : i # j => q[i] # q[j]
      BY <3>1, <3>5 DEF QueueShape
    <3> HIDE DEF q
    <3>8. ASSUME NEW l \in Lockers, NEW i \in 1 .. Len(sendq'[l])
          PROVE  pc'[sendq'[l][i]] = "queued" /\ m'[sendq'[l][i]] = l
      <4>1. CASE sendq'[l] = sendq[l]
        <5>1. pc[sendq[l][i]] = "queued" /\ m[sendq[l][i]] = l /\ sendq[l][i] \in Clients
          BY <4>1, <3>5, <3>8 DEF QueueShape
        <5>2. QED
          BY <4>1, <5>1, <3>1, <3>6
      <4>2. CASE l = m[c] /\ i = Len(q) + 1
        BY <4>2, <3>1, <3>11
      <4>3. CASE l = m[c] /\ i \in 1 .. Len(q)
        <5>1. sendq'[l][i] = q[i]
          BY <4>3, <3>11
        <5>2. QED
          BY <4>3, <5>1, <3>1, <3>6, <3>12
      <4>4. QED
        <5>1. CASE l = m[c]
          <6>1. i \in 1 .. Len(q) + 1
            BY <5>1, <3>8, <3>11
          <6>2. i \in 1 .. Len(q) \/ i = Len(q) + 1
            BY <6>1, <3>7
          <6>3. QED
            BY <5>1, <6>2, <4>2, <4>3
        <5>2. QED
          BY <5>1, <4>1, <3>4
    <3>9. ASSUME NEW l \in Lockers, NEW i \in 1 .. Len(sendq'[l]), NEW j \in 1 .. Len(sendq'[l]),
                 i # j
          PROVE  sendq'[l][i] # sendq'[l][j]
      <4>1. CASE sendq'[l] = sendq[l]
        BY <4>1, <3>9 DEF QueueShape
      <4>2. CASE l = m[c]
        <5>1. /\ i \in 1 .. Len(q) \/ i = Len(q) + 1
              /\ j \in 1 .. Len(q) \/ j = Len(q) + 1
          <6>1. i \in 1 .. Len(q) + 1 /\ j \in 1 .. Len(q) + 1
            BY <4>2, <3>9, <3>11
          <6>2. QED
            BY <6>1, <3>7
        <5>2. CASE i \in 1 .. Len(q) /\ j \in 1 .. Len(q)
          <6>1. sendq'[l][i] = q[i] /\ sendq'[l][j] = q[j]
            BY <4>2, <5>2, <3>11
          <6>2. QED
            BY <6>1, <5>2, <3>9, <3>12
        <5>3. CASE i \in 1 .. Len(q) /\ j = Len(q) + 1
          BY <4>2, <5>3, <3>1, <3>11, <3>12
        <5>4. CASE j \in 1 .. Len(q) /\ i = Len(q) + 1
          BY <4>2, <5>4, <3>1, <3>11, <3>12
        <5>5. QED
          BY <5>1, <5>2, <5>3, <5>4, <3>9
      <4>3. QED
        BY <4>1, <4>2, <3>4
    <3>10. QED
      BY <3>8, <3>9 DEF QueueShape
  <2>3. QED
    BY <1>6, <2>1, <2>2 DEF Send
<1>7. ASSUME NEW id \in Ids, Receive(id), lockers[id] # NoLocker
      PROVE  QueueShape'
  <2>1. CASE ReceiveBlocks(id) \/ ReceiveLast(id)
    BY <2>1, QueueKept DEF ReceiveBlocks, ReceiveLast
  <2>2. CASE ReceiveNext(id)
    <3> DEFINE k == lockers[id]
               next == Head(sendq[k])
    <3>1. k \in Lockers /\ sendq[k] # <<>>
      BY <1>7, <2>2 DEF TypeOK, ReceiveNext
    <3>2. /\ next \in Clients
          /\ Len(Tail(sendq[k])) = Len(sendq[k]) - 1
          /\ \A i \in 1 .. Len(sendq[k]) - 1 :
               Tail(sendq[k])[i] = sendq[k][i + 1] /\ Tail(sendq[k])[i] # next
          /\ pc[next] = "queued" /\ m[next] = k
      BY <3>1, HeadIsQueued
    <3>3. \A l \in Lockers : sendq'[l] = IF l = k THEN Tail(sendq[k]) ELSE sendq[l]
      BY <2>2, <3>1 DEF ReceiveNext, TypeOK
    <3>4. \A x \in Clients : x # next => pc'[x] = pc[x] /\ m'[x] = m[x]
      BY <2>2, <3>2 DEF ReceiveNext, TypeOK
    <3>5. \A l \in Lockers : sendq[l] \in Seq(Clients) /\ Len(sendq[l]) \in Nat
      BY DEF TypeOK
    <3>6. \A l \in Lockers : \A i \in 1 .. Len(sendq[l]) : sendq[l][i] \in Clients
      BY <3>5, ElementOfSeq
    <3>7. ASSUME NEW l \in Lockers, NEW i \in 1 .. Len(sendq'[l])
          PROVE  pc'[sendq'[l][i]] = "queued" /\ m'[sendq'[l][i]] = l
      <4>1. CASE l # k
        <5>1. sendq'[l] = sendq[l]
          BY <4>1, <3>3
        <5>2. pc[sendq[l][i]] = "queued" /\ m[sendq[l][i]] = l /\ sendq[l][i] \in Clients
          BY <5>1, <3>6, <3>7 DEF QueueShape
        <5>3. QED
          BY <4>1, <5>1, <5>2, <3>2, <3>4
      <4>2. CASE l = k
        <5>1. sendq'[l] = Tail(sendq[k]) /\ i \in 1 .. Len(sendq[k]) - 1
          BY <4>2, <3>2, <3>3, <3>7
        <5>2. i + 1 \in 1 .. Len(sendq[k]) /\ sendq'[l][i] = sendq[k][i + 1]
          BY <5>1, <3>1, <3>2, <3>5
        <5>3. sendq[k][i + 1] \in Clients /\ sendq[k][i + 1] # next
          BY <5>1, <5>2, <3>1, <3>2, <3>6
        <5>4. pc[sendq[k][i + 1]] = "queued" /\ m[sendq[k][i + 1]] = k
          BY <5>2, <3>1 DEF QueueShape
        <5>5. QED
          BY <4>2, <5>2, <5>3, <5>4, <3>4
      <4>3. QED
        BY <4>1, <4>2
    <3>8. ASSUME NEW l \in Lockers, NEW i \in 1 .. Len(sendq'[l]), NEW j \in 1 .. Len(sendq'[l]),
                 i # j
          PROVE  sendq'[l][i] # sendq'[l][j]
      <4>1. CASE l # k
        BY <4>1, <3>3, <3>8 DEF QueueShape
      <4>2. CASE l = k
        <5>1. sendq'[l] = Tail(sendq[k]) /\ i \in 1 .. Len(sendq[k]) - 1
              /\ j \in 1 .. Len(sendq[k]) - 1
          BY <4>2, <3>2, <3>3, <3>8
        <5>2. i + 1 \in 1 .. Len(sendq[k]) /\ sendq'[l][i] = sendq[k][i + 1]
          BY <5>1, <3>1, <3>2, <3>5
        <5>3. j + 1 \in 1 .. Len(sendq[k]) /\ sendq'[l][j] = sendq[k][j + 1]
          BY <5>1, <3>1, <3>2, <3>5
        <5>4. i + 1 # j + 1
          BY <3>8, <5>1
        <5>5. QED
          BY <5>2, <5>3, <5>4, <3>1 DEF QueueShape
      <4>3. QED
        BY <4>1, <4>2
    <3>9. QED
      BY <3>7, <3>8 DEF QueueShape
  <2>3. QED
    BY <1>7, <2>1, <2>2 DEF Receive
<1>8. ASSUME NEW c \in Clients, Unlock(c)
      PROVE  QueueShape'
  <2>1. CASE UnlockNotFound(c)
    BY <2>1, QueueKept DEF UnlockNotFound, TypeOK
  <2>2. CASE UnlockReceive(c)
    BY <1>7, <2>2 DEF UnlockReceive, TypeOK
  <2>3. CASE UnlockFinish(c)
    <3>1. pc[c] = "unlock" /\ sendq' = sendq /\ m' = m /\ pc' = [pc EXCEPT ![c] = "idle"]
      BY <2>3 DEF UnlockFinish, HolderShape
    <3>2. QED
      BY <3>1, QueueKept DEF TypeOK
  <2>4. QED
    BY <1>8, <2>1, <2>2, <2>3 DEF Unlock
<1>9. ASSUME NEW o \in Owners, UnlockForOwner(o)
      PROVE  QueueShape'
  <2>1. CASE UnlockForOwnerReceive(o)
    BY <1>7, <2>1 DEF UnlockForOwnerReceive
  <2>2. CASE \/ UnlockForOwnerBegin(o) \/ UnlockForOwnerCount(o)
             \/ UnlockForOwnerPanic(o) \/ UnlockForOwnerEnd(o)
    <3>1. sendq' = sendq /\ pc' = pc /\ m' = m
      BY <2>2 DEF UnlockForOwnerBegin, UnlockForOwnerCount, UnlockForOwnerPanic,
                  UnlockForOwnerEnd
    <3>2. QED
      BY <3>1, QueueKept
  <2>3. QED
    BY <1>9, <2>1, <2>2 DEF UnlockForOwner
<1>10. QED
  BY <1>1, <1>2, <1>3, <1>4, <1>5, <1>6, <1>8, <1>9 DEF Next

\* A receive on the locker of id, begun by whoever holds mutexLocker.
LEMMA ReceiveEffect ==
    ASSUME TypeOK, QueueShape, NEW id \in Ids, lockers[id] # NoLocker, Receive(id)
    PROVE  /\ UNCHANGED <<mapVars, conn, arg>> /\ taking' = id
           /\ \A x \in Clients : pc[x] # "queued" => pc'[x] = pc[x] /\ m'[x] = m[x]
           /\ \A x \in Clients : pc'[x] \in Pending => pc'[x] = pc[x] /\ m'[x] = m[x]
<1>1. CASE ReceiveBlocks(id) \/ ReceiveLast(id)
  BY <1>1 DEF Receive, ReceiveBlocks, ReceiveLast
<1>2. CASE ReceiveNext(id)
  <2> DEFINE next == Head(sendq[lockers[id]])
  <2>1. lockers[id] \in Lockers /\ sendq[lockers[id]] # <<>>
    BY <1>2 DEF TypeOK, ReceiveNext
  <2>2. next \in Clients /\ pc[next] = "queued"
    BY <2>1, HeadIsQueued
  <2>3. \A x \in Clients : x # next => pc'[x] = pc[x] /\ m'[x] = m[x]
    BY <1>2, <2>2 DEF ReceiveNext, TypeOK
  <2>4. pc'[next] \notin Pending
    BY <1>2, <2>2 DEF ReceiveNext, Returned, Pending, TypeOK
  <2>5. QED
    BY <2>2, <2>3, <2>4 DEF Receive
<1>3. QED
  BY <1>1, <1>2 DEF Receive

LEMMA HolderStep ==
    ASSUME TypeOK, QueueShape, HolderShape, [Next]_vars
    PROVE  HolderShape'
<1> USE ConstantFacts DEF mapVars, chanVars, recvVars, callVars
<1>1. CASE UNCHANGED vars
  BY <1>1 DEF vars, HolderShape
<1>2. ASSUME NEW o \in Owners, Connect(o)
      PROVE  HolderShape'
  BY <1>2 DEF Connect, HolderShape, TypeOK, ClientsOf
<1>3. ASSUME NEW c \in Clients, NEW id \in Ids, CallLock(c, id) \/ StrayUnlock(c, id)
      PROVE  HolderShape'
  BY <1>3 DEF CallLock, StrayUnlock, HolderShape, TypeOK
<1>4. ASSUME NEW c \in Clients, CallUnlock(c)
      PROVE  HolderShape'
  BY <1>4 DEF CallUnlock, HolderShape, TypeOK
<1>5. ASSUME NEW o \in Owners, Drop(o)
      PROVE  HolderShape'
  BY <1>5 DEF Drop, HolderShape, TypeOK
<1>6. ASSUME NEW c \in Clients, Lock(c)
      PROVE  HolderShape'
  <2>1. mutexLocker = Free /\ mutexLocker' = Free /\ taking' = taking
    BY <1>6 DEF Lock, LockFound, LockNew, Register
  <2>2. taking = NoId
    BY <2>1 DEF TypeOK
  <2>3. QED
    BY <2>1, <2>2 DEF HolderShape
<1>7. ASSUME NEW c \in Clients, Send(c)
      PROVE  HolderShape'
  <2>1. pc[c] = "send" /\ UNCHANGED <<lockers, mutexLocker, taking, left, conn, arg>>
    BY <1>7 DEF Send, SendHandOff, SendBuffer, SendQueue
  <2>2. \A x \in Clients : x # c => pc'[x] = pc[x]
    BY <1>7 DEF Send, SendHandOff, SendBuffer, SendQueue, TypeOK
  <2>3. QED
    BY <2>1, <2>2 DEF HolderShape
<1>8. ASSUME NEW c \in Clients, Unlock(c)
      PROVE  HolderShape'
  <2>1. CASE UnlockNotFound(c)
    BY <2>1 DEF UnlockNotFound, HolderShape, TypeOK
  <2>2. CASE UnlockReceive(c)
    <3>1. /\ arg[c] \in Ids /\ pc[c] = "unlock" /\ lockers[arg[c]] # NoLocker
          /\ Receive(arg[c]) /\ mutexLocker' = c /\ left' = left /\ left = NoEntries
      BY <2>2 DEF UnlockReceive, TypeOK
    <3>2. /\ UNCHANGED <<lockers, conn, arg>> /\ taking' = arg[c]
          /\ pc'[c] = pc[c]
      BY <3>1, ReceiveEffect
    <3>3. QED
      BY <3>1, <3>2 DEF HolderShape
  <2>3. CASE UnlockFinish(c)
    BY <2>3 DEF UnlockFinish, HolderShape
  <2>4. QED
    BY <1>8, <2>1, <2>2, <2>3 DEF Unlock
<1>9. ASSUME NEW o \in Owners, UnlockForOwner(o)
      PROVE  HolderShape'
  <2>1. CASE UnlockForOwnerBegin(o)
    BY <2>1 DEF UnlockForOwnerBegin, HolderShape, TypeOK
  <2>2. CASE UnlockForOwnerReceive(o)
    <3>1. PICK id \in Ids : lockers[id] # NoLocker /\ Receive(id)
      BY <2>2 DEF UnlockForOwnerReceive
    <3>2. UNCHANGED <<lockers, conn, arg>> /\ taking' = id
      BY <3>1, ReceiveEffect
    <3>3. mutexLocker = o /\ mutexLocker' = o
      BY <2>2 DEF UnlockForOwnerReceive
    <3>4. QED
      BY <3>1, <3>2, <3>3 DEF HolderShape
  <2>3. CASE UnlockForOwnerCount(o)
    BY <2>3 DEF UnlockForOwnerCount, HolderShape
  <2>4. CASE UnlockForOwnerPanic(o) \/ UnlockForOwnerEnd(o)
    BY <2>4 DEF UnlockForOwnerPanic, UnlockForOwnerEnd, HolderShape
  <2>5. QED
    BY <1>9, <2>1, <2>2, <2>3, <2>4 DEF UnlockForOwner
<1>10. QED
  BY <1>1, <1>2, <1>3, <1>4, <1>5, <1>6, <1>7, <1>8, <1>9 DEF Next

\* Steps other than making a locker and finishing an Unlock leave the map alone.
LEMMA LockersKept ==
    ASSUME TypeOK, QueueShape, [Next]_vars,
           \A c \in Clients : ~LockNew(c) /\ ~UnlockFinish(c)
    PROVE  lockers' = lockers
<1> USE DEF mapVars, chanVars, recvVars, callVars
<1>1. CASE UNCHANGED vars
  BY <1>1 DEF vars
<1>2. ASSUME NEW o \in Owners, Connect(o) \/ Drop(o) \/ UnlockForOwner(o)
      PROVE  lockers' = lockers
  BY <1>2 DEF Connect, Drop, UnlockForOwner, UnlockForOwnerBegin, UnlockForOwnerReceive,
     UnlockForOwnerCount, UnlockForOwnerPanic, UnlockForOwnerEnd, Receive
<1>3. ASSUME NEW c \in Clients, NEW id \in Ids, CallLock(c, id) \/ StrayUnlock(c, id)
      PROVE  lockers' = lockers
  BY <1>3 DEF CallLock, StrayUnlock
<1>4. ASSUME NEW c \in Clients, CallUnlock(c) \/ Send(c) \/ Unlock(c)
      PROVE  lockers' = lockers
  BY <1>4 DEF CallUnlock, Send, SendHandOff, SendBuffer, SendQueue, Unlock, UnlockNotFound,
     UnlockReceive, Receive
<1>5. ASSUME NEW c \in Clients, Lock(c)
      PROVE  lockers' = lockers
  <2>1. LockFound(c)
    BY <1>5 DEF Lock
  <2>2. arg[c] \in Ids /\ lockers' = [lockers EXCEPT ![arg[c]] = lockers[arg[c]]]
    BY <2>1 DEF LockFound, Register, TypeOK
  <2>3. QED
    BY <2>2 DEF TypeOK
<1>6. QED
  BY <1>1, <1>2, <1>3, <1>4, <1>5 DEF Next

LEMMA InjectiveStep ==
    ASSUME TypeOK, QueueShape, LockersInjective, [Next]_vars
    PROVE  LockersInjective'
<1>1. ASSUME NEW c \in Clients, LockNew(c)
      PROVE  LockersInjective'
  <2>1. arg[c] \in Ids /\ lockers \in [Ids -> Lockers \cup {NoLocker}]
    BY <1>1 DEF LockNew, TypeOK
  <2>2. PICK l \in Lockers : /\ \A id \in Ids : lockers[id] # l
                             /\ lockers' = [lockers EXCEPT ![arg[c]] = l]
    BY <1>1 DEF LockNew, Register
  <2>3. QED
    BY <2>1, <2>2 DEF LockersInjective
<1>2. ASSUME NEW c \in Clients, UnlockFinish(c)
      PROVE  LockersInjective'
  <2>1. lockers' = [lockers EXCEPT ![taking] = NoLocker] \/ lockers' = lockers
    BY <1>2, Zenon DEF UnlockFinish
  <2>2. lockers \in [Ids -> Lockers \cup {NoLocker}]
    BY DEF TypeOK
  <2>3. QED
    BY <2>1, <2>2 DEF LockersInjective
<1>3. CASE \A c \in Clients : ~LockNew(c) /\ ~UnlockFinish(c)
  BY <1>3, LockersKept DEF LockersInjective
<1>4. QED
  BY <1>1, <1>2, <1>3

LEMMA WaitersFinite ==
    ASSUME NEW id
    PROVE  IsFiniteSet(Waiters(id)) /\ Cardinality(Waiters(id)) \in Nat
<1>1. Waiters(id) \in SUBSET Clients
  BY DEF Waiters
<1>2. QED
  BY <1>1, ConstantsAssumption, FS_Subset, FS_CardinalityType

\* When the last token an id is counted for has been received, nobody waits for it.
LEMMA NoneLeftNoWaiter ==
    ASSUME TypeOK, CounterExact, got, NoneLeft(taking)
    PROVE  Waiters(taking) = {} /\ Token(taking) = NoClient
<1>1. taking \in Ids
  BY DEF TypeOK
<1>2. lockersCounters[taking] \in Int /\ lockersCounters[taking] = 1
  BY <1>1 DEF TypeOK, NoneLeft
<1>3. 1 = Cardinality(Waiters(taking)) + (IF Token(taking) # NoClient THEN 1 ELSE 0) + 1
  BY <1>1, <1>2 DEF CounterExact
<1>4. Cardinality(Waiters(taking)) \in Nat
  BY WaitersFinite
<1>5. Cardinality(Waiters(taking)) = 0 /\ Token(taking) = NoClient
  BY <1>3, <1>4
<1>6. QED
  BY <1>5, WaitersFinite, FS_EmptySet

LEMMA OrphanStep ==
    ASSUME TypeOK, QueueShape, HolderShape, NoOrphanWaiter, CounterExact, [Next]_vars
    PROVE  NoOrphanWaiter'
<1> USE ConstantFacts DEF mapVars, chanVars, recvVars, callVars
<1>1. CASE UNCHANGED vars
  BY <1>1 DEF vars, NoOrphanWaiter
<1>2. ASSUME \A x \in Clients : pc'[x] \in Pending =>
                 pc[x] \in Pending /\ arg'[x] = arg[x] /\ m'[x] = m[x],
             lockers' = lockers
      PROVE  NoOrphanWaiter'
  BY <1>2 DEF NoOrphanWaiter
<1>3. ASSUME NEW o \in Owners, Connect(o) \/ Drop(o)
      PROVE  NoOrphanWaiter'
  <2>1. CASE Connect(o)
    BY <2>1, <1>2 DEF Connect, Pending
  <2>2. CASE Drop(o)
    BY <2>2, <1>2 DEF Drop, Pending
  <2>3. QED
    BY <1>3, <2>1, <2>2
<1>4. ASSUME NEW c \in Clients, NEW id \in Ids, CallLock(c, id) \/ StrayUnlock(c, id)
      PROVE  NoOrphanWaiter'
  <2>1. /\ pc'[c] \notin Pending /\ lockers' = lockers /\ m' = m
        /\ \A x \in Clients : x # c => pc'[x] = pc[x] /\ arg'[x] = arg[x]
    BY <1>4 DEF CallLock, StrayUnlock, Pending, TypeOK
  <2>2. QED
    BY <2>1, <1>2
<1>5. ASSUME NEW c \in Clients, CallUnlock(c)
      PROVE  NoOrphanWaiter'
  BY <1>2, <1>5 DEF CallUnlock, Pending, TypeOK
<1>6. ASSUME NEW c \in Clients, Lock(c)
      PROVE  NoOrphanWaiter'
  <2>1. CASE LockFound(c)
    <3>1. /\ pc' = [pc EXCEPT ![c] = "send"] /\ m' = [m EXCEPT ![c] = lockers[arg[c]]]
          /\ arg' = arg /\ arg[c] \in Ids /\ lockers[arg[c]] # NoLocker
      BY <2>1 DEF LockFound, Register, TypeOK
    <3>2. lockers' = lockers
      BY <2>1, <3>1 DEF LockFound, Register, TypeOK
    <3>3. QED
      BY <3>1, <3>2 DEF NoOrphanWaiter, Pending, TypeOK
  <2>2. CASE LockNew(c)
    <3>1. PICK l \in Lockers :
            /\ lockers' = [lockers EXCEPT ![arg[c]] = l]
            /\ pc' = [pc EXCEPT ![c] = "send"] /\ m' = [m EXCEPT ![c] = l] /\ arg' = arg
      BY <2>2 DEF LockNew, Register
    <3>2. arg[c] \in Ids /\ lockers[arg[c]] = NoLocker
      BY <2>2 DEF LockNew, TypeOK
    <3>3. \A x \in Clients : x # c /\ pc'[x] \in Pending =>
            /\ pc[x] \in Pending /\ m'[x] = m[x] /\ arg[x] # arg[c] /\ arg[x] \in Ids
      BY <3>1, <3>2 DEF NoOrphanWaiter, TypeOK, Pending
    <3>4. \A x \in Clients : x # c /\ pc'[x] \in Pending =>
            lockers'[arg'[x]] # NoLocker /\ m'[x] = lockers'[arg'[x]]
      BY <3>1, <3>3 DEF NoOrphanWaiter, TypeOK
    <3>5. lockers'[arg'[c]] # NoLocker /\ m'[c] = lockers'[arg'[c]]
      BY <3>1, <3>2 DEF TypeOK
    <3>6. QED
      BY <3>4, <3>5 DEF NoOrphanWaiter
  <2>3. QED
    BY <1>6, <2>1, <2>2 DEF Lock
<1>7. ASSUME NEW c \in Clients, Send(c)
      PROVE  NoOrphanWaiter'
  <2>1. CASE SendHandOff(c)
    BY <2>1, <1>2 DEF SendHandOff, Returned, Pending, TypeOK
  <2>2. CASE SendBuffer(c)
    BY <2>2, <1>2 DEF SendBuffer, Returned, Pending, TypeOK
  <2>3. CASE SendQueue(c)
    BY <2>3, <1>2 DEF SendQueue, Pending, TypeOK
  <2>4. QED
    BY <1>7, <2>1, <2>2, <2>3 DEF Send
<1>8. ASSUME NEW c \in Clients, Unlock(c)
      PROVE  NoOrphanWaiter'
  <2>1. CASE UnlockNotFound(c)
    BY <2>1, <1>2 DEF UnlockNotFound, Pending, TypeOK
  <2>2. CASE UnlockReceive(c)
    <3>1. arg[c] \in Ids /\ lockers[arg[c]] # NoLocker /\ Receive(arg[c])
      BY <2>2 DEF UnlockReceive, TypeOK
    <3>2. QED
      BY <3>1, <1>2, ReceiveEffect
  <2>3. CASE UnlockFinish(c)
    <3>1. /\ got /\ taking \in Ids /\ pc[c] = "unlock" /\ m' = m
          /\ pc' = [pc EXCEPT ![c] = "idle"] /\ arg' = [arg EXCEPT ![c] = NoId]
      BY <2>3 DEF UnlockFinish, HolderShape, TypeOK
    <3>2. \A x \in Clients : pc'[x] \in Pending =>
            pc[x] \in Pending /\ arg'[x] = arg[x] /\ m'[x] = m[x]
      BY <3>1 DEF Pending, TypeOK
    <3>3. CASE NoneLeft(taking)
      <4>1. lockers' = [lockers EXCEPT ![taking] = NoLocker]
        BY <2>3, <3>3, Zenon DEF UnlockFinish
      <4>2. \A x \in Clients : pc[x] \in Pending => arg[x] # taking /\ arg[x] \in Ids
        BY <3>1, <3>3, NoneLeftNoWaiter DEF Waiters, Pending, TypeOK
      <4>3. \A x \in Clients : pc[x] \in Pending => lockers'[arg[x]] = lockers[arg[x]]
        BY <4>1, <4>2 DEF TypeOK
      <4>4. QED
        BY <3>2, <4>3 DEF NoOrphanWaiter
    <3>4. CASE ~NoneLeft(taking)
      <4>1. lockers' = lockers
        BY <2>3, <3>4, Zenon DEF UnlockFinish
      <4>2. QED
        BY <3>2, <4>1, <1>2
    <3>5. QED
      BY <3>3, <3>4
  <2>4. QED
    BY <1>8, <2>1, <2>2, <2>3 DEF Unlock
<1>9. ASSUME NEW o \in Owners, UnlockForOwner(o)
      PROVE  NoOrphanWaiter'
  <2>1. CASE UnlockForOwnerReceive(o)
    <3>1. PICK id \in Ids : lockers[id] # NoLocker /\ Receive(id)
      BY <2>1 DEF UnlockForOwnerReceive
    <3>2. QED
      BY <3>1, <1>2, ReceiveEffect
  <2>2. CASE \/ UnlockForOwnerBegin(o) \/ UnlockForOwnerCount(o)
             \/ UnlockForOwnerPanic(o) \/ UnlockForOwnerEnd(o)
    BY <2>2, <1>2 DEF UnlockForOwnerBegin, UnlockForOwnerCount, UnlockForOwnerPanic,
                      UnlockForOwnerEnd
  <2>3. QED
    BY <1>9, <2>1, <2>2 DEF UnlockForOwner
<1>10. QED
  BY <1>1, <1>3, <1>4, <1>5, <1>6, <1>7, <1>8, <1>9 DEF Next

TokenCount(id) == IF Token(id) # NoClient THEN 1 ELSE 0
Uncounted(id) == IF taking = id /\ got THEN 1 ELSE 0

LEMMA CounterExactParts ==
    /\ CounterExact <=> \A id \in Ids :
         lockersCounters[id] = Cardinality(Waiters(id)) + TokenCount(id) + Uncounted(id)
    /\ CounterExact' <=> \A id \in Ids :
         lockersCounters'[id] = Cardinality(Waiters(id)') + TokenCount(id)' + Uncounted(id)'
BY DEF CounterExact, TokenCount, Uncounted

\* A step that changes no counter, no waiter, no token and no receive.
LEMMA CounterKept ==
    ASSUME CounterExact, UNCHANGED <<lockers, lockersCounters, ch, taking, got>>,
           \A x \in Clients : /\ pc'[x] \in Pending <=> pc[x] \in Pending
                              /\ pc[x] \in Pending => arg'[x] = arg[x]
    PROVE  CounterExact'
<1>1. \A id : Waiters(id)' = Waiters(id)
  BY DEF Waiters
<1>2. \A id : Token(id)' = Token(id)
  BY DEF Token
<1>3. QED
  BY <1>1, <1>2 DEF CounterExact

\* What a receive does to the waiters and the token of its id.
LEMMA ReceiveCounts ==
    ASSUME TypeOK, QueueShape, LockersInjective, NoOrphanWaiter, CounterExact,
           NEW id \in Ids, lockers[id] # NoLocker, Receive(id), taking = NoId
    PROVE  CounterExact'
<1> USE ConstantFacts DEF mapVars, chanVars
<1>0. UNCHANGED <<lockers, lockersCounters, arg>> /\ taking' = id /\ ~got
  BY DEF Receive, TypeOK
<1>1. CASE ReceiveBlocks(id)
  <2>1. ch' = ch /\ pc' = pc /\ ~got'
    BY <1>1 DEF ReceiveBlocks
  <2>2. \A i : Waiters(i)' = Waiters(i) /\ Token(i)' = Token(i)
    BY <1>0, <2>1 DEF Waiters, Token
  <2>3. QED
    BY <1>0, <2>1, <2>2 DEF CounterExact
<1>2. CASE ReceiveLast(id)
  <2>1. pc' = pc /\ got' /\ ch[lockers[id]] # NoClient /\ ch' = [ch EXCEPT ![lockers[id]] = NoClient]
    BY <1>2 DEF ReceiveLast
  <2>2. \A i : Waiters(i)' = Waiters(i)
    BY <1>0, <2>1 DEF Waiters
  <2>3. lockers[id] \in Lockers /\ Token(id) # NoClient /\ Token(id)' = NoClient
    BY <1>0, <2>1 DEF Token, TypeOK
  <2>4. \A i \in Ids : i # id => Token(i)' = Token(i)
    BY <1>0, <2>1 DEF Token, TypeOK, LockersInjective
  <2>5. \A i \in Ids : TokenCount(i)' + Uncounted(i)' = TokenCount(i) + Uncounted(i)
    BY <1>0, <2>1, <2>3, <2>4 DEF TokenCount, Uncounted
  <2>6. \A i \in Ids : TokenCount(i)' \in Nat /\ Uncounted(i)' \in Nat
                       /\ TokenCount(i) \in Nat /\ Uncounted(i) \in Nat
    BY DEF TokenCount, Uncounted
  <2>7. \A i \in Ids : Cardinality(Waiters(i)) \in Nat
    BY WaitersFinite
  <2> QED
    BY <1>0, <2>2, <2>5, <2>6, <2>7, CounterExactParts
<1>3. CASE ReceiveNext(id)
  <2> DEFINE next == Head(sendq[lockers[id]])
  <2>1. lockers[id] \in Lockers /\ sendq[lockers[id]] # <<>>
    BY <1>3 DEF TypeOK, ReceiveNext
  <2>2. next \in Clients /\ pc[next] = "queued" /\ m[next] = lockers[id]
    BY <2>1, HeadIsQueued
  <2>3. arg[next] \in Ids /\ arg[next] = id
    BY <2>1, <2>2 DEF NoOrphanWaiter, LockersInjective, TypeOK, Pending
  <2>4. got' /\ ch[lockers[id]] # NoClient /\ ch' = [ch EXCEPT ![lockers[id]] = next]
        /\ pc' = [pc EXCEPT ![next] = Returned(next)]
    BY <1>3 DEF ReceiveNext
  <2>5. pc'[next] \notin Pending /\ \A x \in Clients : x # next => pc'[x] = pc[x]
    BY <2>2, <2>4 DEF Returned, Pending, TypeOK
  <2>6. Waiters(id)' = Waiters(id) \ {next} /\ next \in Waiters(id)
    BY <1>0, <2>2, <2>3, <2>5 DEF Waiters, Pending
  <2>7. \A i \in Ids : i # id => Waiters(i)' = Waiters(i)
    BY <1>0, <2>2, <2>3, <2>5 DEF Waiters, Pending
  <2>8. Token(id) # NoClient /\ Token(id)' # NoClient
    BY <1>0, <2>1, <2>2, <2>4 DEF Token, TypeOK
  <2>9. \A i \in Ids : i # id => Token(i)' = Token(i)
    BY <1>0, <2>1, <2>4 DEF Token, TypeOK, LockersInjective
  <2>10. Cardinality(Waiters(id)') = Cardinality(Waiters(id)) - 1
    <3>1. IsFiniteSet(Waiters(id))
      BY WaitersFinite
    <3>2. Cardinality(Waiters(id) \ {next}) = Cardinality(Waiters(id)) - 1
      BY <2>6, <3>1, FS_RemoveElement
    <3>3. QED
      BY <2>6, <3>2, Zenon
  <2>11. Cardinality(Waiters(id)) \in Nat
    BY WaitersFinite
  <2>12. Uncounted(id) = 0 /\ Uncounted(id)' = 1 /\ TokenCount(id)' = TokenCount(id)
         /\ TokenCount(id) = 1
    BY <1>0, <2>4, <2>8 DEF Uncounted, TokenCount
  <2>13. \A i \in Ids : i # id =>
           Uncounted(i)' = Uncounted(i) /\ TokenCount(i)' = TokenCount(i)
    BY <1>0, <2>9 DEF Uncounted, TokenCount
  <2>14. ASSUME NEW i \in Ids
         PROVE  lockersCounters'[i] = Cardinality(Waiters(i)') + TokenCount(i)' + Uncounted(i)'
    <3>1. lockersCounters[i] = Cardinality(Waiters(i)) + TokenCount(i) + Uncounted(i)
      BY CounterExactParts
    <3>2. CASE i = id
      BY <1>0, <3>1, <3>2, <2>10, <2>11, <2>12
    <3>3. CASE i # id
      BY <1>0, <3>1, <3>3, <2>7, <2>13
    <3>4. QED
      BY <3>2, <3>3
  <2>15. \A i \in Ids :
           lockersCounters'[i] = Cardinality(Waiters(i)') + TokenCount(i)' + Uncounted(i)'
    BY <2>14
  <2> QED
    BY <2>15, CounterExactParts
<1>4. QED
  BY <1>1, <1>2, <1>3 DEF Receive

LEMMA WaitersGain ==
    ASSUME NEW id, NEW c, c \notin Waiters(id), Waiters(id)' = Waiters(id) \cup {c}
    PROVE  Cardinality(Waiters(id)') = Cardinality(Waiters(id)) + 1
<1>1. IsFiniteSet(Waiters(id))
  BY WaitersFinite
<1>2. Cardinality(Waiters(id) \cup {c}) = Cardinality(Waiters(id)) + 1
  BY <1>1, FS_AddElement
<1>3. QED
  BY <1>2, Zenon

LEMMA WaitersLose ==
    ASSUME NEW id, NEW c, c \in Waiters(id), Waiters(id)' = Waiters(id) \ {c}
    PROVE  Cardinality(Waiters(id)') = Cardinality(Waiters(id)) - 1
<1>1. IsFiniteSet(Waiters(id))
  BY WaitersFinite
<1>2. Cardinality(Waiters(id) \ {c}) = Cardinality(Waiters(id)) - 1
  BY <1>1, FS_RemoveElement
<1>3. QED
  BY <1>2, Zenon

\* A Lock call enters its critical section.
LEMMA LockCounts ==
    ASSUME TypeOK, LockersInjective, NoOrphanWaiter, CounterExact,
           NEW c \in Clients, Lock(c)
    PROVE  CounterExact'
<1> USE ConstantFacts DEF recvVars, chanVars
<1>0. PICK id \in Ids : id = arg[c]
  BY DEF Lock, LockFound, LockNew, TypeOK
<1>1. /\ id \in Ids /\ pc[c] = "lock" /\ pc' = [pc EXCEPT ![c] = "send"]
      /\ lockersCounters' = [lockersCounters EXCEPT ![id] = @ + 1]
      /\ UNCHANGED <<arg, taking, got>>
  BY <1>0 DEF Lock, LockFound, LockNew, Register, TypeOK
<1>2. \A i \in Ids : Token(i)' = Token(i)
  <2>1. CASE LockFound(c)
    <3>1. lockers' = lockers /\ ch' = ch
      BY <1>0, <1>1, <2>1 DEF LockFound, Register, TypeOK
    <3>2. QED
      BY <3>1 DEF Token
  <2>2. CASE LockNew(c)
    <3>1. PICK l \in Lockers :
            /\ \A i \in Ids : lockers[i] # l
            /\ lockers' = [lockers EXCEPT ![id] = l]
            /\ ch' = [ch EXCEPT ![l] = NoClient]
      BY <1>0, <2>2 DEF LockNew, Register
    <3>2. lockers[id] = NoLocker
      BY <1>0, <2>2 DEF LockNew
    <3>3. QED
      BY <1>1, <3>1, <3>2 DEF Token, TypeOK
  <2>3. QED
    BY <2>1, <2>2 DEF Lock
<1>3. Waiters(id)' = Waiters(id) \cup {c} /\ c \notin Waiters(id)
  BY <1>0, <1>1 DEF Waiters, Pending, TypeOK
<1>4. \A i \in Ids : i # id => Waiters(i)' = Waiters(i)
  BY <1>0, <1>1 DEF Waiters, Pending, TypeOK
<1>5. Cardinality(Waiters(id)') = Cardinality(Waiters(id)) + 1
  BY <1>3, WaitersGain
<1>6. \A i \in Ids : TokenCount(i)' = TokenCount(i) /\ Uncounted(i)' = Uncounted(i)
                     /\ TokenCount(i) \in Nat /\ Uncounted(i) \in Nat
  BY <1>1, <1>2 DEF TokenCount, Uncounted
<1>7. ASSUME NEW i \in Ids
      PROVE  lockersCounters'[i] = Cardinality(Waiters(i)') + TokenCount(i)' + Uncounted(i)'
  <2>1. /\ lockersCounters[i] = Cardinality(Waiters(i)) + TokenCount(i) + Uncounted(i)
        /\ Cardinality(Waiters(i)) \in Nat
    BY CounterExactParts, WaitersFinite
  <2>2. lockersCounters'[i] = IF i = id THEN lockersCounters[i] + 1 ELSE lockersCounters[i]
    BY <1>1 DEF TypeOK
  <2>3. QED
    BY <2>1, <2>2, <1>4, <1>5, <1>6
<1> QED
  BY <1>7, CounterExactParts

\* A waiter delivers its token, to the buffer or to a blocked receiver.
LEMMA SendCounts ==
    ASSUME TypeOK, LockersInjective, NoOrphanWaiter, CounterExact, HolderShape,
           NEW c \in Clients, SendHandOff(c) \/ SendBuffer(c)
    PROVE  CounterExact'
<1> USE ConstantFacts DEF recvVars, chanVars, mapVars
<1>0. PICK id \in Ids : id = arg[c]
  BY DEF SendHandOff, SendBuffer, TypeOK
<1>1. /\ id \in Ids /\ pc[c] = "send" /\ pc' = [pc EXCEPT ![c] = Returned(c)]
      /\ UNCHANGED <<lockers, lockersCounters, arg, taking>>
      /\ lockers[id] \in Lockers /\ m[c] = lockers[id]
  BY <1>0 DEF SendHandOff, SendBuffer, NoOrphanWaiter, Pending, TypeOK
<1>2. Waiters(id)' = Waiters(id) \ {c} /\ c \in Waiters(id)
  BY <1>0, <1>1 DEF Waiters, Pending, Returned, TypeOK
<1>3. \A i \in Ids : i # id => Waiters(i)' = Waiters(i)
  BY <1>0, <1>1 DEF Waiters, Pending, Returned, TypeOK
<1>4. Cardinality(Waiters(id)') = Cardinality(Waiters(id)) - 1
  BY <1>2, WaitersLose
<1>5. /\ TokenCount(id)' + Uncounted(id)' = TokenCount(id) + Uncounted(id) + 1
      /\ \A i \in Ids : i # id => TokenCount(i)' = TokenCount(i) /\ Uncounted(i)' = Uncounted(i)
  <2>1. CASE SendHandOff(c)
    <3>1. ch' = ch /\ got' /\ ~got /\ lockers[taking] = lockers[id] /\ taking \in Ids
      BY <1>1, <2>1 DEF SendHandOff, ReceiverBlockedOn, TypeOK
    <3>2. taking = id
      BY <1>1, <3>1 DEF LockersInjective
    <3>3. \A i \in Ids : TokenCount(i)' = TokenCount(i)
      BY <1>1, <3>1 DEF TokenCount, Token
    <3>4. /\ Uncounted(id)' = 1 /\ Uncounted(id) = 0
          /\ \A i \in Ids : i # id => Uncounted(i)' = Uncounted(i)
      BY <1>1, <3>1, <3>2 DEF Uncounted
    <3>5. TokenCount(id) \in Nat
      BY DEF TokenCount
    <3>6. QED
      BY <1>1, <3>3, <3>4, <3>5
  <2>2. CASE SendBuffer(c)
    <3>1. got' = got /\ ch[lockers[id]] = NoClient /\ ch' = [ch EXCEPT ![lockers[id]] = c]
      BY <1>1, <2>2 DEF SendBuffer
    <3>2. \A i \in Ids : Uncounted(i)' = Uncounted(i) /\ Uncounted(i) \in Nat
      BY <1>1, <3>1 DEF Uncounted
    <3>3. TokenCount(id)' = 1 /\ TokenCount(id) = 0
      BY <1>1, <3>1 DEF TokenCount, Token, TypeOK
    <3>4. \A i \in Ids : i # id => TokenCount(i)' = TokenCount(i)
      BY <1>1, <3>1 DEF TokenCount, Token, TypeOK, LockersInjective
    <3>5. QED
      BY <1>1, <3>2, <3>3, <3>4
  <2>3. QED
    BY <2>1, <2>2
<1>6. \A i \in Ids : /\ TokenCount(i) \in Nat /\ Uncounted(i) \in Nat
                     /\ TokenCount(i)' \in Nat /\ Uncounted(i)' \in Nat
  BY DEF TokenCount, Uncounted
<1>7. ASSUME NEW i \in Ids
      PROVE  lockersCounters'[i] = Cardinality(Waiters(i)') + TokenCount(i)' + Uncounted(i)'
  <2>1. /\ lockersCounters[i] = Cardinality(Waiters(i)) + TokenCount(i) + Uncounted(i)
        /\ Cardinality(Waiters(i)) \in Nat
    BY CounterExactParts, WaitersFinite
  <2>2. lockersCounters'[i] = lockersCounters[i]
    BY <1>1
  <2>3. CASE i = id
    BY <2>1, <2>2, <2>3, <1>1, <1>4, <1>5, <1>6
  <2>4. CASE i # id
    BY <2>1, <2>2, <2>4, <1>3, <1>5
  <2>5. QED
    BY <2>3, <2>4
<1> QED
  BY <1>7, CounterExactParts

\* A received token is counted: by Unlock, or by UnlockForOwner.
LEMMA CountedCounts ==
    ASSUME TypeOK, CounterExact, got, ~got', taking' = NoId, ch' = ch,
           \A x \in Clients : /\ pc'[x] \in Pending <=> pc[x] \in Pending
                              /\ pc[x] \in Pending => arg'[x] = arg[x],
           lockersCounters' = [lockersCounters EXCEPT ![taking] = @ - 1],
           \/ lockers' = lockers
           \/ NoneLeft(taking) /\ lockers' = [lockers EXCEPT ![taking] = NoLocker]
    PROVE  CounterExact'
<1> USE ConstantFacts
<1>1. taking \in Ids
  BY DEF TypeOK
<1>2. \A i : Waiters(i)' = Waiters(i)
  BY DEF Waiters
<1>3. \A i \in Ids : Token(i)' = Token(i)
  <2>1. CASE lockers' = lockers
    BY <2>1 DEF Token
  <2>2. CASE NoneLeft(taking) /\ lockers' = [lockers EXCEPT ![taking] = NoLocker]
    <3>1. Token(taking) = NoClient
      BY <2>2, NoneLeftNoWaiter
    <3>2. QED
      BY <1>1, <2>2, <3>1 DEF Token, TypeOK
  <2>3. QED
    BY <2>1, <2>2
<1>4. \A i \in Ids : TokenCount(i)' = TokenCount(i) /\ TokenCount(i) \in Nat
  BY <1>3 DEF TokenCount
<1>5. \A i \in Ids : Uncounted(i)' = 0 /\ Uncounted(i) = IF i = taking THEN 1 ELSE 0
  BY <1>1 DEF Uncounted
<1>6. ASSUME NEW i \in Ids
      PROVE  lockersCounters'[i] = Cardinality(Waiters(i)') + TokenCount(i)' + Uncounted(i)'
  <2>1. /\ lockersCounters[i] = Cardinality(Waiters(i)) + TokenCount(i) + Uncounted(i)
        /\ Cardinality(Waiters(i)) \in Nat
    BY CounterExactParts, WaitersFinite
  <2>2. lockersCounters'[i] = IF i = taking THEN lockersCounters[i] - 1 ELSE lockersCounters[i]
    BY <1>1 DEF TypeOK
  <2>3. QED
    BY <2>1, <2>2, <1>2, <1>4, <1>5
<1>7. QED
  BY <1>6, CounterExactParts

LEMMA CounterStep ==
    ASSUME IInv, [Next]_vars
    PROVE  CounterExact'
<1> USE ConstantFacts DEF mapVars, chanVars, recvVars, callVars
<1>0. /\ TypeOK /\ QueueShape /\ HolderShape /\ LockersInjective /\ NoOrphanWaiter
      /\ CounterExact
  BY DEF IInv
<1>1. CASE UNCHANGED vars
  BY <1>0, <1>1, CounterKept DEF vars
<1>2. ASSUME NEW o \in Owners, Connect(o) \/ Drop(o)
      PROVE  CounterExact'
  <2>1. UNCHANGED <<lockers, lockersCounters, ch, taking, got>>
    BY <1>2 DEF Connect, Drop
  <2>2. \A x \in Clients : /\ pc'[x] \in Pending <=> pc[x] \in Pending
                           /\ pc[x] \in Pending => arg'[x] = arg[x]
    BY <1>2 DEF Connect, Drop, Pending
  <2>3. QED
    BY <1>0, <2>1, <2>2, CounterKept
<1>3. ASSUME NEW c \in Clients, NEW id \in Ids, CallLock(c, id) \/ StrayUnlock(c, id)
      PROVE  CounterExact'
  <2>1. UNCHANGED <<lockers, lockersCounters, ch, taking, got>>
    BY <1>3 DEF CallLock, StrayUnlock
  <2>2. \A x \in Clients : /\ pc'[x] \in Pending <=> pc[x] \in Pending
                           /\ pc[x] \in Pending => arg'[x] = arg[x]
    BY <1>0, <1>3 DEF CallLock, StrayUnlock, Pending, TypeOK
  <2>3. QED
    BY <1>0, <2>1, <2>2, CounterKept
<1>4. ASSUME NEW c \in Clients, CallUnlock(c) \/ SendQueue(c) \/ UnlockNotFound(c)
      PROVE  CounterExact'
  <2>1. UNCHANGED <<lockers, lockersCounters, ch, taking, got>>
    BY <1>4 DEF CallUnlock, SendQueue, UnlockNotFound
  <2>2. \A x \in Clients : /\ pc'[x] \in Pending <=> pc[x] \in Pending
                           /\ pc[x] \in Pending => arg'[x] = arg[x]
    BY <1>0, <1>4 DEF CallUnlock, SendQueue, UnlockNotFound, Pending, TypeOK
  <2>3. QED
    BY <1>0, <2>1, <2>2, CounterKept
<1>5. ASSUME NEW c \in Clients, Lock(c)
      PROVE  CounterExact'
  BY <1>0, <1>5, LockCounts
<1>6. ASSUME NEW c \in Clients, SendHandOff(c) \/ SendBuffer(c)
      PROVE  CounterExact'
  BY <1>0, <1>6, SendCounts
<1>7. ASSUME NEW c \in Clients, UnlockReceive(c)
      PROVE  CounterExact'
  BY <1>0, <1>7, ReceiveCounts DEF UnlockReceive, TypeOK
<1>8. ASSUME NEW c \in Clients, UnlockFinish(c)
      PROVE  CounterExact'
  <2>1. /\ got /\ ~got' /\ taking \in Ids /\ taking' = NoId /\ ch' = ch
        /\ pc[c] = "unlock" /\ pc' = [pc EXCEPT ![c] = "idle"]
        /\ arg' = [arg EXCEPT ![c] = NoId]
    BY <1>0, <1>8 DEF UnlockFinish, HolderShape, TypeOK
  <2>2. \A x \in Clients : /\ pc'[x] \in Pending <=> pc[x] \in Pending
                           /\ pc[x] \in Pending => arg'[x] = arg[x]
    BY <1>0, <2>1 DEF Pending, TypeOK
  <2>3. CASE NoneLeft(taking)
    <3>1. /\ lockers' = [lockers EXCEPT ![taking] = NoLocker]
          /\ lockersCounters' = [lockersCounters EXCEPT ![taking] = 0]
      BY <1>8, <2>3, Zenon DEF UnlockFinish
    <3>2. lockersCounters' = [lockersCounters EXCEPT ![taking] = @ - 1]
      BY <2>3, <3>1 DEF NoneLeft
    <3>3. QED
      BY <1>0, <2>1, <2>2, <2>3, <3>1, <3>2, CountedCounts
  <2>4. CASE ~NoneLeft(taking)
    <3>1. /\ lockers' = lockers
          /\ lockersCounters' = [lockersCounters EXCEPT ![taking] = @ - 1]
      BY <1>8, <2>4, Zenon DEF UnlockFinish
    <3>2. QED
      BY <1>0, <2>1, <2>2, <3>1, CountedCounts
  <2>5. QED
    BY <2>3, <2>4
<1>9. ASSUME NEW o \in Owners, UnlockForOwner(o)
      PROVE  CounterExact'
  <2>1. CASE UnlockForOwnerReceive(o)
    BY <1>0, <2>1, ReceiveCounts DEF UnlockForOwnerReceive
  <2>2. CASE UnlockForOwnerCount(o)
    BY <1>0, <2>2, CountedCounts DEF UnlockForOwnerCount
  <2>3. CASE UnlockForOwnerBegin(o) \/ UnlockForOwnerPanic(o) \/ UnlockForOwnerEnd(o)
    <3>1. UNCHANGED <<lockers, lockersCounters, ch, taking, got, pc, arg>>
      BY <2>3 DEF UnlockForOwnerBegin, UnlockForOwnerPanic, UnlockForOwnerEnd
    <3>2. QED
      BY <1>0, <3>1, CounterKept
  <2>4. QED
    BY <1>9, <2>1, <2>2, <2>3 DEF UnlockForOwner
<1>10. QED
  BY <1>1, <1>2, <1>3, <1>4, <1>5, <1>6, <1>7, <1>8, <1>9 DEF Next, Send, Unlock
-----------------------------------------------------------------------------
LEMMA IInvInit == Init => IInv
<1> SUFFICES ASSUME Init PROVE IInv
  OBVIOUS
<1> USE ConstantFacts DEF Init, NoEntries, Pending
<1>1. TypeOK
  <2>1. sendq \in [Lockers -> Seq(Clients)]
    BY EmptySeq
  <2>2. owners2Lockers \in [Owners -> [Ids -> Nat]] /\ left \in [Ids -> Nat]
    OBVIOUS
  <2>3. \A c \in Clients : pc[c] = "idle" /\ m[c] = NoLocker
    OBVIOUS
  <2>4. /\ \A c \in Clients : pc[c] # "idle" => arg[c] \in Ids
        /\ \A c \in Clients : pc[c] \in Pending <=> m[c] \in Lockers
        /\ ~got /\ taking = NoId /\ left = NoEntries
    BY <2>3
  <2>5. /\ ch \in [Lockers -> Clients \cup {NoClient}]
        /\ pc \in [Clients -> {"idle", "lock", "send", "queued", "held", "unlock"}]
        /\ m \in [Clients -> Lockers \cup {NoLocker}]
        /\ arg \in [Clients -> Ids \cup {NoId}]
        /\ conn \in [Owners -> {"open", "closing", "closed"}]
    OBVIOUS
  <2>6. /\ lockers \in [Ids -> Lockers \cup {NoLocker}] /\ lockersCounters \in [Ids -> Int]
        /\ mutexLocker = Free
    OBVIOUS
  <2>7. got \in BOOLEAN
    BY Zenon
  <2> HIDE DEF Init
  <2>8. QED
    BY <2>1, <2>2, <2>4, <2>5, <2>6, <2>7 DEF TypeOK
<1>2. QueueShape /\ HolderShape /\ LockersInjective /\ NoOrphanWaiter
  BY DEF QueueShape, HolderShape, LockersInjective, NoOrphanWaiter
<1>3. \A id \in Ids : Waiters(id) = {} /\ TokenCount(id) = 0 /\ Uncounted(id) = 0
  BY DEF Waiters, TokenCount, Token, Uncounted
<1>4. CounterExact
  <2>1. Cardinality({}) = 0
    BY FS_EmptySet
  <2>2. \A id \in Ids : lockersCounters[id] = 0
    OBVIOUS
  <2>3. \A id \in Ids :
          lockersCounters[id] = Cardinality(Waiters(id)) + TokenCount(id) + Uncounted(id)
    <3> HIDE DEF Init
    <3>1. \A id \in Ids : Cardinality(Waiters(id)) = 0
      BY <1>3, <2>1, Zenon
    <3>2. QED
      BY <1>3, <2>2, <3>1
  <2>4. QED
    BY <2>3, CounterExactParts
<1>5. QED
  BY <1>1, <1>2, <1>4 DEF IInv

LEMMA IInvStep == IInv /\ [Next]_vars => IInv'
  BY TypeStep, QueueStep, HolderStep, InjectiveStep, OrphanStep, CounterStep DEF IInv

LEMMA IInvAlways == Spec => []IInv
  BY IInvInit, IInvStep, PTL DEF Spec

\* Every variable keeps its type; only a goroutine that has registered and not yet
\* sent its token points at a locker, and only mutexLocker's holder receives.
THEOREM TypeCorrect == Spec => []TypeOK
<1>1. IInv => TypeOK
  BY DEF IInv
<1>2. QED
  BY <1>1, IInvAlways, PTL

\* Whatever clients and network do, an id's counter is the number of Lock calls whose
\* token is still to come, in the channel, or received and not yet counted.
THEOREM CountersExact == Spec => []CounterExact
<1>1. IInv => CounterExact
  BY DEF IInv
<1>2. QED
  BY <1>1, IInvAlways, PTL

\* Whatever clients and network do, a locker leaves the map only when no Lock call
\* still points at it.
THEOREM NoOrphans == Spec => []NoOrphanWaiter
<1>1. IInv => NoOrphanWaiter
  BY DEF IInv
<1>2. QED
  BY <1>1, IInvAlways, PTL
=============================================================================
