----------------------------- MODULE MutexSafety -----------------------------
(***************************************************************************)
(* What disciplined clients can rely on (Environment = {}): mutual         *)
(* exclusion, no receive that blocks inside mutexLocker, nothing left      *)
(* behind by a lost connection, exact lists, and all that LockService      *)
(* promises.  They are proved from one invariant, which says who owns the  *)
(* token in each channel and what the lists of entries stand for.          *)
(***************************************************************************)
EXTENDS MutexProofs

\* The call of c has registered an entry that is still in its connection's list.
Uses(c) == pc[c] \in Pending \cup {"held", "unlock"}

\* Only calls over an open connection are in flight, and the clients of one
\* connection are about different ids.
Calls ==
    /\ \A c \in Clients : pc[c] # "idle" => conn[Conn[c]] = "open"
    /\ \A c, d \in Clients :
         c # d /\ Conn[c] = Conn[d] /\ pc[c] # "idle" /\ pc[d] # "idle" => arg[c] # arg[d]

\* A token belongs to a client that holds the id, or did when its connection was lost;
\* a client that holds an id, or is about to give it back, has the token.
Tokens ==
    /\ \A id \in Ids : \A c \in Clients : Token(id) = c =>
         arg[c] = id /\ (pc[c] \in {"held", "unlock"} \/ conn[Conn[c]] = "closing")
    /\ \A c \in Clients :
         pc[c] = "held" \/ (pc[c] = "unlock" /\ mutexLocker # c) => Token(arg[c]) = c
    /\ \A c \in Clients : mutexLocker = c => Token(taking) # c
    /\ taking # NoId => got

\* What the entries in a list stand for, through the life of the connection.
OneEntry ==
    \A o \in Owners : \A id \in Ids : owners2Lockers[o][id] <= 1

UsersListed ==
    \A c \in Clients : Uses(c) => owners2Lockers[Conn[c]][arg[c]] > 0

ClosedEmpty ==
    \A o \in Owners : conn[o] = "closed" =>
        \A id \in Ids : owners2Lockers[o][id] = 0

OpenListed ==
    \A o \in Owners : \A id \in Ids : conn[o] = "open" /\ owners2Lockers[o][id] > 0 =>
        \E c \in Clients : Conn[c] = o /\ Uses(c) /\ arg[c] = id

ClosingListed ==
    \A o \in Owners : \A id \in Ids :
        conn[o] = "closing" /\ mutexLocker # o /\ owners2Lockers[o][id] > 0 =>
            \E c \in Clients : Conn[c] = o /\ Token(id) = c

LeftListed ==
    \A o \in Owners : \A id \in Ids : mutexLocker = o /\ left[id] > 0 =>
        left[id] = 1 /\ \E c \in Clients : Conn[c] = o /\ Token(id) = c

TokensListed ==
    \A id \in Ids : \A c \in Clients : Token(id) = c =>
        /\ mutexLocker = Conn[c] => left[id] > 0
        /\ mutexLocker # Conn[c] => owners2Lockers[Conn[c]][id] > 0

Entries ==
    /\ OneEntry /\ UsersListed /\ ClosedEmpty /\ OpenListed /\ ClosingListed
    /\ LeftListed /\ TokensListed

DInv == IInv /\ Calls /\ Tokens /\ Entries
-----------------------------------------------------------------------------
(* What each step does to the tokens. *)

LEMMA TokenType ==
    ASSUME TypeOK, NEW id \in Ids
    PROVE  /\ Token(id) \in Clients \cup {NoClient}
           /\ Token(id) # NoClient => lockers[id] \in Lockers /\ ch[lockers[id]] = Token(id)
BY ConstantFacts DEF TypeOK, Token

LEMMA TokensKept ==
    ASSUME UNCHANGED <<lockers, ch>>
    PROVE  \A id : Token(id)' = Token(id)
BY DEF Token

\* A receiver that finds a token takes it, and the oldest queued call gets the lock.
LEMMA ReceiveTakes ==
    ASSUME IInv, NEW id \in Ids, Receive(id), Token(id) # NoClient
    PROVE  /\ got' /\ taking' = id
           /\ UNCHANGED <<owners2Lockers, conn, arg>>
           /\ \A x \in Ids : x # id => Token(x)' = Token(x)
           /\ \/ Token(id)' = NoClient /\ pc' = pc
              \/ \E next \in Clients : /\ Token(id)' = next
                                        /\ pc[next] = "queued" /\ arg[next] = id
                                        /\ pc' = [pc EXCEPT ![next] = Returned(next)]
<1> USE ConstantFacts DEF mapVars
<1>1. lockers[id] \in Lockers /\ ch[lockers[id]] # NoClient
  BY TokenType DEF IInv
<1>2. /\ taking' = id /\ lockers' = lockers
      /\ UNCHANGED <<owners2Lockers, conn, arg>>
  BY DEF Receive
<1>3. \A x \in Ids : x # id => lockers[x] # lockers[id]
  BY <1>1 DEF IInv, LockersInjective
<1>4. CASE ReceiveLast(id)
  <2>1. ch' = [ch EXCEPT ![lockers[id]] = NoClient] /\ got' /\ pc' = pc
    BY <1>4 DEF ReceiveLast
  <2>2. \A x \in Ids : x # id => Token(x)' = Token(x)
    BY <1>2, <1>3, <2>1 DEF Token, IInv, TypeOK
  <2>3. Token(id)' = NoClient
    BY <1>1, <1>2, <2>1 DEF Token, IInv, TypeOK
  <2>4. QED
    BY <1>2, <2>1, <2>2, <2>3
<1>5. CASE ReceiveNext(id)
  <2>1. PICK next : next = Head(sendq[lockers[id]])
    OBVIOUS
  <2>2. /\ sendq[lockers[id]] # <<>>
        /\ ch' = [ch EXCEPT ![lockers[id]] = next]
        /\ pc' = [pc EXCEPT ![next] = Returned(next)]
        /\ got'
    BY <1>5, <2>1, Zenon DEF ReceiveNext
  <2>3. next \in Clients /\ pc[next] = "queued" /\ m[next] = lockers[id]
    BY <1>1, <2>1, <2>2, HeadIsQueued DEF IInv
  <2>4. arg[next] = id
    BY <1>1, <2>3 DEF IInv, NoOrphanWaiter, LockersInjective, Pending, TypeOK
  <2>5. \A x \in Ids : x # id => Token(x)' = Token(x)
    BY <1>2, <1>3, <2>2 DEF Token, IInv, TypeOK
  <2>6. Token(id)' = next
    BY <1>1, <1>2, <2>2 DEF Token, IInv, TypeOK
  <2>7. QED
    BY <1>2, <2>2, <2>3, <2>4, <2>5, <2>6
<1>6. QED
  BY <1>1, <1>4, <1>5 DEF Receive, ReceiveBlocks

\* A call that sends to an empty channel puts its token there.
LEMMA SendPuts ==
    ASSUME IInv, NEW c \in Clients, SendBuffer(c), NEW id, id = arg[c]
    PROVE  /\ id \in Ids /\ Token(id) = NoClient /\ Token(id)' = c
           /\ \A x \in Ids : x # id => Token(x)' = Token(x)
<1> USE ConstantFacts DEF mapVars
<1>1. id \in Ids /\ lockers[id] \in Lockers /\ m[c] = lockers[id]
  BY DEF SendBuffer, IInv, NoOrphanWaiter, Pending, TypeOK
<1>2. /\ ch[lockers[id]] = NoClient /\ ch' = [ch EXCEPT ![lockers[id]] = c]
      /\ lockers' = lockers
  BY <1>1 DEF SendBuffer
<1>3. \A x \in Ids : x # id => lockers[x] # lockers[id]
  BY <1>1 DEF IInv, LockersInjective
<1>4. QED
  BY <1>1, <1>2, <1>3 DEF Token, IInv, TypeOK

\* Making or removing a locker neither makes nor loses a token.
LEMMA LockKeepsTokens ==
    ASSUME IInv, NEW c \in Clients, Lock(c)
    PROVE  \A x \in Ids : Token(x)' = Token(x)
<1> USE ConstantFacts DEF chanVars
<1>1. CASE LockFound(c)
  <2>1. lockers' = lockers /\ ch' = ch
    BY <1>1 DEF LockFound, Register, IInv, TypeOK
  <2>2. QED
    BY <2>1, TokensKept
<1>2. CASE LockNew(c)
  <2>1. PICK l \in Lockers :
          /\ \A id \in Ids : lockers[id] # l
          /\ Register(c, l)
          /\ ch' = [ch EXCEPT ![l] = NoClient]
    BY <1>2 DEF LockNew
  <2>2. arg[c] \in Ids /\ lockers[arg[c]] = NoLocker
    BY <1>2 DEF LockNew, IInv, TypeOK
  <2>3. lockers' = [lockers EXCEPT ![arg[c]] = l]
    BY <2>1 DEF Register
  <2>4. QED
    BY <2>1, <2>2, <2>3 DEF Token, IInv, TypeOK
<1>3. QED
  BY <1>1, <1>2 DEF Lock

LEMMA FinishKeepsTokens ==
    ASSUME IInv, NEW c \in Clients, UnlockFinish(c)
    PROVE  \A x \in Ids : Token(x)' = Token(x)
<1>1. got /\ taking \in Ids /\ ch' = ch
  BY ConstantFacts DEF UnlockFinish, IInv, TypeOK, chanVars
<1>2. CASE NoneLeft(taking)
  <2>1. lockers' = [lockers EXCEPT ![taking] = NoLocker]
    BY <1>2, Zenon DEF UnlockFinish
  <2>2. Token(taking) = NoClient
    BY <1>1, <1>2, NoneLeftNoWaiter DEF IInv
  <2>3. QED
    BY <1>1, <2>1, <2>2 DEF Token, IInv, TypeOK
<1>3. CASE ~NoneLeft(taking)
  <2>1. lockers' = lockers
    BY <1>3, Zenon DEF UnlockFinish
  <2>2. QED
    BY <1>1, <2>1, TokensKept
<1>4. QED
  BY <1>2, <1>3
-----------------------------------------------------------------------------
(* The steps of the clients and their connections. *)

\* What the steps use of the types and of HolderShape.
LEMMA DTypes ==
    ASSUME DInv
    PROVE  /\ owners2Lockers \in [Owners -> [Ids -> Nat]] /\ left \in [Ids -> Nat]
           /\ conn \in [Owners -> {"open", "closing", "closed"}]
           /\ pc \in [Clients -> {"idle", "lock", "send", "queued", "held", "unlock"}]
           /\ arg \in [Clients -> Ids \cup {NoId}]
           /\ \A c \in Clients : pc[c] # "idle" => arg[c] \in Ids
           /\ \A id \in Ids : Token(id) \in Clients \cup {NoClient}
           /\ \A c \in Clients : mutexLocker = c => pc[c] = "unlock" /\ taking = arg[c]
           /\ \A o \in Owners : mutexLocker = o => conn[o] = "closing"
           /\ \A c \in Clients : mutexLocker = c => \A o \in Owners : mutexLocker # o
           /\ mutexLocker = Free => /\ \A c \in Clients : mutexLocker # c
                                    /\ \A o \in Owners : mutexLocker # o
           /\ taking \in Ids \cup {NoId}
<1>1. \A id \in Ids : Token(id) \in Clients \cup {NoClient}
  BY TokenType DEF DInv, IInv
<1>2. QED
  BY <1>1, ConstantFacts DEF DInv, IInv, TypeOK, HolderShape

LEMMA ConnectKeeps ==
    ASSUME DInv, NEW o \in Owners, Connect(o)
    PROVE  Calls' /\ Tokens' /\ Entries'
<1> USE ConstantFacts, DTypes
<1>1. /\ conn[o] = "closed" /\ owners2Lockers[o] = NoEntries
      /\ \A x \in Clients : Conn[x] = o => pc[x] = "idle"
      /\ conn' = [conn EXCEPT ![o] = "open"]
      /\ \A x \in Clients : Conn[x] # o => arg'[x] = arg[x]
      /\ UNCHANGED <<owners2Lockers, mutexLocker, taking, got, left, pc, lockers, ch>>
  BY DEF Connect, ClientsOf, mapVars, chanVars, recvVars
<1>2. \A id \in Ids : Token(id)' = Token(id)
  BY <1>1, TokensKept
<1>3. \A id \in Ids : \A x \in Clients : Token(id) = x => Conn[x] # o
  BY TokenType DEF Connect, ClientsOf, DInv, IInv
<1>4. mutexLocker # o
  BY <1>1
<1>5. Calls'
  BY <1>1 DEF Calls, DInv
<1>6. Tokens'
  BY <1>1, <1>2, <1>3 DEF Tokens, DInv
<1>7. \A id \in Ids : owners2Lockers[o][id] = 0
  BY <1>1 DEF NoEntries
<1>8. \A x \in Clients : Uses(x)' <=> Uses(x)
  BY <1>1 DEF Uses, Pending
<1>9. \A x \in Clients : Uses(x) => Conn[x] # o
  BY <1>1 DEF Uses, Pending
<1>10. OneEntry' /\ UsersListed' /\ ClosedEmpty'
  BY <1>1, <1>8, <1>9 DEF DInv, Entries, OneEntry, UsersListed, ClosedEmpty
<1>11. OpenListed'
  BY <1>1, <1>7, <1>8, <1>9 DEF DInv, Entries, OpenListed
<1>12. ClosingListed' /\ LeftListed' /\ TokensListed'
  BY <1>1, <1>2 DEF DInv, Entries, ClosingListed, LeftListed, TokensListed
<1>13. QED
  BY <1>5, <1>6, <1>10, <1>11, <1>12 DEF Entries

LEMMA CallKeeps ==
    ASSUME DInv, Environment = {}, NEW c \in Clients,
           CallUnlock(c) \/ \E id \in Ids : CallLock(c, id) \/ StrayUnlock(c, id)
    PROVE  Calls' /\ Tokens' /\ Entries'
<1> USE ConstantFacts, DTypes
<1>1. /\ UNCHANGED <<owners2Lockers, mutexLocker, taking, got, left, conn, lockers, ch>>
      /\ conn[Conn[c]] = "open"
  BY DEF CallUnlock, CallLock, StrayUnlock, mapVars, chanVars, recvVars
<1>2. \A id \in Ids : Token(id)' = Token(id)
  BY <1>1, TokensKept
<1>3. CASE CallUnlock(c)
  <2>1. pc[c] = "held" /\ pc' = [pc EXCEPT ![c] = "unlock"] /\ arg' = arg
    BY <1>3 DEF CallUnlock
  <2>2. mutexLocker # c
    BY <2>1
  <2>3. Calls'
    BY <1>1, <2>1 DEF DInv, Calls
  <2>4. Tokens'
    BY <1>1, <1>2, <2>1, <2>2 DEF DInv, Tokens
  <2>5. \A x \in Clients : Uses(x)' <=> Uses(x)
    BY <2>1 DEF Uses, Pending
  <2>6. OneEntry' /\ UsersListed' /\ ClosedEmpty' /\ OpenListed'
    BY <1>1, <2>1, <2>5 DEF DInv, Entries, OneEntry, UsersListed, ClosedEmpty, OpenListed
  <2>7. ClosingListed' /\ LeftListed' /\ TokensListed'
    BY <1>1, <1>2 DEF DInv, Entries, ClosingListed, LeftListed, TokensListed
  <2>8. QED
    BY <2>3, <2>4, <2>6, <2>7 DEF Entries
<1>4. ASSUME NEW id \in Ids, CallLock(c, id)
      PROVE  Calls' /\ Tokens' /\ Entries'
  <2>1. /\ pc[c] = "idle"
        /\ \A d \in Clients : Conn[d] = Conn[c] /\ pc[d] # "idle" => arg[d] # id
        /\ pc' = [pc EXCEPT ![c] = "lock"] /\ arg' = [arg EXCEPT ![c] = id]
    BY <1>4 DEF CallLock, ClientsOf
  <2>2. \A i \in Ids : Token(i) # c
    BY <1>1, <2>1 DEF DInv, Tokens
  <2>3. Calls'
    BY <1>1, <2>1 DEF DInv, Calls
  <2>4. Tokens'
    BY <1>1, <1>2, <2>1, <2>2 DEF DInv, Tokens
  <2>5. /\ \A x \in Clients : Uses(x)' <=> Uses(x)
        /\ \A x \in Clients : Uses(x) => arg'[x] = arg[x]
    BY <2>1 DEF Uses, Pending
  <2>6. OneEntry' /\ UsersListed' /\ ClosedEmpty' /\ OpenListed'
    BY <1>1, <2>5 DEF DInv, Entries, OneEntry, UsersListed, ClosedEmpty, OpenListed
  <2>7. ClosingListed' /\ LeftListed' /\ TokensListed'
    BY <1>1, <1>2 DEF DInv, Entries, ClosingListed, LeftListed, TokensListed
  <2>8. QED
    BY <2>3, <2>4, <2>6, <2>7 DEF Entries
<1>5. \A id \in Ids : ~StrayUnlock(c, id)
  BY DEF StrayUnlock
<1>6. QED
  BY <1>3, <1>4, <1>5

LEMMA DropKeeps ==
    ASSUME DInv, Environment = {}, NEW o \in Owners, Drop(o)
    PROVE  Calls' /\ Tokens' /\ Entries'
<1> USE ConstantFacts, DTypes
<1>1. /\ conn[o] = "open" /\ conn' = [conn EXCEPT ![o] = "closing"]
      /\ \A x \in Clients : Conn[x] = o => pc[x] \in {"idle", "held"} /\ pc'[x] = "idle"
      /\ \A x \in Clients : Conn[x] # o => pc'[x] = pc[x]
      /\ UNCHANGED <<owners2Lockers, mutexLocker, taking, got, left, arg, lockers, ch>>
  BY DEF Drop, ClientsOf, mapVars, chanVars, recvVars
<1>2. \A id \in Ids : Token(id)' = Token(id)
  BY <1>1, TokensKept
<1>3. mutexLocker # o
  BY <1>1
<1>4. Calls'
  BY <1>1 DEF DInv, Calls
<1>5. Tokens'
  BY <1>1, <1>2 DEF DInv, Tokens
<1>6. \A x \in Clients : Uses(x)' <=> Uses(x) /\ Conn[x] # o
  BY <1>1 DEF Uses, Pending
<1>7. ASSUME NEW id \in Ids, owners2Lockers[o][id] > 0
      PROVE  \E x \in Clients : Conn[x] = o /\ Token(id) = x
  <2>1. PICK x \in Clients : Conn[x] = o /\ Uses(x) /\ arg[x] = id
    BY <1>1, <1>7 DEF DInv, Entries, OpenListed
  <2>2. pc[x] = "held"
    BY <1>1, <2>1 DEF Uses, Pending
  <2>3. QED
    BY <2>1, <2>2 DEF DInv, Tokens
<1>8. OneEntry' /\ UsersListed' /\ ClosedEmpty' /\ OpenListed'
  BY <1>1, <1>6 DEF DInv, Entries, OneEntry, UsersListed, ClosedEmpty, OpenListed
<1>9. ClosingListed'
  BY <1>1, <1>2, <1>7 DEF DInv, Entries, ClosingListed
<1>10. LeftListed' /\ TokensListed'
  BY <1>1, <1>2, <1>3 DEF DInv, Entries, LeftListed, TokensListed
<1>11. QED
  BY <1>4, <1>5, <1>8, <1>9, <1>10 DEF Entries
-----------------------------------------------------------------------------
(* The steps of Lock, Unlock and UnlockForOwner. *)

LEMMA OpenConnection ==
    ASSUME DInv, NEW c \in Clients, pc[c] # "idle"
    PROVE  /\ conn[Conn[c]] = "open" /\ mutexLocker # Conn[c]
           /\ Returned(c) = "held"
BY ConstantFacts, DTypes DEF DInv, Calls, Returned

\* A call that registers is the only user of its id on its connection.
LEMMA LockKeeps ==
    ASSUME DInv, NEW c \in Clients, Lock(c)
    PROVE  Calls' /\ Tokens' /\ Entries'
<1> USE ConstantFacts, DTypes
<1>1. /\ pc[c] = "lock" /\ pc' = [pc EXCEPT ![c] = "send"]
      /\ owners2Lockers' = [owners2Lockers EXCEPT ![Conn[c]][arg[c]] = @ + 1]
      /\ UNCHANGED <<mutexLocker, taking, got, left, conn, arg>>
  BY DEF Lock, LockFound, LockNew, Register, AddEntry, recvVars
<1>2. \A id \in Ids : Token(id)' = Token(id)
  BY LockKeepsTokens DEF DInv
<1>3. /\ conn[Conn[c]] = "open" /\ mutexLocker # Conn[c]
      /\ Conn[c] \in Owners /\ arg[c] \in Ids
  BY <1>1 DEF DInv, Calls
<1>4. owners2Lockers[Conn[c]][arg[c]] = 0
  <2>1. ~Uses(c)
    BY <1>1 DEF Uses, Pending
  <2>2. \A d \in Clients : Conn[d] = Conn[c] /\ arg[d] = arg[c] => ~Uses(d)
    BY <1>1, <2>1 DEF DInv, Calls, Uses, Pending
  <2>3. ~(owners2Lockers[Conn[c]][arg[c]] > 0)
    BY <1>3, <2>2 DEF DInv, Entries, OpenListed
  <2>4. owners2Lockers[Conn[c]][arg[c]] \in Nat
    BY <1>3
  <2>5. QED
    BY <2>3, <2>4
<1>5. \A o \in Owners : \A id \in Ids :
        owners2Lockers'[o][id] =
            IF o = Conn[c] /\ id = arg[c] THEN 1 ELSE owners2Lockers[o][id]
  BY <1>1, <1>3, <1>4
<1>6. Calls'
  BY <1>1 DEF DInv, Calls
<1>7. Tokens'
  BY <1>1, <1>2 DEF DInv, Tokens
<1>8. \A x \in Clients : Uses(x)' <=> Uses(x) \/ x = c
  BY <1>1 DEF Uses, Pending
<1>9. OneEntry' /\ ClosedEmpty'
  BY <1>1, <1>3, <1>5 DEF DInv, Entries, OneEntry, ClosedEmpty
<1>10. UsersListed'
  <2>1. \A x \in Clients : Uses(x)' => arg[x] \in Ids
    BY <1>1, <1>8 DEF Uses, Pending
  <2>2. QED
    BY <1>1, <1>5, <1>8, <2>1 DEF DInv, Entries, UsersListed
<1>11. OpenListed'
  BY <1>1, <1>5, <1>8 DEF DInv, Entries, OpenListed
<1>12. ClosingListed' /\ LeftListed' /\ TokensListed'
  BY <1>1, <1>2, <1>3, <1>5 DEF DInv, Entries, ClosingListed, LeftListed, TokensListed
<1>13. QED
  BY <1>6, <1>7, <1>9, <1>10, <1>11, <1>12 DEF Entries

\* No receiver is blocked, so a send only finds room or joins the queue.
LEMMA SendKeeps ==
    ASSUME DInv, NEW c \in Clients, Send(c)
    PROVE  Calls' /\ Tokens' /\ Entries'
<1> USE ConstantFacts, DTypes
<1>1. ~SendHandOff(c)
  BY DEF SendHandOff, ReceiverBlockedOn, DInv, Tokens
<1>2. /\ pc[c] = "send"
      /\ UNCHANGED <<owners2Lockers, mutexLocker, taking, got, left, conn, arg>>
  BY <1>1 DEF Send, SendBuffer, SendQueue, mapVars, recvVars
<1>3. CASE SendQueue(c)
  <2>1. pc' = [pc EXCEPT ![c] = "queued"] /\ lockers' = lockers /\ ch' = ch
    BY <1>3 DEF SendQueue, mapVars
  <2>2. \A id \in Ids : Token(id)' = Token(id)
    BY <2>1, TokensKept
  <2>3. \A x \in Clients : Uses(x)' <=> Uses(x)
    BY <1>2, <2>1 DEF Uses, Pending
  <2>4. Calls' /\ Tokens'
    BY <1>2, <2>1, <2>2 DEF DInv, Calls, Tokens
  <2>5. OneEntry' /\ UsersListed' /\ ClosedEmpty' /\ OpenListed'
    BY <1>2, <2>3 DEF DInv, Entries, OneEntry, UsersListed, ClosedEmpty, OpenListed
  <2>6. ClosingListed' /\ LeftListed' /\ TokensListed'
    BY <1>2, <2>2 DEF DInv, Entries, ClosingListed, LeftListed, TokensListed
  <2>7. QED
    BY <2>4, <2>5, <2>6 DEF Entries
<1>4. CASE SendBuffer(c)
  <2>1. PICK id : id = arg[c]
    OBVIOUS
  <2>2. /\ id \in Ids /\ Token(id) = NoClient /\ Token(id)' = c
        /\ \A x \in Ids : x # id => Token(x)' = Token(x)
    BY <1>4, <2>1, SendPuts DEF DInv
  <2>3. conn[Conn[c]] = "open" /\ mutexLocker # Conn[c] /\ Returned(c) = "held"
    BY <1>2, OpenConnection DEF DInv
  <2>4. pc' = [pc EXCEPT ![c] = "held"]
    BY <1>4, <2>3 DEF SendBuffer
  <2>5. \A x \in Clients : Uses(x)' <=> Uses(x)
    BY <1>2, <2>4 DEF Uses, Pending
  <2>6. Calls'
    BY <1>2, <2>4 DEF DInv, Calls
  <2>13. \A x \in Ids : \A d \in Clients : Token(x) = d => Token(x)' = d
    BY <2>2
  <2>14. \A x \in Ids : \A d \in Clients : Token(x)' = d => Token(x) = d \/ (x = id /\ d = c)
    BY <2>2
  <2>7. Tokens'
    <3>1. \A x \in Ids : \A d \in Clients : Token(x)' = d =>
            arg[d] = x /\ (pc'[d] \in {"held", "unlock"} \/ conn[Conn[d]] = "closing")
      BY <1>2, <2>1, <2>4, <2>14 DEF DInv, Tokens
    <3>2. \A d \in Clients :
            pc'[d] = "held" \/ (pc'[d] = "unlock" /\ mutexLocker # d) => Token(arg[d])' = d
      <4>1. ASSUME NEW d \in Clients, d # c,
                   pc[d] = "held" \/ (pc[d] = "unlock" /\ mutexLocker # d)
            PROVE  Token(arg[d])' = d
        <5>1. arg[d] \in Ids /\ Token(arg[d]) = d
          BY <4>1 DEF DInv, Tokens
        <5>2. QED
          BY <5>1, <2>13, <1>2
      <4>2. Token(arg[c])' = c
        BY <2>1, <2>2, <1>2
      <4>3. QED
        BY <4>1, <4>2, <2>4
    <3>3. \A d \in Clients : mutexLocker = d => Token(taking)' # d
      BY <1>2, <2>14 DEF DInv, Tokens
    <3>4. QED
      BY <1>2, <3>1, <3>2, <3>3 DEF DInv, Tokens
  <2>8. OneEntry' /\ UsersListed' /\ ClosedEmpty' /\ OpenListed'
    BY <1>2, <2>5 DEF DInv, Entries, OneEntry, UsersListed, ClosedEmpty, OpenListed
  <2>9. ClosingListed' /\ LeftListed'
    <3>1. ClosingListed'
      BY <1>2, <2>13 DEF DInv, Entries, ClosingListed
    <3>2. LeftListed'
      BY <1>2, <2>13 DEF DInv, Entries, LeftListed
    <3>3. QED
      BY <3>1, <3>2
  <2>10. owners2Lockers[Conn[c]][id] > 0
    BY <1>2, <2>1 DEF DInv, Entries, UsersListed, Uses, Pending
  <2>11. TokensListed'
    BY <1>2, <2>3, <2>10, <2>14 DEF DInv, Entries, TokensListed
  <2>12. QED
    BY <2>6, <2>7, <2>8, <2>9, <2>11 DEF Entries
<1>5. QED
  BY <1>1, <1>3, <1>4 DEF Send

\* A client that unlocks has the token, so its id's locker is in the map.
LEMMA NotFoundNever ==
    ASSUME DInv, NEW c \in Clients
    PROVE  ~UnlockNotFound(c)
<1> SUFFICES ASSUME UnlockNotFound(c) PROVE FALSE
  OBVIOUS
<1> USE ConstantFacts, DTypes
<1>1. pc[c] = "unlock" /\ mutexLocker # c /\ lockers[arg[c]] = NoLocker
  BY DEF UnlockNotFound
<1>2. Token(arg[c]) = c
  BY <1>1 DEF DInv, Tokens
<1>3. QED
  BY <1>1, <1>2 DEF Token

\* A receive that takes the token of t changes nothing but that token, and the call
\* whose token takes its place in the channel.
LEMMA ReceiveMoves ==
    ASSUME DInv, NEW id \in Ids, NEW t \in Clients, Token(id) = t, Receive(id)
    PROVE  /\ got' /\ taking' = id /\ UNCHANGED <<owners2Lockers, conn, arg>>
           /\ \A x \in Clients :
                \/ pc'[x] = pc[x]
                \/ pc[x] = "queued" /\ pc'[x] = "held" /\ arg[x] = id /\ Token(id)' = x
           /\ \A x \in Ids : \A d \in Clients : Token(x)' = d =>
                \/ x # id /\ Token(x) = d
                \/ x = id /\ pc[d] = "queued" /\ pc'[d] = "held" /\ arg[d] = id
           /\ \A x \in Ids : x # id => Token(x)' = Token(x)
<1> USE ConstantFacts, DTypes
<1>1. /\ got' /\ taking' = id
      /\ UNCHANGED <<owners2Lockers, conn, arg>>
      /\ \A x \in Ids : x # id => Token(x)' = Token(x)
      /\ \/ Token(id)' = NoClient /\ pc' = pc
         \/ \E next \in Clients : /\ Token(id)' = next
                                   /\ pc[next] = "queued" /\ arg[next] = id
                                   /\ pc' = [pc EXCEPT ![next] = Returned(next)]
  BY ReceiveTakes DEF DInv
<1>2. CASE Token(id)' = NoClient /\ pc' = pc
  BY <1>1, <1>2
<1>3. ASSUME NEW next \in Clients, Token(id)' = next, pc[next] = "queued", arg[next] = id,
             pc' = [pc EXCEPT ![next] = Returned(next)]
      PROVE  /\ \A x \in Clients :
                  \/ pc'[x] = pc[x]
                  \/ pc[x] = "queued" /\ pc'[x] = "held" /\ arg[x] = id /\ Token(id)' = x
             /\ \A x \in Ids : \A d \in Clients : Token(x)' = d =>
                  \/ x # id /\ Token(x) = d
                  \/ x = id /\ pc[d] = "queued" /\ pc'[d] = "held" /\ arg[d] = id
  <2>1. Returned(next) = "held"
    BY <1>3, OpenConnection
  <2>2. QED
    BY <1>1, <1>3, <2>1
<1>4. QED
  BY <1>1, <1>2, <1>3

LEMMA ReceiveKeeps ==
    ASSUME DInv, NEW id \in Ids, NEW t \in Clients, Token(id) = t, Receive(id)
    PROVE  /\ Calls'
           /\ \A x \in Ids : \A d \in Clients : Token(x)' = d =>
                arg'[d] = x /\ (pc'[d] \in {"held", "unlock"} \/ conn'[Conn[d]] = "closing")
           /\ \A d \in Clients :
                d # t /\ (pc'[d] = "held" \/ (pc'[d] = "unlock" /\ mutexLocker # d)) =>
                  Token(arg[d])' = d
           /\ OneEntry' /\ UsersListed' /\ ClosedEmpty' /\ OpenListed'
<1> USE ConstantFacts, DTypes
<1>1. /\ UNCHANGED <<owners2Lockers, conn, arg>>
      /\ \A x \in Clients :
           \/ pc'[x] = pc[x]
           \/ pc[x] = "queued" /\ pc'[x] = "held" /\ arg[x] = id /\ Token(id)' = x
      /\ \A x \in Ids : \A d \in Clients : Token(x)' = d =>
           \/ x # id /\ Token(x) = d
           \/ x = id /\ pc[d] = "queued" /\ pc'[d] = "held" /\ arg[d] = id
      /\ \A x \in Ids : x # id => Token(x)' = Token(x)
  BY ReceiveMoves
<1>2. \A x \in Clients : Uses(x)' <=> Uses(x)
  BY <1>1 DEF Uses, Pending
<1>3. Calls'
  BY <1>1 DEF DInv, Calls
<1>4. ASSUME NEW x \in Ids, NEW d \in Clients, Token(x)' = d
      PROVE  arg'[d] = x /\ (pc'[d] \in {"held", "unlock"} \/ conn'[Conn[d]] = "closing")
  <2>1. CASE Token(x) = d
    <3>1. arg[d] = x /\ (pc[d] \in {"held", "unlock"} \/ conn[Conn[d]] = "closing")
      BY <2>1 DEF DInv, Tokens
    <3>2. QED
      BY <1>1, <3>1
  <2>2. QED
    BY <1>1, <1>4, <2>1
<1>5. ASSUME NEW d \in Clients, d # t,
             pc'[d] = "held" \/ (pc'[d] = "unlock" /\ mutexLocker # d)
      PROVE  Token(arg[d])' = d
  <2>1. CASE pc'[d] = pc[d]
    <3>1. Token(arg[d]) = d /\ arg[d] \in Ids
      BY <1>5, <2>1 DEF DInv, Tokens
    <3>2. QED
      BY <1>1, <1>5, <3>1
  <2>2. CASE pc'[d] # pc[d]
    BY <1>1, <2>2
  <2>3. QED
    BY <2>1, <2>2
<1>6. OneEntry' /\ UsersListed' /\ ClosedEmpty' /\ OpenListed'
  BY <1>1, <1>2 DEF DInv, Entries, OneEntry, UsersListed, ClosedEmpty, OpenListed
<1>7. QED
  BY <1>3, <1>4, <1>5, <1>6

\* Unlock takes the caller's own token.
LEMMA UnlockReceiveKeeps ==
    ASSUME DInv, NEW c \in Clients, UnlockReceive(c)
    PROVE  Calls' /\ Tokens' /\ Entries'
<1> USE ConstantFacts, DTypes
<1>1. /\ pc[c] = "unlock" /\ mutexLocker = Free /\ mutexLocker' = c
      /\ Receive(arg[c]) /\ left' = left
  BY DEF UnlockReceive
<1>2. PICK id \in Ids : id = arg[c] /\ Token(id) = c
  BY <1>1 DEF DInv, Tokens
<1>3. Receive(id)
  BY <1>1, <1>2
<1>4. /\ got' /\ taking' = id /\ UNCHANGED <<owners2Lockers, conn, arg>>
      /\ \A x \in Ids : \A d \in Clients : Token(x)' = d =>
           \/ x # id /\ Token(x) = d
           \/ x = id /\ pc[d] = "queued" /\ pc'[d] = "held" /\ arg[d] = id
      /\ \A x \in Ids : x # id => Token(x)' = Token(x)
  BY <1>2, <1>3, ReceiveMoves
<1>5. Calls' /\ OneEntry' /\ UsersListed' /\ ClosedEmpty' /\ OpenListed'
  BY <1>2, <1>3, ReceiveKeeps
<1>6. Tokens'
  <2>1. \A x \in Ids : \A d \in Clients : Token(x)' = d =>
          arg'[d] = x /\ (pc'[d] \in {"held", "unlock"} \/ conn'[Conn[d]] = "closing")
    BY <1>2, <1>3, ReceiveKeeps
  <2>2. \A d \in Clients :
          pc'[d] = "held" \/ (pc'[d] = "unlock" /\ mutexLocker' # d) => Token(arg[d])' = d
    <3>1. \A d \in Clients :
            d # c /\ (pc'[d] = "held" \/ (pc'[d] = "unlock" /\ mutexLocker # d)) =>
              Token(arg[d])' = d
      BY <1>2, <1>3, ReceiveKeeps
    <3>2. pc'[c] = "unlock"
      BY <1>1, <1>2, <1>3, ReceiveMoves
    <3>3. QED
      BY <1>1, <1>4, <3>1, <3>2
  <2>3. \A d \in Clients : mutexLocker' = d => Token(taking)' # d
    BY <1>1, <1>4
  <2>4. QED
    BY <1>4, <2>1, <2>2, <2>3 DEF Tokens
<1>7. \A x \in Ids : \A d \in Clients : Token(x) = d /\ Conn[d] # Conn[c] => x # id
  BY <1>2
<1>8. conn[Conn[c]] = "open"
  BY <1>1, OpenConnection
<1>9. ClosingListed' /\ LeftListed'
  BY <1>1, <1>4, <1>7, <1>8 DEF DInv, Entries, ClosingListed, LeftListed
<1>10. \A d \in Clients : pc[d] = "queued" => owners2Lockers[Conn[d]][arg[d]] > 0
  BY DEF DInv, Entries, UsersListed, Uses, Pending
<1>11. TokensListed'
  BY <1>1, <1>4, <1>10 DEF DInv, Entries, TokensListed
<1>12. QED
  BY <1>5, <1>6, <1>9, <1>11 DEF Entries

LEMMA UnlockFinishKeeps ==
    ASSUME DInv, NEW c \in Clients, UnlockFinish(c)
    PROVE  Calls' /\ Tokens' /\ Entries'
<1> USE ConstantFacts, DTypes
<1>1. /\ mutexLocker = c /\ pc[c] = "unlock" /\ taking = arg[c] /\ arg[c] \in Ids
      /\ mutexLocker' = Free /\ taking' = NoId
      /\ owners2Lockers' = [owners2Lockers EXCEPT ![Conn[c]][arg[c]] = 0]
      /\ pc' = [pc EXCEPT ![c] = "idle"] /\ arg' = [arg EXCEPT ![c] = NoId]
      /\ UNCHANGED <<left, conn>>
  BY DEF UnlockFinish, RemoveEntries
<1>2. \A x \in Ids : Token(x)' = Token(x)
  BY FinishKeepsTokens DEF DInv
<1>3. conn[Conn[c]] = "open"
  BY <1>1, OpenConnection
<1>4. \A x \in Ids : Token(x) # c
  <2>1. Token(arg[c]) # c
    BY <1>1 DEF DInv, Tokens
  <2>2. QED
    BY <2>1 DEF DInv, Tokens
<1>5. \A o \in Owners : \A id \in Ids : owners2Lockers'[o][id] =
        IF o = Conn[c] /\ id = arg[c] THEN 0 ELSE owners2Lockers[o][id]
  BY <1>1
<1>6. \A x \in Clients : Uses(x)' <=> Uses(x) /\ x # c
  BY <1>1 DEF Uses, Pending
<1>7. ASSUME NEW d \in Clients, d # c, Conn[d] = Conn[c], pc[d] # "idle"
      PROVE  arg[d] # arg[c]
  BY <1>1, <1>7 DEF DInv, Calls
<1>8. Calls'
  BY <1>1 DEF DInv, Calls
<1>9. Tokens'
  <2>1. \A x \in Ids : \A d \in Clients : Token(x)' = d =>
          arg'[d] = x /\ (pc'[d] \in {"held", "unlock"} \/ conn'[Conn[d]] = "closing")
    BY <1>1, <1>2, <1>4 DEF DInv, Tokens
  <2>2. ASSUME NEW d \in Clients, pc'[d] = "held" \/ pc'[d] = "unlock"
        PROVE  Token(arg[d])' = d
    <3>1. d # c /\ mutexLocker # d
      BY <1>1, <2>2
    <3>2. Token(arg[d]) = d /\ arg[d] \in Ids
      BY <1>1, <2>2, <3>1 DEF DInv, Tokens
    <3>3. QED
      BY <1>1, <1>2, <3>1, <3>2
  <2>3. QED
    BY <1>1, <2>1, <2>2 DEF Tokens
<1>10. OneEntry' /\ ClosedEmpty'
  BY <1>1, <1>3, <1>5 DEF DInv, Entries, OneEntry, ClosedEmpty
<1>11. UsersListed'
  <2>1. ASSUME NEW d \in Clients, Uses(d), d # c
        PROVE  owners2Lockers'[Conn[d]][arg[d]] > 0
    <3>1. pc[d] # "idle"
      BY <2>1 DEF Uses, Pending
    <3>2. ~(Conn[d] = Conn[c] /\ arg[d] = arg[c])
      BY <1>7, <2>1, <3>1
    <3>3. owners2Lockers[Conn[d]][arg[d]] > 0 /\ arg[d] \in Ids
      BY <2>1, <3>1 DEF DInv, Entries, UsersListed
    <3>4. QED
      BY <1>5, <3>2, <3>3
  <2>2. QED
    BY <1>1, <1>6, <2>1 DEF UsersListed
<1>12. OpenListed'
  BY <1>1, <1>5, <1>6 DEF DInv, Entries, OpenListed
<1>13. ClosingListed' /\ LeftListed'
  BY <1>1, <1>2, <1>3, <1>5 DEF DInv, Entries, ClosingListed, LeftListed
<1>14. TokensListed'
  <2>1. ASSUME NEW x \in Ids, NEW d \in Clients, Token(x) = d
        PROVE  owners2Lockers'[Conn[d]][x] > 0
    <3>1. d # c /\ arg[d] = x /\ (pc[d] # "idle" \/ conn[Conn[d]] = "closing")
      BY <1>4, <2>1 DEF DInv, Tokens
    <3>2. ~(Conn[d] = Conn[c] /\ x = arg[c])
      BY <1>3, <1>7, <3>1
    <3>3. owners2Lockers[Conn[d]][x] > 0
      BY <1>1, <2>1 DEF DInv, Entries, TokensListed
    <3>4. QED
      BY <1>5, <3>2, <3>3
  <2>2. QED
    BY <1>1, <1>2, <2>1 DEF TokensListed
<1>15. QED
  BY <1>8, <1>9, <1>10, <1>11, <1>12, <1>13, <1>14 DEF Entries

\* One turn of the loop takes the token of one of o's clients, all of them gone.
LEMMA OwnerReceiveKeeps ==
    ASSUME DInv, NEW o \in Owners, UnlockForOwnerReceive(o)
    PROVE  Calls' /\ Tokens' /\ Entries'
<1> USE ConstantFacts, DTypes
<1>1. PICK id \in Ids : left[id] > 0 /\ left' = [left EXCEPT ![id] = @ - 1] /\ Receive(id)
  BY DEF UnlockForOwnerReceive
<1>2. mutexLocker = o /\ mutexLocker' = o /\ conn[o] = "closing"
  BY DEF UnlockForOwnerReceive
<1>3. PICK t \in Clients : Conn[t] = o /\ Token(id) = t /\ left[id] = 1
  BY <1>1, <1>2 DEF DInv, Entries, LeftListed
<1>4. /\ got' /\ taking' = id /\ UNCHANGED <<owners2Lockers, conn, arg>>
      /\ \A x \in Ids : \A d \in Clients : Token(x)' = d =>
           \/ x # id /\ Token(x) = d
           \/ x = id /\ pc[d] = "queued" /\ pc'[d] = "held" /\ arg[d] = id
      /\ \A x \in Ids : x # id => Token(x)' = Token(x)
      /\ \A x \in Clients : pc'[x] = pc[x] \/ (pc[x] = "queued" /\ pc'[x] = "held")
  BY <1>1, <1>3, ReceiveMoves
<1>5. Calls' /\ OneEntry' /\ UsersListed' /\ ClosedEmpty' /\ OpenListed'
  BY <1>1, <1>3, ReceiveKeeps
<1>6. \A d \in Clients : pc[d] # "idle" => Conn[d] # o
  BY <1>2 DEF DInv, Calls
<1>7. Tokens'
  <2>1. \A x \in Ids : \A d \in Clients : Token(x)' = d =>
          arg'[d] = x /\ (pc'[d] \in {"held", "unlock"} \/ conn'[Conn[d]] = "closing")
    BY <1>1, <1>3, ReceiveKeeps
  <2>2. ASSUME NEW d \in Clients, pc'[d] = "held" \/ pc'[d] = "unlock"
        PROVE  Token(arg[d])' = d
    <3>1. d # t /\ mutexLocker # d
      BY <1>2, <1>3, <1>4, <1>6, <2>2
    <3>2. QED
      BY <1>1, <1>3, <2>2, <3>1, ReceiveKeeps
  <2>3. \A d \in Clients : mutexLocker' # d
    BY <1>2
  <2>4. QED
    BY <1>4, <2>1, <2>2, <2>3 DEF Tokens
<1>8. \A x \in Ids : left'[x] = IF x = id THEN 0 ELSE left[x]
  BY <1>1, <1>3
<1>9. ClosingListed'
  BY <1>2, <1>3, <1>4 DEF DInv, Entries, ClosingListed
<1>10. LeftListed'
  BY <1>2, <1>4, <1>8 DEF DInv, Entries, LeftListed
<1>11. \A d \in Clients : pc[d] = "queued" =>
         Conn[d] # o /\ owners2Lockers[Conn[d]][arg[d]] > 0
  BY <1>6 DEF DInv, Entries, UsersListed, Uses, Pending
<1>12. TokensListed'
  BY <1>2, <1>4, <1>8, <1>11 DEF DInv, Entries, TokensListed
<1>13. QED
  BY <1>5, <1>7, <1>9, <1>10, <1>12 DEF Entries

LEMMA OwnerKeeps ==
    ASSUME DInv, NEW o \in Owners, UnlockForOwner(o)
    PROVE  Calls' /\ Tokens' /\ Entries'
<1> USE ConstantFacts, DTypes
<1>1. CASE UnlockForOwnerBegin(o)
  <2>1. /\ conn[o] = "closing" /\ mutexLocker = Free /\ mutexLocker' = o
        /\ left' = owners2Lockers[o]
        /\ UNCHANGED <<owners2Lockers, taking, got, conn, pc, arg, lockers, ch>>
    BY <1>1 DEF UnlockForOwnerBegin, mapVars, chanVars, callVars
  <2>2. \A x \in Ids : Token(x)' = Token(x)
    BY <2>1, TokensKept
  <2>3. Calls' /\ Tokens'
    BY <2>1, <2>2 DEF DInv, Calls, Tokens
  <2>4. OneEntry' /\ UsersListed' /\ ClosedEmpty' /\ OpenListed'
    BY <2>1 DEF DInv, Entries, OneEntry, UsersListed, ClosedEmpty, OpenListed, Uses
  <2>5. \A x \in Ids : left'[x] = owners2Lockers[o][x]
    BY <2>1
  <2>6. ClosingListed' /\ LeftListed'
    BY <2>1, <2>2, <2>5 DEF DInv, Entries, ClosingListed, LeftListed, OneEntry
  <2>7. TokensListed'
    BY <2>1, <2>2, <2>5 DEF DInv, Entries, TokensListed
  <2>8. QED
    BY <2>3, <2>4, <2>6, <2>7 DEF Entries
<1>2. CASE UnlockForOwnerReceive(o)
  BY <1>2, OwnerReceiveKeeps
<1>3. CASE UnlockForOwnerCount(o)
  <2>1. /\ taking' = NoId /\ mutexLocker = o
        /\ UNCHANGED <<owners2Lockers, mutexLocker, left, conn, pc, arg, lockers, ch>>
    BY <1>3 DEF UnlockForOwnerCount, chanVars, callVars
  <2>2. \A x \in Ids : Token(x)' = Token(x)
    BY <2>1, TokensKept
  <2>3. Calls' /\ Tokens'
    BY <2>1, <2>2 DEF DInv, Calls, Tokens
  <2>4. OneEntry' /\ UsersListed' /\ ClosedEmpty' /\ OpenListed'
    BY <2>1 DEF DInv, Entries, OneEntry, UsersListed, ClosedEmpty, OpenListed, Uses
  <2>5. ClosingListed' /\ LeftListed' /\ TokensListed'
    BY <2>1, <2>2 DEF DInv, Entries, ClosingListed, LeftListed, TokensListed
  <2>6. QED
    BY <2>3, <2>4, <2>5 DEF Entries
<1>4. ~UnlockForOwnerPanic(o)
  <2>1. SUFFICES ASSUME UnlockForOwnerPanic(o) PROVE FALSE
    OBVIOUS
  <2>2. PICK id \in Ids : left[id] > 0 /\ lockers[id] = NoLocker /\ mutexLocker = o
    BY <2>1 DEF UnlockForOwnerPanic
  <2>3. \E x \in Clients : Token(id) = x
    BY <2>2 DEF DInv, Entries, LeftListed
  <2>4. QED
    BY <2>2, <2>3 DEF Token
<1>5. CASE UnlockForOwnerEnd(o)
  <2>1. /\ mutexLocker = o /\ mutexLocker' = Free /\ left = NoEntries
        /\ owners2Lockers' = [owners2Lockers EXCEPT ![o] = NoEntries]
        /\ conn' = [conn EXCEPT ![o] = "closed"]
        /\ UNCHANGED <<taking, got, left, pc, arg, lockers, ch>>
    BY <1>5 DEF UnlockForOwnerEnd, chanVars, callVars
  <2>2. \A x \in Ids : Token(x)' = Token(x)
    BY <2>1, TokensKept
  <2>3. \A x \in Ids : left[x] = 0 /\ owners2Lockers'[o][x] = 0
    BY <2>1 DEF NoEntries
  <2>4. \A p \in Owners : p # o => \A x \in Ids : owners2Lockers'[p][x] = owners2Lockers[p][x]
    BY <2>1
  <2>5. \A x \in Ids : \A d \in Clients : Token(x) = d => Conn[d] # o
    BY <2>1, <2>3 DEF DInv, Entries, TokensListed
  <2>6. \A d \in Clients : pc[d] # "idle" => Conn[d] # o
    BY <2>1 DEF DInv, Calls
  <2>7. \A x \in Clients : (Uses(x)' <=> Uses(x)) /\ (Uses(x) => Conn[x] # o)
    BY <2>1, <2>6 DEF Uses, Pending
  <2>8. Calls'
    BY <2>1, <2>6 DEF DInv, Calls
  <2>9. Tokens'
    BY <2>1, <2>2, <2>5 DEF DInv, Tokens
  <2>10. OneEntry' /\ ClosedEmpty'
    BY <2>1, <2>3, <2>4 DEF DInv, Entries, OneEntry, ClosedEmpty
  <2>11. UsersListed'
    <3>1. \A x \in Clients : Uses(x) => arg[x] \in Ids
      BY DEF Uses, Pending
    <3>2. QED
      BY <2>1, <2>4, <2>7, <3>1 DEF DInv, Entries, UsersListed
  <2>12. OpenListed' /\ ClosingListed'
    BY <2>1, <2>2, <2>4, <2>7 DEF DInv, Entries, OpenListed, ClosingListed
  <2>13. LeftListed' /\ TokensListed'
    BY <2>1, <2>2, <2>4, <2>5 DEF DInv, Entries, LeftListed, TokensListed
  <2>14. QED
    BY <2>8, <2>9, <2>10, <2>11, <2>12, <2>13 DEF Entries
<1>6. QED
  BY <1>1, <1>2, <1>3, <1>4, <1>5 DEF UnlockForOwner
-----------------------------------------------------------------------------
LEMMA DInvInit == Init => DInv
<1> SUFFICES ASSUME Init PROVE DInv
  OBVIOUS
<1>1. IInv
  BY IInvInit
<1>2. /\ \A c \in Clients : pc[c] = "idle" /\ ~Uses(c) /\ mutexLocker # c
      /\ \A o \in Owners : conn[o] = "closed" /\ mutexLocker # o
      /\ \A o \in Owners : \A id \in Ids : owners2Lockers[o][id] = 0
      /\ \A id \in Ids : Token(id) = NoClient
      /\ taking = NoId
  BY ConstantFacts DEF Init, Uses, Pending, NoEntries, Token
<1>3. Calls /\ Tokens
  BY <1>2, ConstantFacts DEF Calls, Tokens
<1>4. Entries
  BY <1>2, ConstantFacts DEF Entries, OneEntry, UsersListed, ClosedEmpty, OpenListed,
     ClosingListed, LeftListed, TokensListed
<1>5. QED
  BY <1>1, <1>3, <1>4 DEF DInv

LEMMA DInvStep ==
    ASSUME Environment = {}, DInv, [Next]_vars
    PROVE  DInv'
<1>1. IInv'
  BY IInvStep DEF DInv
<1>2. CASE UNCHANGED vars
  <2>1. /\ UNCHANGED <<owners2Lockers, mutexLocker, taking, got, left, conn, pc, arg>>
        /\ lockers' = lockers /\ ch' = ch
    BY <1>2 DEF vars, mapVars, chanVars, recvVars, callVars
  <2>2. \A x : Token(x)' = Token(x)
    BY <2>1, TokensKept
  <2>3. Calls' /\ Tokens'
    BY <2>1, <2>2 DEF DInv, Calls, Tokens
  <2>4. Entries'
    BY <2>1, <2>2 DEF DInv, Entries, OneEntry, UsersListed, ClosedEmpty, OpenListed,
       ClosingListed, LeftListed, TokensListed, Uses
  <2>5. QED
    BY <1>1, <2>3, <2>4 DEF DInv
<1>3. ASSUME NEW o \in Owners, Connect(o) \/ Drop(o) \/ UnlockForOwner(o)
      PROVE  DInv'
  BY <1>1, <1>3, ConnectKeeps, DropKeeps, OwnerKeeps DEF DInv
<1>4. ASSUME NEW c \in Clients,
             CallUnlock(c) \/ \E id \in Ids : CallLock(c, id) \/ StrayUnlock(c, id)
      PROVE  DInv'
  BY <1>1, <1>4, CallKeeps DEF DInv
<1>5. ASSUME NEW c \in Clients, Lock(c) \/ Send(c)
      PROVE  DInv'
  BY <1>1, <1>5, LockKeeps, SendKeeps DEF DInv
<1>6. ASSUME NEW c \in Clients, Unlock(c)
      PROVE  DInv'
  BY <1>1, <1>6, NotFoundNever, UnlockReceiveKeeps, UnlockFinishKeeps DEF DInv, Unlock
<1>7. QED
  BY <1>2, <1>3, <1>4, <1>5, <1>6 DEF Next

LEMMA DInvAlways ==
    ASSUME Environment = {}
    PROVE  Spec => []DInv
<1>1. DInv /\ [Next]_vars => DInv'
  BY DInvStep
<1>2. QED
  BY <1>1, DInvInit, PTL DEF Spec

\* Two clients never hold the same id at once, however many connections, clients and
\* ids there are, and whenever a connection without calls in flight is lost.
THEOREM Exclusion ==
    ASSUME Environment = {}
    PROVE  Spec => []MutualExclusion
<1>1. DInv => MutualExclusion
  BY DEF DInv, Tokens, MutualExclusion
<1>2. QED
  BY <1>1, DInvAlways, PTL

\* Nobody ever waits for a token while holding mutexLocker.
THEOREM NeverBlocks ==
    ASSUME Environment = {}
    PROVE  Spec => []UnlockNeverBlocks
<1>1. DInv => UnlockNeverBlocks
  BY DEF DInv, Tokens, UnlockNeverBlocks, ReceiverBlockedOn
<1>2. QED
  BY <1>1, DInvAlways, PTL

\* A lost connection, once UnlockForOwner has returned for it, has no token in any
\* channel and no entry in any list.
THEOREM Cleanup ==
    ASSUME Environment = {}
    PROVE  Spec => []OwnerCleanup
<1>1. DInv => OwnerCleanup
  <2>1. SUFFICES ASSUME DInv, NEW o \in Owners, conn[o] = "closed"
                 PROVE  TokensOf(o) = {} /\ owners2Lockers[o] = NoEntries
    BY DEF OwnerCleanup
  <2> USE ConstantFacts, DTypes
  <2>2. \A id \in Ids : owners2Lockers[o][id] = 0
    BY <2>1 DEF DInv, Entries, ClosedEmpty
  <2>3. owners2Lockers[o] = NoEntries
    BY <2>1, <2>2 DEF NoEntries
  <2>4. ASSUME NEW id \in Ids, lockers[id] # NoLocker, ch[lockers[id]] \in ClientsOf(o)
        PROVE  FALSE
    <3>1. PICK c \in Clients : Token(id) = c /\ Conn[c] = o
      BY <2>4 DEF Token, ClientsOf
    <3>2. mutexLocker # Conn[c]
      BY <2>1, <3>1
    <3>3. owners2Lockers[Conn[c]][id] > 0
      BY <2>1, <3>1, <3>2 DEF DInv, Entries, TokensListed
    <3>4. QED
      BY <2>2, <3>1, <3>3
  <2>5. QED
    BY <2>3, <2>4 DEF TokensOf
<1>2. QED
  BY <1>1, DInvAlways, PTL
-----------------------------------------------------------------------------
(* The code implements LockService: every step is a step of it, or changes nothing it sees *)

Want(c) == IF Phase(c) = "idle" THEN NoId ELSE arg[c]

SameToken(S) == \A x \in Ids \ S : Token(x)' = Token(x)
SameUse(S) == \A x \in Clients \ S : Phase(x)' = Phase(x) /\ Want(x)' = Want(x)

LEMMA AsStutter ==
    ASSUME SameToken({}), SameUse({})
    PROVE  UNCHANGED LS!vars
BY DEF LS!vars, SameToken, SameUse, Want

LEMMA AsRequest ==
    ASSUME NEW c \in Clients, SameToken({}), SameUse({c}),
           Phase(c) = "idle", Phase(c)' = "waiting", NEW id \in Ids, Want(c)' = id
    PROVE  LS!Request(c, id)
BY DEF LS!Request, SameToken, SameUse, Want

LEMMA AsGrant ==
    ASSUME NEW c \in Clients, NEW id \in Ids, SameToken({id}), SameUse({c}),
           Token(id) = NoClient, Token(id)' = c,
           Phase(c) = "waiting", Phase(c)' = "holding", Want(c) = id, Want(c)' = id
    PROVE  LS!Grant(c)
BY DEF LS!Grant, SameToken, SameUse, Want

LEMMA AsFinish ==
    ASSUME NEW C \in SUBSET Clients, SameToken({}), SameUse(C),
           \A c \in C : Phase(c) = "holding" /\ Phase(c)' = "done" /\ Want(c)' = Want(c)
    PROVE  LS!Finish(C)
BY DEF LS!Finish, SameToken, SameUse, Want

LEMMA AsTakeBack ==
    ASSUME NEW c \in Clients, NEW id \in Ids, SameToken({id}), Token(id) = c,
           Phase(c) = "done", Phase(c)' = "idle", Want(c) = id,
           \/ SameUse({c}) /\ Token(id)' = NoClient
           \/ \E d \in Clients \ {c} :
                /\ SameUse({c, d}) /\ Token(id)' = d
                /\ Phase(d) = "waiting" /\ Phase(d)' = "holding" /\ Want(d) = id /\ Want(d)' = id
    PROVE  LS!TakeBack(c)
BY DEF LS!TakeBack, SameToken, SameUse, Want

\* Where a client is, from its control state and its token.
LEMMA Phases ==
    ASSUME DInv, NEW c \in Clients
    PROVE  /\ pc[c] \in Pending => Phase(c) = "waiting"
           /\ pc[c] = "held" => Phase(c) = "holding"
           /\ pc[c] \in {"idle", "lock"} /\ conn[Conn[c]] # "closing" => Phase(c) = "idle"
           /\ pc[c] = "unlock" /\ mutexLocker # c => Phase(c) = "done"
           /\ mutexLocker = c => Phase(c) = "idle"
           /\ \A id \in Ids : Token(id) = c =>
                arg[c] = id /\ (pc[c] # "held" => Phase(c) = "done")
<1> USE ConstantFacts, DTypes
<1>1. ASSUME NEW id \in Ids, Token(id) = c
      PROVE  arg[c] = id /\ pc[c] \notin Pending
  BY <1>1 DEF DInv, Calls, Tokens, Pending
<1>2. pc[c] \in {"idle", "lock"} /\ conn[Conn[c]] # "closing" => \A id \in Ids : Token(id) # c
  BY DEF DInv, Tokens
<1>3. pc[c] = "unlock" /\ mutexLocker # c => \E id \in Ids : Token(id) = c
  BY DEF DInv, Tokens
<1>4. mutexLocker = c => pc[c] = "unlock" /\ \A id \in Ids : Token(id) # c
  BY <1>1 DEF DInv, Tokens
<1>5. QED
  BY <1>1, <1>2, <1>3, <1>4 DEF Phase, Pending

\* A client whose call does not move, and whose tokens do not, is used by nobody.
LEMMA PhaseKept ==
    ASSUME NEW c \in Clients, pc'[c] = pc[c], arg'[c] = arg[c],
           \A id \in Ids : Token(id)' = c <=> Token(id) = c
    PROVE  Phase(c)' = Phase(c) /\ Want(c)' = Want(c)
BY DEF Phase, Want

\* The receive in unlock() takes back the token of t.
LEMMA ReceiveImplements ==
    ASSUME DInv, DInv', NEW id \in Ids, NEW t \in Clients, Token(id) = t, pc[t] # "held",
           Receive(id), mutexLocker' = t \/ pc[t] = "idle"
    PROVE  LS!TakeBack(t)
<1> USE ConstantFacts, DTypes
<1>1. /\ UNCHANGED <<conn, arg>> /\ SameToken({id})
      /\ \/ Token(id)' = NoClient /\ pc' = pc
         \/ \E next \in Clients : /\ Token(id)' = next
                                   /\ pc[next] = "queued" /\ arg[next] = id
                                   /\ pc' = [pc EXCEPT ![next] = Returned(next)]
  BY ReceiveTakes DEF DInv, SameToken
<1>2. Phase(t) = "done" /\ arg[t] = id /\ Want(t) = id
  BY Phases DEF Want
<1>3. \A x \in Ids : x # id => Token(x) # t
  BY Phases
<1>4. t # NoClient /\ pc[t] # "queued"
  BY <1>2 DEF Phase, Pending
<1>5. CASE Token(id)' = NoClient /\ pc' = pc
  <2>1. Phase(t)' = "idle"
    BY <1>1, <1>2, <1>3, <1>4, <1>5 DEF Phase, SameToken, Pending
  <2>2. SameUse({t})
    BY <1>1, <1>5, PhaseKept DEF SameUse, SameToken
  <2>3. QED
    BY <1>1, <1>2, <1>5, <2>1, <2>2, AsTakeBack
<1>6. CASE \E next \in Clients : /\ Token(id)' = next
                                  /\ pc[next] = "queued" /\ arg[next] = id
                                  /\ pc' = [pc EXCEPT ![next] = Returned(next)]
  <2>1. PICK next \in Clients : /\ Token(id)' = next
                                /\ pc[next] = "queued" /\ arg[next] = id
                                /\ pc' = [pc EXCEPT ![next] = Returned(next)]
    BY <1>6
  <2>2. Returned(next) = "held" /\ next # t
    BY <1>4, <2>1, OpenConnection
  <2>3. Phase(next) = "waiting" /\ Want(next) = id
    BY <2>1, Phases DEF Want, Pending
  <2>4. Phase(next)' = "holding" /\ Want(next)' = id
    BY <1>1, <2>1, <2>2 DEF Phase, Want, Pending
  <2>5. Phase(t)' = "idle"
    BY <1>1, <1>2, <1>3, <1>4, <2>1, <2>2 DEF Phase, SameToken, Pending
  <2>6. SameUse({t, next})
    <3>1. ASSUME NEW x \in Clients \ {t, next}
          PROVE  Phase(x)' = Phase(x) /\ Want(x)' = Want(x)
      BY <1>1, <2>1, <3>1, PhaseKept DEF SameToken
    <3>2. QED
      BY <3>1 DEF SameUse
  <2>7. QED
    BY <1>1, <1>2, <2>1, <2>2, <2>3, <2>4, <2>5, <2>6, AsTakeBack
<1>7. QED
  BY <1>1, <1>5, <1>6

LEMMA StepImplements ==
    ASSUME Environment = {}, DInv, [Next]_vars
    PROVE  [LS!Next]_(LS!vars)
<1> USE ConstantFacts, DTypes
<1>0. DInv'
  BY DInvStep
<1>1. ASSUME NEW c \in Clients, Lock(c)
      PROVE  \E id \in Ids : LS!Request(c, id)
  <2>1. /\ pc[c] = "lock" /\ pc' = [pc EXCEPT ![c] = "send"] /\ arg' = arg
        /\ conn[Conn[c]] = "open" /\ arg[c] \in Ids
    BY <1>1, OpenConnection DEF Lock, LockFound, LockNew, Register
  <2>2. SameToken({})
    BY <1>1, LockKeepsTokens DEF DInv, SameToken
  <2>3. Phase(c) = "idle"
    BY <2>1, Phases
  <2>4. PICK id \in Ids : id = arg[c]
    BY <2>1
  <2>5. Phase(c)' = "waiting" /\ Want(c)' = id
    BY <2>1, <2>4 DEF Phase, Want, Pending
  <2>6. SameUse({c})
    BY <2>1, <2>2, PhaseKept DEF SameUse, SameToken
  <2>7. LS!Request(c, id)
    BY <2>2, <2>3, <2>5, <2>6, AsRequest
  <2>8. QED
    BY <2>7
<1>2. ASSUME NEW c \in Clients, Send(c)
      PROVE  LS!Grant(c) \/ UNCHANGED LS!vars
  <2>1. ~SendHandOff(c)
    BY DEF SendHandOff, ReceiverBlockedOn, DInv, Tokens
  <2>2. CASE SendBuffer(c)
    <3>1. /\ pc[c] = "send" /\ pc' = [pc EXCEPT ![c] = "held"] /\ arg' = arg
      BY <2>2, OpenConnection DEF SendBuffer
    <3>2. PICK id \in Ids : /\ id = arg[c] /\ Token(id) = NoClient /\ Token(id)' = c
                            /\ SameToken({id})
      BY <2>2, SendPuts DEF DInv, SameToken
    <3>3. Phase(c) = "waiting" /\ Want(c) = id
      BY <3>1, <3>2, Phases DEF Want, Pending
    <3>4. Phase(c)' = "holding" /\ Want(c)' = id
      BY <3>1, <3>2 DEF Phase, Want, Pending
    <3>5. SameUse({c})
      <4>1. ASSUME NEW x \in Clients \ {c}
            PROVE  Phase(x)' = Phase(x) /\ Want(x)' = Want(x)
        BY <3>1, <3>2, <4>1, PhaseKept DEF SameToken
      <4>2. QED
        BY <4>1 DEF SameUse
    <3>6. QED
      BY <3>2, <3>3, <3>4, <3>5, AsGrant
  <2>3. CASE SendQueue(c)
    <3>1. /\ pc[c] = "send" /\ pc' = [pc EXCEPT ![c] = "queued"]
          /\ UNCHANGED <<arg, lockers, ch>>
      BY <2>3 DEF SendQueue, mapVars
    <3>2. SameToken({})
      BY <3>1, TokensKept DEF SameToken
    <3>3. Phase(c)' = Phase(c) /\ Want(c)' = Want(c)
      BY <3>1 DEF Phase, Want, Pending
    <3>4. SameUse({})
      BY <3>1, <3>2, <3>3, PhaseKept DEF SameUse, SameToken
    <3>5. QED
      BY <3>2, <3>4, AsStutter
  <2>4. QED
    BY <1>2, <2>1, <2>2, <2>3 DEF Send
<1>3. ASSUME NEW c \in Clients, CallUnlock(c)
      PROVE  LS!Finish({c})
  <2>1. /\ pc[c] = "held" /\ pc' = [pc EXCEPT ![c] = "unlock"]
        /\ UNCHANGED <<mutexLocker, arg, lockers, ch>>
    BY <1>3 DEF CallUnlock, mapVars, chanVars, recvVars
  <2>2. SameToken({})
    BY <2>1, TokensKept DEF SameToken
  <2>3. Token(arg[c]) = c /\ arg[c] \in Ids
    BY <2>1 DEF DInv, Tokens
  <2>4. Phase(c) = "holding" /\ Phase(c)' = "done" /\ Want(c)' = Want(c)
    BY <2>1, <2>2, <2>3 DEF Phase, Want, Pending, SameToken
  <2>5. SameUse({c})
    BY <2>1, <2>2, PhaseKept DEF SameUse, SameToken
  <2>6. QED
    BY <2>2, <2>4, <2>5, AsFinish
<1>4. ASSUME NEW o \in Owners, Drop(o)
      PROVE  \E C \in SUBSET Clients : LS!Finish(C)
  <2>1. /\ \A x \in Clients : Conn[x] = o /\ pc[x] = "held" => pc'[x] = "idle"
        /\ \A x \in Clients : ~(Conn[x] = o /\ pc[x] = "held") => pc'[x] = pc[x]
        /\ UNCHANGED <<mutexLocker, arg, lockers, ch>>
    BY <1>4 DEF Drop, ClientsOf, mapVars, chanVars, recvVars
  <2>2. SameToken({})
    BY <2>1, TokensKept DEF SameToken
  <2> DEFINE C == {x \in Clients : Conn[x] = o /\ pc[x] = "held"}
  <2>3. ASSUME NEW x \in C
        PROVE  Phase(x) = "holding" /\ Phase(x)' = "done" /\ Want(x)' = Want(x)
    <3>1. Token(arg[x]) = x /\ arg[x] \in Ids
      BY <2>3 DEF DInv, Tokens
    <3>2. QED
      BY <2>1, <2>2, <2>3, <3>1 DEF Phase, Want, Pending, SameToken
  <2>4. SameUse(C)
    BY <2>1, <2>2, PhaseKept DEF SameUse, SameToken
  <2>5. LS!Finish(C)
    BY <2>2, <2>3, <2>4, AsFinish
  <2>6. QED
    BY <2>5
<1>5. ASSUME NEW c \in Clients, UnlockReceive(c)
      PROVE  LS!TakeBack(c)
  <2>1. /\ pc[c] = "unlock" /\ mutexLocker = Free /\ mutexLocker' = c /\ Receive(arg[c])
    BY <1>5 DEF UnlockReceive
  <2>2. PICK id \in Ids : id = arg[c] /\ Token(id) = c
    BY <2>1 DEF DInv, Tokens
  <2>3. Receive(id)
    BY <2>1, <2>2
  <2>4. QED
    BY <1>0, <2>1, <2>2, <2>3, ReceiveImplements
<1>6. ASSUME NEW o \in Owners, UnlockForOwnerReceive(o)
      PROVE  \E t \in Clients : LS!TakeBack(t)
  <2>1. PICK id \in Ids : left[id] > 0 /\ Receive(id)
    BY <1>6 DEF UnlockForOwnerReceive
  <2>2. mutexLocker = o /\ conn[o] = "closing"
    BY <1>6 DEF UnlockForOwnerReceive
  <2>3. PICK t \in Clients : Conn[t] = o /\ Token(id) = t
    BY <2>1, <2>2 DEF DInv, Entries, LeftListed
  <2>4. pc[t] = "idle"
    BY <2>2, <2>3 DEF DInv, Calls
  <2>5. QED
    BY <1>0, <2>1, <2>3, <2>4, ReceiveImplements
<1>7. ASSUME NEW c \in Clients, UnlockFinish(c)
      PROVE  UNCHANGED LS!vars
  <2>1. /\ mutexLocker = c /\ pc[c] = "unlock" /\ conn[Conn[c]] = "open"
        /\ pc' = [pc EXCEPT ![c] = "idle"] /\ arg' = [arg EXCEPT ![c] = NoId] /\ conn' = conn
    BY <1>7, OpenConnection DEF UnlockFinish
  <2>2. SameToken({})
    BY <1>7, FinishKeepsTokens DEF DInv, SameToken
  <2>3. Phase(c) = "idle" /\ \A id \in Ids : Token(id) # c
    BY <2>1, Phases
  <2>4. Phase(c)' = "idle"
    BY <2>1, <2>2, <2>3 DEF Phase, SameToken, Pending
  <2>5. SameUse({})
    <3>1. ASSUME NEW x \in Clients, x # c
          PROVE  Phase(x)' = Phase(x) /\ Want(x)' = Want(x)
      BY <2>1, <2>2, <3>1, PhaseKept DEF SameToken
    <3>2. QED
      BY <2>3, <2>4, <3>1 DEF SameUse, Want
  <2>6. QED
    BY <2>2, <2>5, AsStutter
<1>8. ASSUME NEW c \in Clients, NEW id \in Ids, CallLock(c, id)
      PROVE  UNCHANGED LS!vars
  <2>1. /\ pc[c] = "idle" /\ conn[Conn[c]] = "open"
        /\ pc' = [pc EXCEPT ![c] = "lock"] /\ arg' = [arg EXCEPT ![c] = id]
        /\ UNCHANGED <<lockers, ch>>
    BY <1>8 DEF CallLock, mapVars, chanVars
  <2>2. SameToken({})
    BY <2>1, TokensKept DEF SameToken
  <2>3. Phase(c) = "idle" /\ \A x \in Ids : Token(x) # c
    BY <2>1 DEF Phase, DInv, Tokens, Pending
  <2>4. Phase(c)' = "idle"
    BY <2>1, <2>2, <2>3 DEF Phase, SameToken, Pending
  <2>5. SameUse({})
    <3>1. ASSUME NEW x \in Clients, x # c
          PROVE  Phase(x)' = Phase(x) /\ Want(x)' = Want(x)
      BY <2>1, <2>2, <3>1, PhaseKept DEF SameToken
    <3>2. QED
      BY <2>3, <2>4, <3>1 DEF SameUse, Want
  <2>6. QED
    BY <2>2, <2>5, AsStutter
<1>9. ASSUME NEW o \in Owners, Connect(o)
      PROVE  UNCHANGED LS!vars
  <2>1. /\ \A x \in Clients : Conn[x] = o => pc[x] = "idle" /\ conn[o] = "closed"
        /\ \A x \in Clients : Conn[x] # o => arg'[x] = arg[x]
        /\ UNCHANGED <<lockers, ch, pc>>
    BY <1>9 DEF Connect, ClientsOf, mapVars, chanVars
  <2>2. SameToken({})
    BY <2>1, TokensKept DEF SameToken
  <2>3. ASSUME NEW x \in Clients
        PROVE  Phase(x)' = Phase(x) /\ Want(x)' = Want(x)
    <3>1. Phase(x)' = Phase(x)
      BY <2>1, <2>2 DEF Phase, SameToken
    <3>2. Conn[x] = o => Phase(x) = "idle"
      BY <2>1, Phases
    <3>3. QED
      BY <2>1, <3>1, <3>2 DEF Want
  <2>4. QED
    BY <2>2, <2>3, AsStutter DEF SameUse
<1>10. ASSUME UNCHANGED <<lockers, ch, pc, arg>>
       PROVE  UNCHANGED LS!vars
  <2>1. SameToken({})
    BY <1>10, TokensKept DEF SameToken
  <2>2. SameUse({})
    BY <1>10, <2>1, PhaseKept DEF SameUse, SameToken
  <2>3. QED
    BY <2>1, <2>2, AsStutter
<1>11. ASSUME NEW o \in Owners, UnlockForOwner(o), ~UnlockForOwnerReceive(o)
       PROVE  UNCHANGED LS!vars
  <2>1. UNCHANGED <<lockers, ch, pc, arg>>
    BY <1>11 DEF UnlockForOwner, UnlockForOwnerBegin, UnlockForOwnerCount, UnlockForOwnerPanic,
                 UnlockForOwnerEnd, mapVars, chanVars, callVars
  <2>2. QED
    BY <1>10, <2>1
<1>12. CASE UNCHANGED vars
  <2>1. UNCHANGED <<lockers, ch, pc, arg>>
    BY <1>12 DEF vars, mapVars, chanVars, callVars
  <2>2. QED
    BY <1>10, <2>1
<1>13. ASSUME NEW c \in Clients, Lock(c) \/ Send(c) \/ CallUnlock(c) \/ Unlock(c)
       PROVE  LS!Next \/ UNCHANGED LS!vars
  <2>1. CASE Lock(c)
    BY <1>1, <2>1 DEF LS!Next
  <2>2. CASE Send(c)
    BY <1>2, <2>2 DEF LS!Next
  <2>3. CASE CallUnlock(c)
    <3>1. {c} \in SUBSET Clients /\ LS!Finish({c})
      BY <1>3, <2>3
    <3>2. QED
      BY <3>1 DEF LS!Next
  <2>4. CASE UnlockReceive(c)
    BY <1>5, <2>4 DEF LS!Next
  <2>5. CASE UnlockFinish(c)
    BY <1>7, <2>5
  <2>6. QED
    BY <1>13, <2>1, <2>2, <2>3, <2>4, <2>5, NotFoundNever DEF Unlock
<1>14. ASSUME NEW c \in Clients, NEW id \in Ids, CallLock(c, id) \/ StrayUnlock(c, id)
       PROVE  UNCHANGED LS!vars
  BY <1>8, <1>14 DEF StrayUnlock
<1>15. ASSUME NEW o \in Owners, Connect(o) \/ Drop(o) \/ UnlockForOwner(o)
       PROVE  LS!Next \/ UNCHANGED LS!vars
  BY <1>4, <1>6, <1>9, <1>11, <1>15 DEF LS!Next
<1>16. QED
  BY <1>12, <1>13, <1>14, <1>15 DEF Next

LEMMA InitImplements == Init => LS!Init
<1> SUFFICES ASSUME Init PROVE LS!Init
  OBVIOUS
<1>1. \A id \in Ids : Token(id) = NoClient
  BY DEF Init, Token
<1>2. \A c \in Clients : Phase(c) = "idle" /\ Want(c) = NoId
  BY <1>1, ConstantFacts DEF Init, Phase, Want, Pending
<1>3. QED
  BY <1>1, <1>2 DEF LS!Init, Want

\* sync/mutex.go gives disciplined clients the lock service that LockService specifies: however
\* many there are, an id goes from a client that is through with it to nobody, or to one that waits.
THEOREM Implements ==
    ASSUME Environment = {}
    PROVE  Spec => ImplementsLockService
<1>1. DInv /\ [Next]_vars => [LS!Next]_(LS!vars)
  BY StepImplements
<1>2. QED
  BY <1>1, DInvAlways, InitImplements, PTL DEF Spec, LS!Spec, ImplementsLockService
-----------------------------------------------------------------------------
\* An owner's list is, except while UnlockForOwner works on it, exactly the ids its clients
\* wait for, hold or have a token of, one entry each.
THEOREM ListsExact ==
    ASSUME Environment = {}
    PROVE  Spec => []ListExact
<1>1. DInv => ListExact
  <2>1. SUFFICES ASSUME DInv, NEW o \in Owners, NEW id \in Ids, mutexLocker # o
                 PROVE  owners2Lockers[o][id] =
                          Cardinality({c \in ClientsOf(o) :
                                         arg[c] = id /\ (Uses(c) \/ Token(id) = c)})
    BY DEF ListExact, Uses
  <2> USE ConstantFacts, DTypes
  <2> DEFINE S == {c \in ClientsOf(o) : arg[c] = id /\ (Uses(c) \/ Token(id) = c)}
  <2>2. owners2Lockers[o][id] \in {0, 1}
    <3>1. owners2Lockers[o][id] \in Nat
      BY <2>1
    <3>2. owners2Lockers[o][id] <= 1
      BY <2>1, Zenon DEF DInv, Entries, OneEntry
    <3>3. QED
      BY <3>1, <3>2
  <2>3. CASE owners2Lockers[o][id] = 0
    <3>1. S = {}
      BY <2>1, <2>3 DEF DInv, Entries, UsersListed, TokensListed, ClientsOf
    <3>2. QED
      BY <2>3, <3>1, FS_EmptySet
  <2>4. CASE owners2Lockers[o][id] = 1
    <3>1. conn[o] \in {"open", "closing"}
      BY <2>1, <2>4 DEF DInv, Entries, ClosedEmpty
    <3>2. PICK c \in S : TRUE
      <4>1. CASE conn[o] = "open"
        BY <2>1, <2>4, <4>1 DEF DInv, Entries, OpenListed, ClientsOf
      <4>2. CASE conn[o] = "closing"
        BY <2>1, <2>4, <4>2 DEF DInv, Entries, ClosingListed, Tokens, ClientsOf
      <4>3. QED
        BY <3>1, <4>1, <4>2
    <3>3. \A d \in S : d = c
      <4>1. \A d \in S : Uses(d) \/ (conn[o] = "closing" /\ Token(id) = d)
        BY <2>1 DEF DInv, Tokens, ClientsOf, Uses
      <4>2. \A d \in S : Uses(d) => conn[o] = "open"
        BY <2>1 DEF DInv, Calls, ClientsOf, Uses, Pending
      <4>3. QED
        BY <2>1, <3>2, <4>1, <4>2 DEF DInv, Calls, ClientsOf, Uses, Pending
    <3>4. S = {c}
      BY <3>2, <3>3
    <3>5. QED
      BY <2>4, <3>4, FS_Singleton
  <2>5. QED
    BY <2>2, <2>3, <2>4
<1>2. QED
  BY <1>1, DInvAlways, PTL
=============================================================================
