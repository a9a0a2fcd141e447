------------------------- MODULE ConnectionPoolProofs -------------------------
(***************************************************************************)
(* What ConnectionPool guarantees for any number of threads, connections   *)
(* and commands, and any limit on idle connections.                        *)
(***************************************************************************)
EXTENDS ConnectionPool, SequenceTheorems, TLAPS

InUse(u) == pc[u] \in {"ready", "sent", "replied", "failed"}

\* A connection is in one place: the stack, or the hands of one thread.
Placed ==
  /\ \A u \in Users : conn[u] # NoConn <=> InUse(u)
  /\ \A u, v \in Users : InUse(u) /\ conn[u] = conn[v] => u = v
  /\ \A u \in Users : \A i \in 1..Len(idle) : idle[i] # conn[u]
  /\ \A i, j \in 1..Len(idle) : idle[i] = idle[j] => i = j

\* A connection not opened yet is used by nobody, and new.
Fresh ==
  /\ \A u \in Users : conn[u] <= opened
  /\ \A i \in 1..Len(idle) : idle[i] <= opened
  /\ \A c \in Conns : c > opened => pipe[c] = <<>> /\ c \notin failed

\* Nothing is left on a connection but the command of the call in progress.
Clean ==
  /\ \A i \in 1..Len(idle) : pipe[idle[i]] = <<>>
  /\ \A u \in Users : pc[u] \in {"ready", "replied"} => pipe[conn[u]] = <<>>
  /\ \A u \in Users : pc[u] = "sent" => pipe[conn[u]] = <<<<u, asked[u]>>>>

Answers == \A c \in Conns : answered[c] <= Len(pipe[c])

IInv == /\ TypeOK
        /\ Placed
        /\ Fresh
        /\ Clean
        /\ Answers
        /\ OwnReply
        /\ FailedIsGone
-------------------------------------------------------------------------------
\* The stack without its top has the other elements at their places.
LEMMA PopStack ==
  ASSUME NEW S, NEW s \in Seq(S), s # <<>>, NEW t, t = SubSeq(s, 1, Len(s) - 1)
  PROVE  /\ t \in Seq(S) /\ Len(t) = Len(s) - 1
         /\ \A i \in 1..Len(t) : t[i] = s[i]
         /\ s[Len(s)] \in S
  <1>1. Len(s) \in Nat /\ Len(s) > 0 /\ \A i \in 1..Len(s) : s[i] \in S
    OBVIOUS
  <1>2. t \in Seq(S) /\ Len(t) = Len(s) - 1 /\ \A i \in 1..(Len(s) - 1) : t[i] = s[i]
    <2>1. PICK n \in Nat : n = Len(s) - 1 /\ t = SubSeq(s, 1, n)
      BY <1>1
    <2>2. \A i \in 1..n : s[i] \in S
      BY <1>1, <2>1
    <2>3. SubSeq(s, 1, n) \in Seq(S) /\ Len(SubSeq(s, 1, n)) = IF 1 <= n THEN n - 1 + 1 ELSE 0
      BY <2>2, SubSeqProperties
    <2>4. ASSUME NEW i \in 1..n PROVE SubSeq(s, 1, n)[i] = s[i]
      <3>1. i \in 1..(n - 1 + 1) /\ 1 + i - 1 = i
        OBVIOUS
      <3>2. SubSeq(s, 1, n)[i] = s[1 + i - 1]
        BY <2>2, <3>1, SubSeqProperties
      <3> QED
        BY <3>1, <3>2
    <2>5. Len(SubSeq(s, 1, n)) = n
      BY <2>3
    <2> QED
      BY <2>1, <2>3, <2>4, <2>5
  <1> QED
    BY <1>1, <1>2

\* The stack with a new top.
LEMMA PushStack ==
  ASSUME NEW s \in Seq(Conns), NEW c \in Conns
  PROVE  /\ Append(s, c) \in Seq(Conns) /\ Len(Append(s, c)) = Len(s) + 1
         /\ \A i \in 1..Len(Append(s, c)) :
              Append(s, c)[i] = IF i = Len(s) + 1 THEN c ELSE s[i]
  OBVIOUS

\* The invariant holds before the first step.
LEMMA InitIInv == Init => IInv
  BY PoolAssumption DEF Init, IInv, TypeOK, Placed, Fresh, Clean, Answers, OwnReply,
     FailedIsGone, InUse, Conns, NoConn, NoCommand
-------------------------------------------------------------------------------
(* Every step keeps it. *)

\* Connections are numbers, also those in the stack.
LEMMA Numbers ==
  ASSUME IInv
  PROVE  /\ opened \in Nat /\ Conns \subseteq Nat /\ Len(idle) \in Nat
         /\ \A u \in Users : conn[u] \in Nat
         /\ \A i \in 1..Len(idle) : idle[i] \in Conns /\ idle[i] \in Nat
  <1>1. Conns \subseteq Nat /\ NoConn \in Nat /\ opened \in Nat
    BY PoolAssumption DEF IInv, TypeOK, Conns, NoConn
  <1>2. \A u \in Users : conn[u] \in Nat
    BY <1>1 DEF IInv, TypeOK
  <1>3. idle \in Seq(Conns)
    BY DEF IInv, TypeOK
  <1>4. Len(idle) \in Nat /\ \A i \in 1..Len(idle) : idle[i] \in Conns
    BY <1>3
  <1> QED
    BY <1>1, <1>2, <1>4

\* A thread that is in a call has a connection that has been opened.
LEMMA Held ==
  ASSUME IInv, NEW u \in Users, InUse(u)
  PROVE  conn[u] \in Conns /\ conn[u] <= opened /\ conn[u] # NoConn
  BY DEF IInv, TypeOK, Placed, Fresh, NoConn, InUse

\* Vec::pop hands the connection from the stack to the thread.
LEMMA PopIInv ==
  ASSUME IInv, NEW u \in Users, Pop(u)
  PROVE  IInv'
  <1>1. idle \in Seq(Conns) /\ idle # <<>> /\ idle' = SubSeq(idle, 1, Len(idle) - 1)
    BY DEF IInv, TypeOK, Pop
  <1> DEFINE n == Len(idle)
             c == idle[n]
  <1>2. /\ idle' \in Seq(Conns) /\ Len(idle') = n - 1
        /\ \A i \in 1..Len(idle') : i \in 1..n /\ i # n /\ idle'[i] = idle[i]
        /\ n \in 1..n /\ c \in Conns
    <2>1. /\ idle' \in Seq(Conns) /\ Len(idle') = Len(idle) - 1
          /\ \A i \in 1..Len(idle') : idle'[i] = idle[i]
          /\ idle[Len(idle)] \in Conns
      BY <1>1, PopStack, Zenon
    <2>2. Len(idle) \in Nat \ {0}
      BY <1>1
    <2> QED
      BY <2>1, <2>2
  <1>3. n \in Nat /\ c # NoConn
    BY <1>1, <1>2 DEF Conns, NoConn
  <1>4. /\ conn' = [conn EXCEPT ![u] = c] /\ pc' = [pc EXCEPT ![u] = "ready"]
        /\ pc[u] = "out"
        /\ conn \in [Users -> Conns \cup {NoConn}]
        /\ pc \in [Users -> {"out", "connecting", "ready", "sent", "replied", "failed"}]
    BY DEF IInv, TypeOK, Pop, Goto
  <1>5. UNCHANGED <<opened, pipe, answered, alive, isOpen, asked, got, failed>>
    BY DEF Pop, wire
  <1> HIDE DEF n, c
  <1>6. TypeOK'
    <2>1. Len(idle') <= MaxIdle
      BY <1>2, <1>3, PoolAssumption DEF IInv, TypeOK, n
    <2>2. conn' \in [Users -> Conns \cup {NoConn}]
      BY <1>2, <1>4
    <2>3. pc' \in [Users -> {"out", "connecting", "ready", "sent", "replied", "failed"}]
      BY <1>4
    <2> QED
      BY <1>2, <1>5, <2>1, <2>2, <2>3 DEF IInv, TypeOK
  <1>7. Placed'
    <2>1. \A v \in Users : conn[v] # c
      BY <1>2 DEF IInv, Placed, n, c
    <2>2. \A i \in 1..Len(idle') : idle'[i] # c
      BY <1>2 DEF IInv, Placed, n, c
    <2>3. \A v \in Users : conn'[v] = (IF v = u THEN c ELSE conn[v])
                          /\ InUse(v)' = (v = u \/ InUse(v))
      BY <1>4 DEF InUse
    <2>4. Placed
      BY DEF IInv
    <2>5. /\ \A v \in Users : conn'[v] # NoConn <=> InUse(v)'
          /\ \A v, w \in Users : InUse(v)' /\ conn'[v] = conn'[w] => v = w
      BY <1>3, <2>1, <2>3, <2>4 DEF Placed
    <2>6. /\ \A v \in Users : \A i \in 1..Len(idle') : idle'[i] # conn'[v]
          /\ \A i, j \in 1..Len(idle') : idle'[i] = idle'[j] => i = j
      BY <1>2, <2>2, <2>3, <2>4 DEF Placed, n
    <2> QED
      BY <2>5, <2>6 DEF Placed
  <1>8. Fresh'
    BY <1>2, <1>4, <1>5 DEF IInv, Fresh, n, c
  <1>9. Clean'
    BY <1>2, <1>4, <1>5 DEF IInv, Clean, n, c
  <1>10. Answers' /\ OwnReply'
    BY <1>4, <1>5 DEF IInv, Answers, OwnReply
  <1>11. FailedIsGone'
    <2>1. FailedIsGone /\ DOMAIN idle = 1..n /\ DOMAIN idle' = 1..Len(idle')
      BY <1>1, <1>2 DEF IInv, n
    <2> QED
      BY <1>2, <1>4, <1>5, <2>1 DEF FailedIsGone, n, c
  <1> QED
    BY <1>6, <1>7, <1>8, <1>9, <1>10, <1>11 DEF IInv

PcType == pc \in [Users -> {"out", "connecting", "ready", "sent", "replied", "failed"}]

\* Finding no connection, and failing to open one, changes nothing that matters.
LEMMA NoneIInv ==
  ASSUME IInv, NEW u \in Users, PopNone(u) \/ ConnectFails(u)
  PROVE  IInv'
  <1>1. /\ UNCHANGED <<idle, opened, pipe, answered, alive, isOpen, conn, asked, got, failed>>
        /\ ~InUse(u)
        /\ pc' = [pc EXCEPT ![u] = "connecting"] \/ pc' = [pc EXCEPT ![u] = "out"]
    BY DEF PopNone, ConnectFails, Goto, wire, InUse
  <1>2. PcType
    BY DEF IInv, TypeOK, PcType
  <1>3. PcType' /\ \A v \in Users : pc'[v] = pc[v] \/ (v = u /\ pc'[v] \in {"connecting", "out"})
    BY <1>1, <1>2 DEF PcType
  <1>4. \A v \in Users : InUse(v)' = InUse(v)
    BY <1>1, <1>3 DEF InUse
  <1>5. TypeOK'
    BY <1>1, <1>3 DEF IInv, TypeOK, PcType
  <1>6. Placed' /\ Fresh' /\ Answers'
    BY <1>1, <1>4 DEF IInv, Placed, Fresh, Answers
  <1>7. Clean' /\ OwnReply'
    BY <1>1, <1>3 DEF IInv, Clean, OwnReply
  <1>8. FailedIsGone'
    BY <1>1, <1>3 DEF IInv, FailedIsGone, InUse
  <1> QED
    BY <1>5, <1>6, <1>7, <1>8 DEF IInv

\* A connection just opened is nobody else's, and nothing has been sent on it.
LEMMA ConnectIInv ==
  ASSUME IInv, NEW u \in Users, Connect(u)
  PROVE  IInv'
  <1> DEFINE c == opened + 1
  <1>1. c \in Conns /\ c # NoConn /\ opened' = c /\ c > opened
        /\ opened \in Nat /\ Conns \subseteq Nat
    BY PoolAssumption DEF IInv, TypeOK, Connect, Conns, NoConn
  <1>2. /\ conn' = [conn EXCEPT ![u] = c] /\ pc' = [pc EXCEPT ![u] = "ready"]
        /\ pc[u] = "connecting" /\ PcType
        /\ conn \in [Users -> Conns \cup {NoConn}]
    BY DEF IInv, TypeOK, Connect, Goto, PcType
  <1>3. UNCHANGED <<idle, pipe, answered, alive, isOpen, asked, got, failed>>
    BY DEF Connect, wire
  <1>4. \A v \in Users : conn'[v] = (IF v = u THEN c ELSE conn[v])
                        /\ pc'[v] = (IF v = u THEN "ready" ELSE pc[v])
                        /\ InUse(v)' = (v = u \/ InUse(v))
    BY <1>2 DEF InUse, PcType
  <1>5. (\A v \in Users : conn[v] < c /\ conn[v] # c)
        /\ (\A i \in 1..Len(idle) : idle[i] < c /\ idle[i] # c)
    <2>1. \A v \in Users : conn[v] \in Nat /\ conn[v] <= opened
      BY Numbers DEF IInv, Fresh
    <2>2. \A i \in 1..Len(idle) : idle[i] \in Nat /\ idle[i] <= opened
      BY Numbers DEF IInv, Fresh
    <2> QED
      BY <1>1, <2>1, <2>2
  <1> HIDE DEF c
  <1>6. TypeOK'
    <2>1. opened' \in 0..MaxConns
      BY <1>1 DEF Conns
    <2>2. conn' \in [Users -> Conns \cup {NoConn}]
      BY <1>1, <1>2
    <2>3. PcType'
      BY <1>2 DEF PcType
    <2> QED
      BY <1>3, <2>1, <2>2, <2>3 DEF IInv, TypeOK, PcType
  <1>7. Placed'
    BY <1>1, <1>3, <1>4, <1>5 DEF IInv, Placed
  <1>8. Fresh'
    <2>1. \A d \in Conns : d > c => d > opened
      BY <1>1
    <2>2. (\A v \in Users : conn'[v] <= c) /\ (\A i \in 1..Len(idle) : idle[i] <= c)
      <3>1. c \in Nat /\ (\A v \in Users : conn[v] \in Nat)
            /\ (\A i \in 1..Len(idle) : idle[i] \in Nat)
        BY <1>1, Numbers
      <3> QED
        BY <1>4, <1>5, <3>1
    <2> QED
      BY <1>1, <1>3, <2>1, <2>2 DEF IInv, Fresh
  <1>9. Clean'
    <2>1. pipe[c] = <<>>
      BY <1>1 DEF IInv, Fresh
    <2> QED
      BY <1>3, <1>4, <2>1 DEF IInv, Clean
  <1>10. Answers' /\ OwnReply'
    BY <1>3, <1>4 DEF IInv, Answers, OwnReply
  <1>11. FailedIsGone'
    <2>1. c \notin failed
      BY <1>1 DEF IInv, Fresh
    <2> QED
      BY <1>3, <1>4, <2>1 DEF IInv, FailedIsGone
  <1> QED
    BY <1>6, <1>7, <1>8, <1>9, <1>10, <1>11 DEF IInv

\* What a step within a call may do: the connection stays with its thread, and
\* only its own pipe changes.
LEMMA ExchangeIInv ==
  ASSUME IInv, NEW u \in Users, InUse(u), NEW place \in {"sent", "replied", "failed"},
         NEW line \in Seq(Command), NEW left \in Nat, left <= Len(line),
         UNCHANGED <<idle, opened, alive, conn>>, pc' = [pc EXCEPT ![u] = place],
         pipe' = [pipe EXCEPT ![conn[u]] = line],
         answered' = [answered EXCEPT ![conn[u]] = left],
         isOpen' \in [Conns -> BOOLEAN], asked' \in [Users -> Nat],
         got' \in [Users -> Command \cup {NoCommand}],
         \A v \in Users \ {u} : asked'[v] = asked[v] /\ got'[v] = got[v],
         failed' = failed \cup (IF place = "failed" THEN {conn[u]} ELSE {}),
         pc[u] # "failed",
         place = "sent" => line = <<<<u, asked'[u]>>>>,
         place = "replied" => line = <<>> /\ got'[u] = <<u, asked'[u]>>
  PROVE  IInv'
  <1> DEFINE c == conn[u]
  <1>1. c \in Conns /\ c <= opened /\ c # NoConn
    BY Held
  <1>2. PcType /\ PcType' /\ \A v \in Users : pc'[v] = IF v = u THEN place ELSE pc[v]
    BY DEF IInv, TypeOK, PcType
  <1>3. \A v \in Users : InUse(v)' = InUse(v)
    BY <1>2 DEF InUse
  <1>4. \A d \in Conns : pipe'[d] = (IF d = c THEN line ELSE pipe[d])
                        /\ answered'[d] = (IF d = c THEN left ELSE answered[d])
    BY DEF IInv, TypeOK
  <1>5. \A v \in Users : InUse(v) => conn[v] \in Conns /\ (v # u => conn[v] # c)
    BY Held DEF IInv, Placed
  <1>6. \A i \in 1..Len(idle) : idle[i] \in Conns /\ idle[i] # c
    BY Numbers DEF IInv, Placed
  <1> HIDE DEF c
  <1>7. TypeOK'
    <2>1. pipe' \in [Conns -> Seq(Command)] /\ answered' \in [Conns -> Nat]
      BY <1>1 DEF IInv, TypeOK
    <2>2. failed' \in SUBSET Conns
      BY <1>1 DEF IInv, TypeOK, c
    <2> QED
      BY <1>2, <2>1, <2>2 DEF IInv, TypeOK, PcType
  <1>8. Placed'
    BY <1>3 DEF IInv, Placed
  <1>9. Fresh'
    <2>1. \A d \in Conns : d > opened => d # c
      BY <1>1, Numbers
    <2>2. \A d \in Conns : d > opened => pipe'[d] = <<>> /\ d \notin failed'
      BY <1>4, <2>1 DEF IInv, Fresh, c
    <2> QED
      BY <2>2 DEF IInv, Fresh
  <1>10. Clean'
    <2>1. \A i \in 1..Len(idle) : pipe'[idle[i]] = <<>>
      BY <1>4, <1>6 DEF IInv, Clean
    <2>2. ASSUME NEW v \in Users, v # u
          PROVE  /\ pc'[v] \in {"ready", "replied"} => pipe'[conn[v]] = <<>>
                 /\ pc'[v] = "sent" => pipe'[conn[v]] = <<<<v, asked'[v]>>>>
      <3>1. pc'[v] = pc[v] /\ asked'[v] = asked[v]
        BY <1>2, <2>2
      <3>2. InUse(v) => pipe'[conn[v]] = pipe[conn[v]]
        BY <1>4, <1>5, <2>2
      <3>3. Clean /\ (pc[v] \in {"ready", "replied", "sent"} => InUse(v))
        BY DEF IInv, InUse
      <3> QED
        BY <3>1, <3>2, <3>3 DEF Clean
    <2>3. /\ place = "replied" => pipe'[conn[u]] = <<>>
          /\ place = "sent" => pipe'[conn[u]] = <<<<u, asked'[u]>>>>
      BY <1>1, <1>4 DEF c
    <2> QED
      BY <1>2, <2>1, <2>2, <2>3 DEF Clean
  <1>11. Answers'
    BY <1>4 DEF IInv, Answers
  <1>12. OwnReply'
    BY <1>2 DEF IInv, OwnReply
  <1>13. FailedIsGone'
    <2>1. Len(idle) \in Nat /\ DOMAIN idle = 1..Len(idle)
      BY DEF IInv, TypeOK
    <2>2. \A d \in failed : d # c
      BY DEF IInv, FailedIsGone, c
    <2>3. ASSUME NEW d \in failed'
          PROVE  /\ \A i \in DOMAIN idle : idle[i] # d
                 /\ \A v \in Users : conn[v] = d => pc'[v] = "failed"
      <3>1. CASE d \in failed
        BY <1>2, <2>2, <3>1 DEF IInv, FailedIsGone, c
      <3>2. CASE d = c /\ place = "failed"
        <4>1. \A v \in Users : conn[v] = c => v = u
          BY <1>1, <1>5 DEF IInv, Placed, c
        <4> QED
          BY <1>2, <1>6, <2>1, <3>2, <4>1
      <3> QED
        BY <2>3, <3>1, <3>2 DEF c
    <2> QED
      BY <2>3 DEF FailedIsGone
  <1> QED
    BY <1>7, <1>8, <1>9, <1>10, <1>11, <1>12, <1>13 DEF IInv

\* Sending, reading and failing are such steps.
LEMMA CallIInv ==
  ASSUME IInv, NEW u \in Users, Send(u) \/ Read(u) \/ ReadError(u) \/ IoFails(u)
  PROVE  IInv'
  <1> DEFINE c == conn[u]
  <1>1. InUse(u) /\ pc[u] # "failed"
    BY DEF Send, Read, ReadError, IoFails, TakeReply, InUse
  <1>2. c \in Conns
    BY <1>1, Held
  <1>3. /\ pipe \in [Conns -> Seq(Command)] /\ answered \in [Conns -> Nat]
        /\ isOpen \in [Conns -> BOOLEAN] /\ alive \in [Conns -> BOOLEAN]
        /\ asked \in [Users -> Nat] /\ got \in [Users -> Command \cup {NoCommand}]
        /\ answered[c] \in Nat /\ answered[c] <= Len(pipe[c])
        /\ PcType
    BY <1>2 DEF IInv, TypeOK, Answers, PcType
  <1>4. CASE Send(u)
    <2> DEFINE line == <<<<u, asked[u] + 1>>>>
    <2>1. pipe[c] = <<>>
      BY <1>4 DEF Send, IInv, Clean
    <2>2. Append(pipe[c], <<u, asked[u] + 1>>) = line /\ line \in Seq(Command) /\ Len(line) = 1
      BY <1>3, <2>1 DEF Command
    <2>3. pipe' = [pipe EXCEPT ![conn[u]] = line]
      BY <1>2, <1>3, <1>4, <2>2 DEF Send
    <2>4. answered' = [answered EXCEPT ![conn[u]] = answered[c]] /\ answered[c] <= Len(line)
      <3>1. answered[c] = 0
        BY <1>3, <2>1
      <3> QED
        BY <1>2, <1>3, <1>4, <2>2, <3>1 DEF Send
    <2>5. /\ UNCHANGED <<idle, opened, alive, conn, isOpen, got, failed>>
          /\ pc' = [pc EXCEPT ![u] = "sent"]
          /\ asked' = [asked EXCEPT ![u] = asked[u] + 1]
      BY <1>4 DEF Send, Goto
    <2>6. /\ asked' \in [Users -> Nat] /\ asked'[u] = asked[u] + 1
          /\ \A v \in Users \ {u} : asked'[v] = asked[v] /\ got'[v] = got[v]
      BY <1>3, <2>5
    <2> HIDE DEF line
    <2>7. line = <<<<u, asked'[u]>>>>
      BY <2>6 DEF line
    <2> QED
      BY <1>1, <1>3, <2>2, <2>3, <2>4, <2>5, <2>6, <2>7, ExchangeIInv
  <1>5. CASE Read(u) \/ ReadError(u)
    <2>1. pc[u] = "sent" /\ pipe[c] = <<<<u, asked[u]>>>> /\ answered[c] > 0
      BY <1>5 DEF Read, ReadError, TakeReply, IInv, Clean
    <2>2. Head(pipe[c]) = <<u, asked[u]>> /\ Tail(pipe[c]) = <<>> /\ Len(pipe[c]) = 1
      BY <2>1
    <2>3. /\ pipe' = [pipe EXCEPT ![conn[u]] = <<>>]
          /\ answered' = [answered EXCEPT ![conn[u]] = 0]
          /\ got' = [got EXCEPT ![u] = <<u, asked[u]>>]
      <3>1. answered[c] - 1 = 0
        BY <1>3, <2>1, <2>2
      <3> QED
        BY <1>2, <1>3, <1>5, <2>2, <3>1 DEF Read, ReadError, TakeReply
    <2>4. UNCHANGED <<idle, opened, alive, conn, isOpen, asked>>
      BY <1>5 DEF Read, ReadError
    <2>5. /\ got' \in [Users -> Command \cup {NoCommand}] /\ got'[u] = <<u, asked[u]>>
          /\ \A v \in Users \ {u} : asked'[v] = asked[v] /\ got'[v] = got[v]
      BY <1>3, <2>3, <2>4 DEF Command
    <2>6. <<>> \in Seq(Command) /\ 0 \in Nat /\ 0 <= Len(<<>>)
      OBVIOUS
    <2>7. CASE Read(u)
      <3>1. pc' = [pc EXCEPT ![u] = "replied"] /\ UNCHANGED failed
        BY <2>7 DEF Read, Goto
      <3> QED
        BY <1>1, <1>3, <2>3, <2>4, <2>5, <2>6, <3>1, ExchangeIInv
    <2>8. CASE ReadError(u)
      <3>1. pc' = [pc EXCEPT ![u] = "failed"] /\ failed' = failed \cup {conn[u]}
        BY <2>8 DEF ReadError, Goto
      <3> QED
        BY <1>1, <1>3, <2>3, <2>4, <2>5, <2>6, <3>1, ExchangeIInv
    <2> QED
      BY <1>5, <2>7, <2>8
  <1>6. CASE IoFails(u)
    <2>1. /\ UNCHANGED <<idle, opened, alive, conn, pipe, answered, asked, got>>
          /\ pc' = [pc EXCEPT ![u] = "failed"] /\ failed' = failed \cup {conn[u]}
          /\ isOpen' = [isOpen EXCEPT ![conn[u]] = alive[conn[u]]]
      BY <1>6 DEF IoFails, Goto, wire
    <2>2. /\ pipe' = [pipe EXCEPT ![conn[u]] = pipe[c]] /\ pipe[c] \in Seq(Command)
          /\ answered' = [answered EXCEPT ![conn[u]] = answered[c]]
          /\ isOpen' \in [Conns -> BOOLEAN]
      BY <1>2, <1>3, <2>1
    <2> QED
      BY <1>1, <1>3, <2>1, <2>2, ExchangeIInv
  <1> QED
    BY <1>4, <1>5, <1>6

\* The end of a call leaves the thread without a connection; the connection may
\* go to the stack.
LEMMA LeaveIInv ==
  ASSUME IInv, NEW u \in Users, InUse(u),
         UNCHANGED <<opened, pipe, answered, alive, isOpen, asked, got, failed>>,
         pc' = [pc EXCEPT ![u] = "out"], conn' = [conn EXCEPT ![u] = NoConn],
         \/ idle' = idle
         \/ /\ idle' = Append(idle, conn[u]) /\ Len(idle) < MaxIdle
            /\ pc[u] \in {"ready", "replied"}
  PROVE  IInv'
  <1> DEFINE c == conn[u]
             kept == idle' # idle
  <1>1. c \in Conns /\ c <= opened /\ c # NoConn
    BY Held
  <1>2. /\ \A v \in Users : conn'[v] = IF v = u THEN NoConn ELSE conn[v]
        /\ \A v \in Users : pc'[v] = IF v = u THEN "out" ELSE pc[v]
        /\ \A v \in Users : InUse(v)' = (v # u /\ InUse(v))
    BY DEF IInv, TypeOK, InUse
  <1>3. idle \in Seq(Conns) /\ Len(idle) \in Nat /\ Len(idle) <= MaxIdle
    BY DEF IInv, TypeOK
  <1>4. /\ idle' \in Seq(Conns) /\ Len(idle') <= MaxIdle
        /\ Len(idle') \in Nat
        /\ \A i \in 1..Len(idle') :
             \/ i \in 1..Len(idle) /\ idle'[i] = idle[i]
             \/ kept /\ i = Len(idle) + 1 /\ idle'[i] = c
    <2>1. CASE idle' = idle
      BY <1>3, <2>1
    <2>2. CASE idle' # idle
      <3>1. idle' = Append(idle, c) /\ Len(idle) < MaxIdle
        BY <2>2
      <3>2. /\ idle' \in Seq(Conns) /\ Len(idle') = Len(idle) + 1
            /\ \A i \in 1..Len(idle') : idle'[i] = IF i = Len(idle) + 1 THEN c ELSE idle[i]
        BY <1>1, <1>3, <3>1, PushStack, Zenon
      <3> QED
        BY <1>3, <2>2, <3>1, <3>2, PoolAssumption
    <2> QED
      BY <2>1, <2>2
  <1>5. kept => pc[u] \in {"ready", "replied"}
    OBVIOUS
  <1>6. \A i \in 1..Len(idle) : idle[i] # c /\ idle[i] \in Conns
    BY Numbers DEF IInv, Placed
  <1> HIDE DEF c, kept
  <1>7. TypeOK'
    <2>1. PcType' /\ conn' \in [Users -> Conns \cup {NoConn}]
      BY DEF IInv, TypeOK, PcType
    <2> QED
      BY <1>4, <2>1 DEF IInv, TypeOK, PcType
  <1>8. Placed'
    <2>1. Placed
      BY DEF IInv
    <2>2. \A v \in Users \ {u} : InUse(v) => conn[v] # c
      BY <2>1 DEF Placed, c
    <2>3. /\ \A v \in Users : conn'[v] # NoConn <=> InUse(v)'
          /\ \A v, w \in Users : InUse(v)' /\ conn'[v] = conn'[w] => v = w
      <3>1. ASSUME NEW v \in Users PROVE conn'[v] # NoConn <=> InUse(v)'
        <4>1. CASE v = u
          BY <1>2, <4>1
        <4>2. CASE v # u
          <5>1. conn'[v] = conn[v] /\ (InUse(v)' <=> InUse(v))
            BY <1>2, <4>2
          <5>2. conn[v] # NoConn <=> InUse(v)
            BY <2>1 DEF Placed
          <5> QED
            BY <5>1, <5>2
        <4> QED
          BY <4>1, <4>2
      <3>2. ASSUME NEW v \in Users, NEW w \in Users, InUse(v)', conn'[v] = conn'[w]
            PROVE  v = w
        <4>1. v # u /\ InUse(v) /\ conn'[v] # NoConn /\ conn'[v] = conn[v]
          BY <1>2, <3>1, <3>2
        <4>2. w # u /\ conn'[w] = conn[w]
          BY <1>2, <3>2, <4>1
        <4> QED
          BY <2>1, <3>2, <4>1, <4>2 DEF Placed
      <3> QED
        BY <3>1, <3>2
    <2>4. ASSUME NEW v \in Users, NEW i \in 1..Len(idle') PROVE idle'[i] # conn'[v]
      <3>1. CASE i \in 1..Len(idle) /\ idle'[i] = idle[i]
        <4>1. idle[i] \in Conns /\ NoConn \notin Conns
          BY <1>6, <3>1 DEF Conns, NoConn
        <4>2. \A w \in Users : idle[i] # conn[w]
          BY <2>1, <3>1 DEF Placed
        <4>3. conn'[v] = NoConn \/ conn'[v] = conn[v]
          BY <1>2
        <4> QED
          BY <3>1, <4>1, <4>2, <4>3
      <3>2. CASE idle'[i] = c
        <4>1. CASE v = u
          BY <1>1, <1>2, <3>2, <4>1
        <4>2. CASE v # u
          BY <1>1, <1>2, <2>1, <2>2, <3>2, <4>2 DEF Placed
        <4> QED
          BY <4>1, <4>2
      <3> QED
        BY <1>4, <3>1, <3>2
    <2>5. \A i, j \in 1..Len(idle') : idle'[i] = idle'[j] => i = j
      BY <1>4, <1>6, <2>1 DEF Placed
    <2> QED
      BY <2>3, <2>4, <2>5 DEF Placed
  <1>9. Fresh'
    <2>1. \A v \in Users : conn'[v] <= opened
      BY <1>2, Numbers DEF IInv, Fresh, NoConn
    <2>2. \A i \in 1..Len(idle') : idle'[i] <= opened
      BY <1>1, <1>4 DEF IInv, Fresh
    <2> QED
      BY <2>1, <2>2 DEF IInv, Fresh
  <1>10. Clean'
    <2>1. kept => pipe[c] = <<>>
      BY <1>5 DEF IInv, Clean, c
    <2>2. Clean
      BY DEF IInv
    <2>3. \A i \in 1..Len(idle') : pipe[idle'[i]] = <<>>
      BY <1>4, <2>1, <2>2 DEF Clean
    <2>4. \A v \in Users \ {u} : conn'[v] = conn[v] /\ pc'[v] = pc[v]
      BY <1>2
    <2>5. pc'[u] = "out"
      BY <1>2
    <2> QED
      BY <2>2, <2>3, <2>4, <2>5 DEF Clean
  <1>11. Answers' /\ OwnReply'
    BY <1>2 DEF IInv, Answers, OwnReply
  <1>12. FailedIsGone'
    <2>1. FailedIsGone /\ DOMAIN idle = 1..Len(idle) /\ DOMAIN idle' = 1..Len(idle')
      BY <1>3, <1>4 DEF IInv
    <2>2. kept => c \notin failed
      BY <1>5, <2>1 DEF FailedIsGone, c
    <2>3. NoConn \notin failed
      BY DEF IInv, TypeOK, Conns, NoConn
    <2>4. ASSUME NEW d \in failed, NEW i \in DOMAIN idle' PROVE idle'[i] # d
      BY <1>4, <2>1, <2>2 DEF FailedIsGone
    <2>5. ASSUME NEW d \in failed, NEW v \in Users, conn'[v] = d PROVE pc'[v] = "failed"
      BY <1>2, <2>1, <2>3, <2>5 DEF FailedIsGone
    <2> QED
      BY <2>4, <2>5 DEF FailedIsGone
  <1> QED
    BY <1>7, <1>8, <1>9, <1>10, <1>11, <1>12 DEF IInv

\* Returning a connection, and dropping one after an error.
LEMMA EndIInv ==
  ASSUME IInv, NEW u \in Users, Finish(u) \/ ReturnUnused(u) \/ Discard(u)
  PROVE  IInv'
  <1>1. InUse(u)
    BY DEF Finish, ReturnUnused, Discard, InUse
  <1>2. /\ UNCHANGED <<opened, pipe, answered, alive, isOpen, asked, got, failed>>
        /\ pc' = [pc EXCEPT ![u] = "out"] /\ conn' = [conn EXCEPT ![u] = NoConn]
    BY DEF Finish, ReturnUnused, Discard, Checkin, Goto, wire
  <1>3. \/ idle' = idle
        \/ /\ idle' = Append(idle, conn[u]) /\ Len(idle) < MaxIdle
           /\ pc[u] \in {"ready", "replied"}
    BY DEF Finish, ReturnUnused, Discard, Checkin
  <1> QED
    BY <1>1, <1>2, <1>3, LeaveIInv

\* The server answers in order, and may go away.
LEMMA ServerIInv ==
  ASSUME IInv, NEW c \in Conns, Answer(c) \/ ServerCloses(c)
  PROVE  IInv'
  <1>1. UNCHANGED <<idle, opened, pipe, isOpen, pc, conn, asked, got, failed>>
    BY DEF Answer, ServerCloses
  <1>2. pipe[c] \in Seq(Command) /\ Len(pipe[c]) \in Nat
    BY DEF IInv, TypeOK
  <1>3. TypeOK'
    <2>1. answered \in [Conns -> Nat] /\ alive \in [Conns -> BOOLEAN]
      BY DEF IInv, TypeOK
    <2>2. CASE Answer(c)
      <3>1. answered' = [answered EXCEPT ![c] = answered[c] + 1] /\ alive' = alive
        BY <2>2 DEF Answer
      <3>2. answered' \in [Conns -> Nat]
        BY <2>1, <3>1
      <3> QED
        BY <1>1, <3>1, <3>2 DEF IInv, TypeOK
    <2>3. CASE ServerCloses(c)
      <3>1. answered' = answered /\ alive' = [alive EXCEPT ![c] = FALSE]
        BY <2>3 DEF ServerCloses
      <3>2. alive' \in [Conns -> BOOLEAN]
        BY <2>1, <3>1
      <3> QED
        BY <1>1, <3>1, <3>2 DEF IInv, TypeOK
    <2> QED
      BY <2>2, <2>3
  <1>4. Answers'
    <2>1. CASE Answer(c)
      <3>1. answered' = [answered EXCEPT ![c] = answered[c] + 1]
            /\ answered[c] \in Nat /\ answered[c] < Len(pipe[c])
        BY <2>1 DEF Answer, IInv, TypeOK
      <3>2. answered[c] + 1 <= Len(pipe[c])
        BY <1>2, <3>1
      <3>3. answered \in [Conns -> Nat]
        BY DEF IInv, TypeOK
      <3> QED
        BY <1>1, <3>1, <3>2, <3>3 DEF IInv, Answers
    <2>2. CASE ServerCloses(c)
      BY <2>2 DEF ServerCloses, IInv, Answers
    <2> QED
      BY <2>1, <2>2
  <1>5. Placed' /\ Fresh' /\ Clean' /\ OwnReply' /\ FailedIsGone'
    BY <1>1 DEF IInv, Placed, Fresh, Clean, OwnReply, FailedIsGone, InUse
  <1> QED
    BY <1>3, <1>4, <1>5 DEF IInv

\* Every step of the specification, and every step that is none of it.
LEMMA NextIInv == IInv /\ [Next]_vars => IInv'
  <1> SUFFICES ASSUME IInv, [Next]_vars PROVE IInv'
    OBVIOUS
  <1>1. ASSUME NEW u \in Users, UserStep(u) PROVE IInv'
    <2>1. CASE Pop(u)
      BY <2>1, PopIInv
    <2>2. CASE PopNone(u) \/ ConnectFails(u)
      BY <2>2, NoneIInv
    <2>3. CASE Connect(u)
      BY <2>3, ConnectIInv
    <2>4. CASE Send(u) \/ Read(u) \/ ReadError(u) \/ IoFails(u)
      BY <2>4, CallIInv
    <2>5. CASE Finish(u) \/ ReturnUnused(u) \/ Discard(u)
      BY <2>5, EndIInv
    <2> QED
      BY <1>1, <2>1, <2>2, <2>3, <2>4, <2>5 DEF UserStep
  <1>2. ASSUME NEW c \in Conns, Answer(c) \/ ServerCloses(c) PROVE IInv'
    BY <1>2, ServerIInv
  <1>3. CASE UNCHANGED vars
    BY <1>3 DEF vars, IInv, TypeOK, Placed, Fresh, Clean, Answers, OwnReply,
       FailedIsGone, InUse
  <1> QED
    BY <1>1, <1>2, <1>3 DEF Next
-------------------------------------------------------------------------------
\* The inductive invariant holds in every state of every behaviour of the pool.
THEOREM Inductive == Spec => []IInv
  BY InitIInv, NextIInv, PTL DEF Spec

\* The pool keeps its types, and never more idle connections than its limit
\* (pool.rs:162), for any number of threads.
THEOREM TypeCorrect == Spec => []TypeOK
  <1>1. IInv => TypeOK
    BY DEF IInv
  <1> QED
    BY <1>1, Inductive, PTL

\* A thread's reply is the reply to its own command (pool.rs:180-187), however
\* many threads share the pool and whatever failed before.
THEOREM OwnReplySafe == Spec => []OwnReply
  <1>1. IInv => OwnReply
    BY DEF IInv
  <1> QED
    BY <1>1, Inductive, PTL

\* A connection on which a call has failed serves no other call (pool.rs:92).
THEOREM FailedIsGoneSafe == Spec => []FailedIsGone
  <1>1. IInv => FailedIsGone
    BY DEF IInv
  <1> QED
    BY <1>1, Inductive, PTL
===============================================================================
