----------------------------- MODULE ConnectionPool -----------------------------
(***************************************************************************)
(* The pool of the std::thread manager (src/src/sync_lock/pool.rs).        *)
(* Threads check a connection out, exchange commands and replies on it,    *)
(* and return or drop it.  A connection carries replies in the order of    *)
(* its commands, and a thread that reads takes the first one, whoever sent *)
(* that command.  The server may close a connection at any time.           *)
(***************************************************************************)
EXTENDS Naturals, Sequences

CONSTANTS
  Users,        \* threads: acquisitions, renewals, releases
  MaxIdle,      \* max_idle_connections
  MaxConns,     \* bound: connections opened
  MaxCommands   \* bound: commands of one thread

ASSUME PoolAssumption == MaxIdle \in Nat /\ MaxConns \in Nat /\ MaxCommands \in Nat

VARIABLES
  idle,      \* the connections kept for reuse, a stack
  opened,    \* connections opened so far
  pipe,      \* commands sent on a connection whose replies have not been read
  answered,  \* how many of those replies have arrived
  alive,     \* the server has not closed the connection
  isOpen,    \* the client has not noticed otherwise
  pc,        \* where a thread stands in a call
  conn,      \* the connection it has checked out, 0 for none
  asked,     \* the number of commands it has sent
  got,       \* the command that its last reply answers
  failed     \* history: connections on which a call has failed

vars == <<idle, opened, pipe, answered, alive, isOpen, pc, conn, asked, got, failed>>
wire == <<pipe, answered, alive>>

Conns == 1..MaxConns
NoConn == 0
Command == Users \X Nat
NoCommand == <<>>

Init ==
  /\ idle = <<>>
  /\ opened = 0
  /\ pipe = [c \in Conns |-> <<>>]
  /\ answered = [c \in Conns |-> 0]
  /\ alive = [c \in Conns |-> TRUE]
  /\ isOpen = [c \in Conns |-> TRUE]
  /\ pc = [u \in Users |-> "out"]
  /\ conn = [u \in Users |-> NoConn]
  /\ asked = [u \in Users |-> 0]
  /\ got = [u \in Users |-> NoCommand]
  /\ failed = {}

Goto(u, place) == pc' = [pc EXCEPT ![u] = place]
-------------------------------------------------------------------------------
(* checkout *)

Pop(u) ==
  /\ pc[u] = "out"
  /\ idle # <<>>
  /\ Goto(u, "ready")
  /\ conn' = [conn EXCEPT ![u] = idle[Len(idle)]]
  /\ idle' = SubSeq(idle, 1, Len(idle) - 1)
  /\ UNCHANGED <<opened, wire, isOpen, asked, got, failed>>

\* The mutex is released before the connection is opened: another thread may
\* return one meanwhile.
PopNone(u) ==
  /\ pc[u] = "out"
  /\ idle = <<>>
  /\ Goto(u, "connecting")
  /\ UNCHANGED <<idle, opened, wire, isOpen, conn, asked, got, failed>>

Connect(u) ==
  /\ pc[u] = "connecting"
  /\ opened < MaxConns
  /\ opened' = opened + 1
  /\ conn' = [conn EXCEPT ![u] = opened + 1]
  /\ Goto(u, "ready")
  /\ UNCHANGED <<idle, wire, isOpen, asked, got, failed>>

\* The server is unreachable, or a timeout cannot be set.
ConnectFails(u) ==
  /\ pc[u] = "connecting"
  /\ Goto(u, "out")
  /\ UNCHANGED <<idle, opened, wire, isOpen, conn, asked, got, failed>>
-------------------------------------------------------------------------------
(* The function that run calls: one command, or several where Redis does not *)
(* know the script.                                                           *)

Send(u) ==
  /\ pc[u] \in {"ready", "replied"}
  /\ asked[u] < MaxCommands
  /\ asked' = [asked EXCEPT ![u] = @ + 1]
  /\ pipe' = [pipe EXCEPT ![conn[u]] = Append(@, <<u, asked[u] + 1>>)]
  /\ Goto(u, "sent")
  /\ UNCHANGED <<idle, opened, answered, alive, isOpen, conn, got, failed>>

Answer(c) ==
  /\ alive[c]
  /\ answered[c] < Len(pipe[c])
  /\ answered' = [answered EXCEPT ![c] = @ + 1]
  /\ UNCHANGED <<idle, opened, pipe, alive, isOpen, pc, conn, asked, got, failed>>

ServerCloses(c) ==
  /\ alive[c]
  /\ c <= opened
  /\ alive' = [alive EXCEPT ![c] = FALSE]
  /\ UNCHANGED <<idle, opened, pipe, answered, isOpen, pc, conn, asked, got, failed>>

TakeReply(u) ==
  /\ pc[u] = "sent"
  /\ answered[conn[u]] > 0
  /\ got' = [got EXCEPT ![u] = Head(pipe[conn[u]])]
  /\ pipe' = [pipe EXCEPT ![conn[u]] = Tail(@)]
  /\ answered' = [answered EXCEPT ![conn[u]] = @ - 1]

Read(u) ==
  /\ TakeReply(u)
  /\ Goto(u, "replied")
  /\ UNCHANGED <<idle, opened, alive, isOpen, conn, asked, failed>>

\* Mistake: an error that Redis replies leaves the connection in use.
ReadErrorKept(u) ==
  /\ TakeReply(u)
  /\ Goto(u, "replied")
  /\ failed' = failed \cup {conn[u]}
  /\ UNCHANGED <<idle, opened, alive, isOpen, conn, asked>>

ReadError(u) ==
  /\ TakeReply(u)
  /\ Goto(u, "failed")
  /\ failed' = failed \cup {conn[u]}
  /\ UNCHANGED <<idle, opened, alive, isOpen, conn, asked>>

\* A timeout, which leaves the reply on its way, or a connection found closed.
IoFails(u) ==
  /\ pc[u] = "sent"
  /\ Goto(u, "failed")
  /\ failed' = failed \cup {conn[u]}
  /\ isOpen' = [isOpen EXCEPT ![conn[u]] = alive[conn[u]]]
  /\ UNCHANGED <<idle, opened, wire, conn, asked, got>>
-------------------------------------------------------------------------------
(* The end of a call *)

\* A connection known to be closed, or one too many, is dropped.
Checkin(u) ==
  /\ Goto(u, "out")
  /\ conn' = [conn EXCEPT ![u] = NoConn]
  /\ idle' = IF isOpen[conn[u]] /\ Len(idle) < MaxIdle THEN Append(idle, conn[u]) ELSE idle
  /\ UNCHANGED <<opened, wire, isOpen, asked, got, failed>>

Finish(u) == pc[u] = "replied" /\ Checkin(u)

\* with_client only wants to know that the server can be reached.
ReturnUnused(u) == pc[u] = "ready" /\ Checkin(u)

\* Mistake: is_open is trusted to tell which connection is usable.
DiscardIfClosed(u) == pc[u] = "failed" /\ Checkin(u)

\* After any error run takes the connection out of the PooledConnection, so
\* that its drop has nothing to return.
Discard(u) ==
  /\ pc[u] = "failed"
  /\ Goto(u, "out")
  /\ conn' = [conn EXCEPT ![u] = NoConn]
  /\ UNCHANGED <<idle, opened, wire, isOpen, asked, got, failed>>
-------------------------------------------------------------------------------
UserStep(u) ==
  \/ Pop(u) \/ PopNone(u) \/ Connect(u) \/ ConnectFails(u)
  \/ Send(u) \/ Read(u) \/ ReadError(u) \/ IoFails(u)
  \/ Finish(u) \/ ReturnUnused(u) \/ Discard(u)

Next ==
  \/ \E u \in Users : UserStep(u)
  \/ \E c \in Conns : Answer(c) \/ ServerCloses(c)

Spec == Init /\ [][Next]_vars
-------------------------------------------------------------------------------
(* Correctness *)

\* Types, and the limit on idle connections (pool.rs:162).
TypeOK ==
  /\ idle \in Seq(Conns) /\ Len(idle) <= MaxIdle
  /\ opened \in 0..MaxConns
  /\ pipe \in [Conns -> Seq(Command)]
  /\ answered \in [Conns -> Nat]
  /\ alive \in [Conns -> BOOLEAN]
  /\ isOpen \in [Conns -> BOOLEAN]
  /\ pc \in [Users -> {"out", "connecting", "ready", "sent", "replied", "failed"}]
  /\ conn \in [Users -> Conns \cup {NoConn}]
  /\ asked \in [Users -> Nat]
  /\ got \in [Users -> Command \cup {NoCommand}]
  /\ failed \in SUBSET Conns

\* A thread never takes the reply to another command for its own, although the
\* connection may have served others, and timeouts left replies behind: "the
\* lock is acquired" is an answer to this acquisition (pool.rs:180-187).
OwnReply == \A u \in Users : pc[u] = "replied" => got[u] = <<u, asked[u]>>

\* A stale connection costs one failed call (pool.rs:92): once a call has failed
\* on it, no other call gets it.
FailedIsGone ==
  \A c \in failed :
    /\ \A i \in DOMAIN idle : idle[i] # c
    /\ \A u \in Users : conn[u] = c => pc[u] = "failed"
===============================================================================
