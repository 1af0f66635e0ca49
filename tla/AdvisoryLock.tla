----------------------------- MODULE AdvisoryLock -----------------------------
(***************************************************************************)
(* A PostgreSQL advisory lock taken through SQLAlchemy sessions            *)
(* (backend/app/db/session.py).  The lock belongs to a connection, which   *)
(* may take it again and must then release it as often.  A session has a   *)
(* connection only inside a transaction: a commit or a close gives it back *)
(* to the pool of the process, with the lock if it holds one (the pool's   *)
(* reset is a rollback), and the next statement takes an idle one.         *)
(***************************************************************************)
EXTENDS Naturals

CONSTANTS
  Sessions,      \* sessions that use the lock, each of one unit of work
  Conns,         \* connections to the database
  PoolOf,        \* PoolOf[s]: the connections of the process of session s
  NoConn         \* not a connection

VARIABLES
  lock,          \* the connection that holds the lock, and how often
  at             \* the connection that each session has checked out

Unheld == [conn |-> NoConn, depth |-> 0]

LockTypeOK ==
  /\ lock = Unheld \/ lock \in [conn : Conns, depth : Nat \ {0}]
  /\ at \in [Sessions -> Conns \union {NoConn}]

LockInit == lock = Unheld /\ at = [s \in Sessions |-> NoConn]

\* The connections a session may get for its next transaction.
IdleConns(s) == PoolOf[s] \ {at[x] : x \in Sessions}

CheckOut(s, c) == at' = [at EXCEPT ![s] = c]
GiveBack(s) == at' = [at EXCEPT ![s] = NoConn]

\* pg_try_advisory_lock on connection c: true when the lock is free or c's own.
MayLock(c) == lock.depth = 0 \/ lock.conn = c
Lock(c) == lock' = [conn |-> c, depth |-> lock.depth + 1]

\* pg_advisory_unlock on connection c: a connection without the lock gets a warning.
Unlock(c) ==
  lock' = IF lock.conn # c THEN lock
          ELSE IF lock.depth = 1 THEN Unheld ELSE [lock EXCEPT !.depth = @ - 1]

\* The server closes connections: what they held is released.
CloseConns(gone) == lock' = IF lock.conn \in gone THEN Unheld ELSE lock

\* The connection that holds the lock lies idle in its pool and is dropped.  No session
\* learns of it: pool_pre_ping replaces it, here under its name, when it is next used.
DropIdle(c) ==
  /\ lock.conn = c
  /\ c \notin {at[s] : s \in Sessions}
  /\ CloseConns({c})
===============================================================================
