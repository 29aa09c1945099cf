------------------------------- MODULE Sqlite -------------------------------
(***************************************************************************)
(* The lock on a database file as sqlite3 keeps it with a rollback journal *)
(* when every function opens a connection of its own and none sets a busy  *)
(* handler: a statement that cannot have its lock fails at once.  locks is *)
(* a function from the threads to what each one's connection holds.        *)
(***************************************************************************)
Locks == {"none", "shared", "reserved", "pending"}

Others(locks, t, held) == \E u \in DOMAIN locks \ {t} : locks[u] \in held

\* A statement that reads, to its first row.
CanRead(locks, t) == ~Others(locks, t, {"pending"})

\* A statement that writes, within a transaction.
CanReserve(locks, t) == ~Others(locks, t, {"reserved", "pending"})

\* COMMIT; when refused, the connection keeps new readers out until it is closed.
CanCommit(locks, t) == ~Others(locks, t, {"shared"})

\* A statement that writes, outside of a transaction.
CanWrite(locks, t) == CanReserve(locks, t) /\ CanCommit(locks, t)

With(locks, t, held) == [locks EXCEPT ![t] = held]
=============================================================================
