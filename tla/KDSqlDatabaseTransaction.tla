---------------------- MODULE KDSqlDatabaseTransaction ----------------------
(***************************************************************************)
(* KDToolBox's KDSqlDatabaseTransaction: an object that begins a           *)
(* transaction of a database connection and rolls it back when it goes,    *)
(* unless it has been committed.  The duty can be moved and swapped.       *)
(*                                                                         *)
(* A connection runs one transaction at a time: its driver refuses to      *)
(* begin another one meanwhile.                                            *)
(***************************************************************************)
EXTENDS Integers, FiniteSets

CONSTANTS
  Connections, \* the database connections
  Usable,      \* those that are open and whose driver has transactions
  Holders,     \* the variables that hold a KDSqlDatabaseTransaction
  NoDatabase   \* that of a variable that holds none, or has been moved from

ASSUME TransactionAssumption ==
  Usable \subseteq Connections /\ NoDatabase \notin Connections /\ IsFiniteSet(Holders)

VARIABLES
  db,            \* m_db of each object
  shouldRollback,\* the objects whose m_shouldRollback is set
  running,       \* the connections that have a transaction
  lost           \* history: those whose transaction could not be rolled back

transactionVars == <<db, shouldRollback, running, lost>>

TransactionInit ==
  /\ db = [o \in Holders |-> NoDatabase] /\ shouldRollback = {} /\ running = {} /\ lost = {}

\* QSqlDatabase::rollback(), which may fail.
RollbackOf(d) ==
  \/ running' = running \ {d} /\ UNCHANGED lost
  \/ UNCHANGED running /\ lost' = lost \cup (running \cap {d})

\* The constructor.
BeginTransaction(o, d) ==
  /\ db[o] = NoDatabase
  /\ db' = [db EXCEPT ![o] = d]
  /\ \/ /\ d \in Usable \ running
        /\ running' = running \cup {d} /\ shouldRollback' = shouldRollback \cup {o}
     \/ UNCHANGED <<running, shouldRollback>>
  /\ UNCHANGED lost

\* The destructor.
DestroyTransaction(o) ==
  /\ db' = [db EXCEPT ![o] = NoDatabase] /\ shouldRollback' = shouldRollback \ {o}
  /\ IF o \in shouldRollback THEN RollbackOf(db[o]) ELSE UNCHANGED <<running, lost>>

Passed(o, p) == (shouldRollback \ {o, p}) \cup (IF o \in shouldRollback THEN {p} ELSE {})

\* Mistake: the move leaves the duty with the object that is moved from, too.
KeepDuty(o, p) ==
  /\ o # p /\ db[p] = NoDatabase /\ db[o] # NoDatabase
  /\ db' = [db EXCEPT ![p] = db[o]]
  /\ shouldRollback' = Passed(o, p) \cup (IF o \in shouldRollback THEN {o} ELSE {})
  /\ UNCHANGED <<running, lost>>

\* The move constructor makes p of o.
MoveTransaction(o, p) ==
  /\ o # p /\ db[p] = NoDatabase /\ db[o] # NoDatabase
  /\ db' = [db EXCEPT ![p] = db[o], ![o] = NoDatabase]
  /\ shouldRollback' = Passed(o, p)
  /\ UNCHANGED <<running, lost>>

\* Move assignment: what p was goes with the temporary object.
AssignTransaction(o, p) ==
  /\ o # p /\ db[p] # NoDatabase
  /\ db' = [db EXCEPT ![p] = db[o], ![o] = NoDatabase]
  /\ shouldRollback' = Passed(o, p)
  /\ IF p \in shouldRollback THEN RollbackOf(db[p]) ELSE UNCHANGED <<running, lost>>

SwapTransactions(o, p) ==
  /\ o # p
  /\ db' = [db EXCEPT ![o] = db[p], ![p] = db[o]]
  /\ shouldRollback' = (shouldRollback \ {o, p}) \cup {x \in {o, p} : {o, p} \ {x} \subseteq shouldRollback}
  /\ UNCHANGED <<running, lost>>

\* commit() that fails leaves the rollback to the destructor; neither commit()
\* nor rollback() does anything afterwards.
Commit(o) ==
  /\ o \in shouldRollback
  /\ \/ running' = running \ {db[o]} /\ shouldRollback' = shouldRollback \ {o}
     \/ UNCHANGED <<running, shouldRollback>>
  /\ UNCHANGED <<db, lost>>
Rollback(o) ==
  /\ o \in shouldRollback
  /\ shouldRollback' = shouldRollback \ {o} /\ RollbackOf(db[o])
  /\ UNCHANGED db

TransactionNext ==
  \/ \E o \in Holders, d \in Connections : BeginTransaction(o, d)
  \/ \E o \in Holders : DestroyTransaction(o) \/ Commit(o) \/ Rollback(o)
  \/ \E o, p \in Holders : MoveTransaction(o, p) \/ AssignTransaction(o, p) \/ SwapTransactions(o, p)

TransactionSpec == TransactionInit /\ [][TransactionNext]_transactionVars
-----------------------------------------------------------------------------
\* Every transaction that runs has one object, and no more, that ends it, unless
\* a rollback has failed; and no object would roll back what is not its own.
OwedOnce ==
  \A d \in Connections :
    Cardinality({o \in shouldRollback : db[o] = d}) = IF d \in running \ lost THEN 1 ELSE 0
=============================================================================
