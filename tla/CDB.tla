--------------------------------- MODULE CDB ---------------------------------
(***************************************************************************)
(* The MySQL wrapper CDB, one object of it as a record: is it connected,   *)
(* and has a call failed that nobody has acknowledged with ClearError?     *)
(* While that is so every further call, and the destructor, throws a       *)
(* CDBException, which no caller in the server catches.  ok is whether the *)
(* call of libmysql works; the log files are left out.                     *)
(***************************************************************************)

CDBs == [mConn : BOOLEAN, mBFailed : BOOLEAN]

NewCDB == [mConn |-> FALSE, mBFailed |-> FALSE]

throwIfFailed(db) == db.mBFailed

fail(db)       == [db EXCEPT !.mBFailed = TRUE]
ClearError(db) == [db EXCEPT !.mBFailed = FALSE]

Connect(db, ok) == IF ok THEN [db EXCEPT !.mConn = TRUE] ELSE fail([db EXCEPT !.mConn = FALSE])
Execute(db, ok) == IF ok THEN db ELSE fail(db)

(* The query worked and its result set is there; no row in it is no failure. *)
Query(db, queried, stored) == IF queried /\ stored THEN db ELSE fail(db)

(* The destructor. *)
Disconnect(db) == [db EXCEPT !.mConn = FALSE]
=============================================================================
