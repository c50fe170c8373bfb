------------------------------ MODULE LdmTable ------------------------------
(***************************************************************************)
(* One table of the LDM and the cache in front of it (ldm/src/ldm.cpp):    *)
(* CAM, DENM or dccInfo.  A receiver thread writes each message to the     *)
(* cache, which no lock protects, and to the database, which the mutex of  *)
(* the table protects.  The server thread answers requests from the cache  *)
(* and fills it from the database when it finds it empty.                  *)
(*                                                                         *)
(* A message is its number among those of its key (station or access       *)
(* category), oldest first; 0 is no message.  One number is all a message  *)
(* has here, so a copy taken during an assignment is the old or the new    *)
(* one; a race that corrupts the map itself is a Crash.                    *)
(***************************************************************************)
EXTENDS Integers, FiniteSets

CONSTANTS NumKeys,      \* the keys are 1..NumKeys, in the order of std::map
          MaxMessages,  \* bound: messages per key
          MaxCrashes,   \* bound: crashes of the process
          MaxErrors     \* bound: insertions that SQLite refuses

ASSUME LdmAssumption ==
  /\ NumKeys \in Nat \ {0} /\ MaxMessages \in Nat
  /\ MaxCrashes \in Nat /\ MaxErrors \in Nat

VARIABLES table,      \* which table; it never changes
          received,   \* the newest message of each key
          rows,       \* the messages in the database
          cache,      \* camCache, denmCache or dccInfoCache
          rx,         \* the receiver thread and the message in its hands
          pc,         \* the server thread
          mutex,      \* is the table's mutex held over the fill?
          result,     \* rows of the query not stepped over yet
          pos,        \* the key the iteration over the cache has reached
          reply,      \* the answer so far
          answered,   \* history: the last answer of this life of the process
          filled,     \* history: did a fill read all rows in this life?
          crashes,    \* history: crashes so far
          errors      \* history: errors of insertions logged so far

vars == <<table, received, rows, cache, rx, pc, mutex, result, pos, reply,
          answered, filled, crashes, errors>>

Key == 1..NumKeys
Nothing == [k \in Key |-> 0]
Idle == [pc |-> "receive", key |-> 1, message |-> 0]

\* receiveFromCa and receiveFromDen cache a message before they insert it,
\* receiveDccInfo inserts it first.
CacheFirst == table # "dccInfo"

Init ==
  /\ table \in {"CAM", "DENM", "dccInfo"}
  /\ received = Nothing
  /\ rows = [k \in Key |-> {}]
  /\ cache = Nothing
  /\ rx = Idle
  /\ pc = "receive"
  /\ mutex = FALSE
  /\ result = Nothing
  /\ pos = 0
  /\ reply = Nothing
  /\ answered = Nothing
  /\ filled = FALSE
  /\ crashes = 0
  /\ errors = 0

-----------------------------------------------------------------------------
\* The receiver thread.
Receive(k) ==
  /\ rx.pc = "receive"
  /\ received[k] < MaxMessages
  /\ received' = [received EXCEPT ![k] = @ + 1]
  /\ rx' = [pc |-> IF CacheFirst THEN "cache" ELSE "insert",
            key |-> k, message |-> received[k] + 1]
  /\ UNCHANGED <<table, rows, cache, pc, mutex, result, pos, reply, answered,
                 filled, crashes, errors>>

WriteCache ==
  /\ rx.pc = "cache"
  /\ cache' = [cache EXCEPT ![rx.key] = rx.message]
  /\ rx' = [rx EXCEPT !.pc = IF CacheFirst THEN "insert" ELSE "receive"]
  /\ UNCHANGED <<table, received, rows, pc, mutex, result, pos, reply,
                 answered, filled, crashes, errors>>

\* Mutant of Insert: the statement runs without the mutex of the table.
InsertUnlocked ==
  /\ rx.pc = "insert"
  /\ rows' = [rows EXCEPT ![rx.key] = @ \cup {rx.message}]
  /\ rx' = [rx EXCEPT !.pc = IF CacheFirst THEN "receive" ELSE "cache"]
  /\ UNCHANGED <<table, received, cache, pc, mutex, result, pos, reply,
                 answered, filled, crashes, errors>>

\* Mutant of Insert: a message that finds the mutex taken is not inserted.
InsertTryLock ==
  /\ rx.pc = "insert"
  /\ rows' = IF mutex THEN rows
             ELSE [rows EXCEPT ![rx.key] = @ \cup {rx.message}]
  /\ rx' = [rx EXCEPT !.pc = IF CacheFirst THEN "receive" ELSE "cache"]
  /\ UNCHANGED <<table, received, cache, pc, mutex, result, pos, reply,
                 answered, filled, crashes, errors>>

\* insertCam, insertDenm and receiveDccInfo: lock, insert, unlock.
Insert ==
  /\ rx.pc = "insert"
  /\ ~ mutex
  /\ rows' = [rows EXCEPT ![rx.key] = @ \cup {rx.message}]
  /\ rx' = [rx EXCEPT !.pc = IF CacheFirst THEN "receive" ELSE "cache"]
  /\ UNCHANGED <<table, received, cache, pc, mutex, result, pos, reply,
                 answered, filled, crashes, errors>>

\* LDM::insert logs the error of a statement that fails, and the receiver goes
\* on without the row.
InsertFails ==
  /\ rx.pc = "insert"
  /\ ~ mutex
  /\ errors < MaxErrors
  /\ errors' = errors + 1
  /\ rx' = [rx EXCEPT !.pc = IF CacheFirst THEN "receive" ELSE "cache"]
  /\ UNCHANGED <<table, received, rows, cache, pc, mutex, result, pos, reply,
                 answered, filled, crashes>>

-----------------------------------------------------------------------------
\* The server thread: one request at a time.
ReceiveRequest ==
  /\ pc = "receive"
  /\ pc' = "test"
  /\ UNCHANGED <<table, received, rows, cache, rx, mutex, result, pos, reply,
                 answered, filled, crashes, errors>>

\* Mutant of TestCache: every request goes to the database.
TestNothing ==
  /\ pc = "test"
  /\ pc' = "lock"
  /\ pos' = 0
  /\ reply' = Nothing
  /\ UNCHANGED <<table, received, rows, cache, rx, mutex, result, answered,
                 filled, crashes, errors>>

\* camCache.empty(), before the mutex is taken.
TestCache ==
  /\ pc = "test"
  /\ pc' = IF cache = Nothing THEN "lock" ELSE "copy"
  /\ pos' = 0
  /\ reply' = Nothing
  /\ UNCHANGED <<table, received, rows, cache, rx, mutex, result, answered,
                 filled, crashes, errors>>

\* m is the last message inserted for k; the receiver inserts them in order.
IsLatestRow(k, m) == m \in rows[k] /\ \A n \in rows[k] : n <= m

LatestRow(k) == IF rows[k] = {} THEN 0 ELSE CHOOSE m \in rows[k] : IsLatestRow(k, m)

\* The mutex is taken and the query for the latest row of each key is begun.
Query ==
  /\ pc = "lock"
  /\ ~ mutex
  /\ mutex' = TRUE
  /\ result' = [k \in Key |-> LatestRow(k)]
  /\ pc' = "fill"
  /\ UNCHANGED <<table, received, rows, cache, rx, pos, reply, answered,
                 filled, crashes, errors>>

\* Mutant of FillFrom: the loop over the rows ends after the first one.
FillFromFirst(k) ==
  /\ pc = "fill"
  /\ result[k] # 0
  /\ cache' = [cache EXCEPT ![k] = result[k]]
  /\ result' = Nothing
  /\ UNCHANGED <<table, received, rows, rx, pc, mutex, pos, reply, answered,
                 filled, crashes, errors>>

\* One row of the result; the cache may hold a newer message by now.
FillFrom(k) ==
  /\ pc = "fill"
  /\ result[k] # 0
  /\ cache' = [cache EXCEPT ![k] = result[k]]
  /\ result' = [result EXCEPT ![k] = 0]
  /\ UNCHANGED <<table, received, rows, rx, pc, mutex, pos, reply, answered,
                 filled, crashes, errors>>

\* Mutant of EndFill: the mutex is never released.
EndFillLocked ==
  /\ pc = "fill"
  /\ filled' = (filled \/ result = Nothing)
  /\ result' = Nothing
  /\ pc' = "copy"
  /\ UNCHANGED <<table, received, rows, cache, rx, mutex, pos, reply, answered,
                 crashes, errors>>

\* The loop ends at whatever sqlite3_step returns other than a row: the end of
\* the result, or an error, which leaves the rest of the rows out.
EndFill ==
  /\ pc = "fill"
  /\ mutex' = FALSE
  /\ filled' = (filled \/ result = Nothing)
  /\ result' = Nothing
  /\ pc' = "copy"
  /\ UNCHANGED <<table, received, rows, cache, rx, pos, reply, answered,
                 crashes, errors>>

\* Mutant of Copy: the position is the entry after the one copied.
CopyPast(k) ==
  /\ pc = "copy"
  /\ k > pos /\ cache[k] # 0
  /\ \A j \in Key : pos < j /\ j < k => cache[j] = 0
  /\ reply' = [reply EXCEPT ![k] = cache[k]]
  /\ pos' = k + 1
  /\ UNCHANGED <<table, received, rows, cache, rx, pc, mutex, result, answered,
                 filled, crashes, errors>>

\* The iterator moves to the next entry, which may have been written since the
\* iteration began.
Copy(k) ==
  /\ pc = "copy"
  /\ k > pos /\ cache[k] # 0
  /\ \A j \in Key : pos < j /\ j < k => cache[j] = 0
  /\ reply' = [reply EXCEPT ![k] = cache[k]]
  /\ pos' = k
  /\ UNCHANGED <<table, received, rows, cache, rx, pc, mutex, result, answered,
                 filled, crashes, errors>>

SendReply ==
  /\ pc = "copy"
  /\ \A j \in Key : pos < j => cache[j] = 0
  /\ answered' = reply
  /\ pc' = "receive"
  /\ UNCHANGED <<table, received, rows, cache, rx, mutex, result, pos, reply,
                 filled, crashes, errors>>

-----------------------------------------------------------------------------
\* The process dies and is started again.  The database file stays, without
\* the statement that was not executed; SQLite keeps the executed ones.  A
\* query that cannot be prepared is a Crash: camSelect then makes a string of
\* errmsg, which is still null, and nothing catches the exception.
Crash ==
  /\ crashes < MaxCrashes
  /\ crashes' = crashes + 1
  /\ cache' = Nothing
  /\ rx' = Idle
  /\ pc' = "receive"
  /\ mutex' = FALSE
  /\ result' = Nothing
  /\ pos' = 0
  /\ reply' = Nothing
  /\ answered' = Nothing
  /\ filled' = FALSE
  /\ UNCHANGED <<table, received, rows, errors>>

Receiver == WriteCache \/ Insert \/ InsertFails \/ \E k \in Key : Receive(k)

Server ==
  \/ TestCache \/ Query \/ EndFill \/ SendReply
  \/ \E k \in Key : FillFrom(k) \/ Copy(k)

Next == Receiver \/ Server \/ ReceiveRequest \/ Crash

\* Both threads run; requests and messages come or do not.
Spec ==
  /\ Init /\ [][Next]_vars
  /\ WF_vars(Server)
  /\ WF_vars(WriteCache \/ Insert \/ InsertFails)

-----------------------------------------------------------------------------
Rx == [pc : {"receive", "cache", "insert"}, key : Key, message : Nat]

TypeOK ==
  /\ table \in {"CAM", "DENM", "dccInfo"}
  /\ received \in [Key -> Nat]
  /\ rows \in [Key -> SUBSET Nat]
  /\ cache \in [Key -> Nat]
  /\ rx \in Rx
  /\ pc \in {"receive", "test", "lock", "fill", "copy"}
  /\ mutex \in BOOLEAN
  /\ result \in [Key -> Nat]
  /\ pos \in 0..NumKeys
  /\ reply \in [Key -> Nat]
  /\ answered \in [Key -> Nat]
  /\ filled \in BOOLEAN
  /\ crashes \in 0..MaxCrashes
  /\ errors \in 0..MaxErrors

\* The rows that the cached message of k is older than.
NewerRows(k) == {m \in rows[k] : m > cache[k]}

\* A fill may overwrite a message the receiver has just cached with the row
\* before it, but with none older than that: while the fill holds the mutex the
\* receiver can cache one message and then waits to insert it.
AtMostOneBehind ==
  CacheFirst =>
    \A k \in Key : cache[k] # 0 =>
      \A m, n \in NewerRows(k) : m = n

\* The order of receiveDccInfo has no such window: the cache is behind the
\* database only by the message the receiver is about to cache.
NeverBehind ==
  ~ CacheFirst =>
    \A k \in Key : cache[k] # 0 =>
      \A m \in NewerRows(k) :
        rx.pc = "cache" /\ rx.key = k /\ rx.message = m

\* The cache keeps up with the table, in either order of the receiver.
CacheKeepsUp == AtMostOneBehind /\ NeverBehind

\* Once a fill has read its result to the end, no key with a row is missing
\* from the cache, but for a row the receiver has inserted and is about to
\* cache.  A cache that the receiver made non-empty before the first request is
\* never filled, nor is one again whose fill an error ended: there a key stays
\* hidden until its next message.
CompleteOnceFilled ==
  filled => \A k \in Key :
    rows[k] # {} => cache[k] # 0 \/ (rx.pc = "cache" /\ rx.key = k)

\* The messages received that are not in the database.
Missing == {p \in Key \X (1..MaxMessages) :
              p[2] <= received[p[1]] /\ p[2] \notin rows[p[1]]}

InFlight ==
  IF rx.pc = "insert" \/ (rx.pc = "cache" /\ CacheFirst) THEN 1 ELSE 0

\* No message is lost silently: each one the database lacks has cost an error
\* in the log, was in the receiver's hands at a crash (at most one for each
\* crash), or is in them now.  In particular none is passed over because a fill
\* holds the mutex.
NoSilentLoss == Cardinality(Missing) <= errors + crashes + InFlight

\* In one life of the process no answer takes a message back: an entry once
\* reported is reported again, as old or newer.
RepliesNeverRegress ==
  [][crashes' = crashes => \A k \in Key : answered'[k] >= answered[k]]_vars

\* Every request is answered (or its server dies), and no message waits for
\* ever to be inserted in a table that is cached first.
NobodyBlocked ==
  /\ pc = "test" ~> pc = "receive"
  /\ (rx.pc = "insert" /\ CacheFirst) ~> rx.pc = "receive"
=============================================================================
