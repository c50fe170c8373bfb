--------------------------- MODULE LdmTable_proofs ---------------------------
(***************************************************************************)
(* For any number of keys, messages, crashes and failing insertions: how   *)
(* far the cache of a table can be behind the database, that it is         *)
(* complete after a fill that read all rows, that no answer takes a        *)
(* message back, and that no message is lost without a crash or an error   *)
(* in the log.                                                             *)
(***************************************************************************)
EXTENDS LdmTable, FiniteSetTheorems, TLAPS

\* The message in the receiver's hands has been received but is no row yet.
ToInsert == rx.pc = "insert" \/ (rx.pc = "cache" /\ CacheFirst)

\* Messages are numbered as they are received.
Numbered ==
  /\ \A k \in Key : cache[k] <= received[k]
  /\ \A k \in Key : \A m \in rows[k] : 0 < m /\ m <= received[k]
  /\ rx.pc # "receive" => rx.message = received[rx.key] /\ rx.message > 0

\* The receiver inserts in order, so a key with rows has a latest one.
Ordered ==
  /\ ToInsert => \A m \in rows[rx.key] : m < rx.message
  /\ \A k \in Key : rows[k] # {} => \E m \in rows[k] : IsLatestRow(k, m)

\* While the fill holds the mutex, the rows it has read are the latest.
FillReads ==
  /\ mutex <=> pc = "fill"
  /\ mutex => \A k \in Key : result[k] # 0 =>
       result[k] \in rows[k] /\ \A m \in rows[k] : m <= result[k]

\* While the receiver waits to insert a message that it has cached, no row is
\* newer than the cache.
CachedBeforeInsert ==
  CacheFirst /\ rx.pc = "insert" =>
    cache[rx.key] # 0 /\ NewerRows(rx.key) = {}

\* What the fill has still to do for the cache to be complete.
FillCompletes ==
  pc = "fill" => \A k \in Key :
    rows[k] # {} => \/ cache[k] # 0
                    \/ result[k] # 0
                    \/ rx.pc = "cache" /\ rx.key = k

\* The last answer and the one under way against the cache.
AnswersKept ==
  /\ \A k \in Key : answered[k] <= cache[k]
  /\ pc \in {"lock", "fill"} =>
       pos = 0 /\ \A k \in Key : answered[k] = 0 /\ reply[k] = 0
  /\ pc = "copy" => \A k \in Key :
       reply[k] <= cache[k] /\ (k <= pos => answered[k] <= reply[k])

LdmInv ==
  /\ TypeOK /\ Numbered /\ Ordered /\ FillReads
  /\ CachedBeforeInsert /\ AtMostOneBehind /\ NeverBehind
  /\ FillCompletes /\ CompleteOnceFilled /\ AnswersKept

-----------------------------------------------------------------------------
LEMMA IdleType == Idle \in Rx /\ Idle.pc = "receive" /\ Nothing \in [Key -> Nat]
  BY LdmAssumption DEF Idle, Rx, Key, Nothing

\* The latest row is a row, and no row is newer; without rows it is 0.
LEMMA LatestRowFacts ==
  ASSUME LdmInv, NEW k \in Key
  PROVE  /\ LatestRow(k) \in Nat
         /\ LatestRow(k) # 0 <=> rows[k] # {}
         /\ LatestRow(k) # 0 =>
              LatestRow(k) \in rows[k] /\ \A m \in rows[k] : m <= LatestRow(k)
<1>1. CASE rows[k] = {}
  BY <1>1 DEF LatestRow
<1>2. CASE rows[k] # {}
  <2>1. \E m \in rows[k] : IsLatestRow(k, m)
    BY <1>2 DEF LdmInv, Ordered
  <2>2. LatestRow(k) \in rows[k] /\ IsLatestRow(k, LatestRow(k))
    BY <1>2, <2>1 DEF LatestRow
  <2>3. \A m \in rows[k] : m \in Nat /\ m > 0
    BY DEF LdmInv, TypeOK, Numbered
  <2> QED
    BY <1>2, <2>2, <2>3 DEF IsLatestRow
<1> QED
  BY <1>1, <1>2

LEMMA InitLdm == Init => LdmInv
<1> SUFFICES ASSUME Init PROVE LdmInv
  OBVIOUS
<1>1. TypeOK
  <2>1. 0 \in 0..NumKeys /\ 0 \in 0..MaxCrashes /\ 0 \in 0..MaxErrors
    BY LdmAssumption
  <2> QED
    BY <2>1, IdleType DEF Init, TypeOK
<1> QED
  BY <1>1, IdleType
     DEF Init, LdmInv, Numbered, Ordered, ToInsert, FillReads, CachedBeforeInsert,
         AtMostOneBehind, NeverBehind, NewerRows, FillCompletes, CompleteOnceFilled,
         AnswersKept, Nothing

-----------------------------------------------------------------------------
\* The new record of the receiver, field by field.
LEMMA RxNew ==
  ASSUME NEW k \in Key, NEW m \in Nat
  PROVE  /\ [pc |-> "cache", key |-> k, message |-> m] \in Rx
         /\ [pc |-> "insert", key |-> k, message |-> m] \in Rx
  BY DEF Rx

LEMMA RxFields ==
  ASSUME NEW r \in Rx
  PROVE  /\ [r EXCEPT !.pc = "receive"] \in Rx
         /\ [r EXCEPT !.pc = "cache"] \in Rx
         /\ [r EXCEPT !.pc = "insert"] \in Rx
         /\ r.key \in Key /\ r.message \in Nat
  BY DEF Rx

LEMMA ReceiveStep ==
  ASSUME LdmInv, NEW k \in Key, Receive(k)
  PROVE  LdmInv'
<1> USE DEF LdmInv
<1>1. rx'.pc = (IF CacheFirst THEN "cache" ELSE "insert")
      /\ rx'.key = k /\ rx'.message = received[k] + 1 /\ CacheFirst' = CacheFirst
  BY DEF Receive, CacheFirst
<1>2. TypeOK'
  <2>1. received[k] + 1 \in Nat
    BY DEF TypeOK
  <2>2. rx' \in Rx
    BY <2>1, RxNew DEF Receive, TypeOK
  <2> QED
    BY <2>1, <2>2 DEF Receive, TypeOK
<1>3. Numbered'
  BY <1>1 DEF Receive, TypeOK, Numbered
<1>4. Ordered'
  <2>1. rows' = rows /\ rows \in [Key -> SUBSET Nat] /\ received[k] \in Nat
    BY DEF Receive, TypeOK
  <2>2. \A m \in rows[k] : m < received[k] + 1
    BY <2>1 DEF Numbered
  <2>3. \A j \in Key : rows'[j] # {} => \E m \in rows'[j] : IsLatestRow(j, m)'
    BY <2>1 DEF Ordered, IsLatestRow
  <2> QED
    BY <1>1, <2>1, <2>2, <2>3 DEF Ordered
<1>5. FillReads' /\ FillCompletes'
  BY <1>1 DEF Receive, TypeOK, FillReads, FillCompletes
<1>6. CachedBeforeInsert'
  BY <1>1 DEF Receive, CachedBeforeInsert
<1>7. AtMostOneBehind' /\ NeverBehind' /\ CompleteOnceFilled'
  BY <1>1 DEF Receive, AtMostOneBehind, NeverBehind, CompleteOnceFilled, NewerRows
<1>8. AnswersKept'
  BY DEF Receive, AnswersKept
<1> QED
  BY <1>2, <1>3, <1>4, <1>5, <1>6, <1>7, <1>8

LEMMA WriteCacheStep ==
  ASSUME LdmInv, WriteCache
  PROVE  LdmInv'
<1> USE DEF LdmInv
<1>1. rx'.pc = (IF CacheFirst THEN "insert" ELSE "receive")
      /\ rx'.key = rx.key /\ rx'.message = rx.message /\ CacheFirst' = CacheFirst
  BY DEF WriteCache, CacheFirst, TypeOK, Rx
<1>2. TypeOK'
  <2>1. rx' \in Rx /\ rx.message \in Nat
    BY RxFields DEF WriteCache, TypeOK
  <2> QED
    BY <2>1 DEF WriteCache, TypeOK
<1>3. rx.key \in Key /\ rx.message = received[rx.key] /\ rx.message > 0
      /\ cache[rx.key] <= rx.message
      /\ \A m \in rows[rx.key] : m <= rx.message
  <2>1. rx.key \in Key
    BY RxFields DEF TypeOK
  <2> QED
    BY <2>1 DEF WriteCache, TypeOK, Numbered
<1>4. Numbered' /\ Ordered'
  BY <1>1, <1>3 DEF WriteCache, TypeOK, Numbered, Ordered, ToInsert, IsLatestRow
<1>5. FillReads' /\ FillCompletes'
  BY <1>1, <1>3 DEF WriteCache, TypeOK, FillReads, FillCompletes
<1>6. \A k \in Key : NewerRows(k)' = IF k = rx.key THEN {} ELSE NewerRows(k)
  BY <1>3 DEF WriteCache, TypeOK, NewerRows
<1>7. CachedBeforeInsert'
  BY <1>1, <1>3, <1>6 DEF WriteCache, TypeOK, CachedBeforeInsert
<1>8. AtMostOneBehind'
  BY <1>1, <1>3, <1>6 DEF WriteCache, TypeOK, AtMostOneBehind
<1>9. NeverBehind'
  BY <1>1, <1>3, <1>6 DEF WriteCache, TypeOK, NeverBehind
<1>10. CompleteOnceFilled'
  BY <1>1, <1>3 DEF WriteCache, TypeOK, CompleteOnceFilled
<1>11. AnswersKept'
  <2>1. \A k \in Key : cache[k] <= cache'[k]
    BY <1>3 DEF WriteCache, TypeOK
  <2> QED
    BY <2>1, <1>2 DEF WriteCache, TypeOK, AnswersKept
<1> QED
  BY <1>2, <1>4, <1>5, <1>7, <1>8, <1>9, <1>10, <1>11

LEMMA InsertStep ==
  ASSUME LdmInv, Insert
  PROVE  LdmInv'
<1> USE DEF LdmInv
<1>1. rx'.pc = (IF CacheFirst THEN "receive" ELSE "cache")
      /\ rx'.key = rx.key /\ rx'.message = rx.message /\ CacheFirst' = CacheFirst
  BY DEF Insert, CacheFirst, TypeOK, Rx
<1>2. TypeOK'
  <2>1. rx' \in Rx /\ rx.message \in Nat
    BY RxFields DEF Insert, TypeOK
  <2> QED
    BY <2>1 DEF Insert, TypeOK
<1>3. rx.key \in Key /\ rx.message = received[rx.key] /\ rx.message > 0
      /\ \A m \in rows[rx.key] : m \in Nat /\ m < rx.message
  <2>1. rx.key \in Key
    BY RxFields DEF TypeOK
  <2>2. rx.message = received[rx.key] /\ rx.message > 0
    BY <2>1 DEF Insert, Numbered
  <2>3. ToInsert
    BY DEF Insert, ToInsert
  <2> QED
    BY <2>1, <2>2, <2>3 DEF TypeOK, Ordered
<1>4. /\ rows'[rx.key] = rows[rx.key] \cup {rx.message}
      /\ \A k \in Key \ {rx.key} : rows'[k] = rows[k]
  BY <1>3 DEF Insert, TypeOK
<1>5. Numbered'
  BY <1>1, <1>3, <1>4 DEF Insert, TypeOK, Numbered
<1>6. Ordered'
  <2>1. ~ ToInsert'
    BY <1>1 DEF ToInsert
  <2>2. rx.message \in rows'[rx.key] /\ \A n \in rows'[rx.key] : n <= rx.message
    BY <1>3, <1>4 DEF TypeOK
  <2>3. ASSUME NEW k \in Key, rows'[k] # {}
        PROVE  \E m \in rows'[k] : \A n \in rows'[k] : n <= m
    <3>1. CASE k = rx.key
      BY <2>2, <3>1
    <3>2. CASE k # rx.key
      BY <2>3, <3>2, <1>4 DEF Ordered, IsLatestRow
    <3> QED
      BY <3>1, <3>2
  <2> QED
    BY <2>1, <2>3 DEF Ordered, IsLatestRow
<1>7. FillReads' /\ FillCompletes'
  BY DEF Insert, FillReads, FillCompletes
<1>8. CachedBeforeInsert'
  BY <1>1 DEF CachedBeforeInsert
<1>9. /\ NewerRows(rx.key)' \subseteq NewerRows(rx.key) \cup {rx.message}
      /\ \A k \in Key \ {rx.key} : NewerRows(k)' = NewerRows(k)
  BY <1>3, <1>4 DEF Insert, TypeOK, NewerRows
<1>10. AtMostOneBehind'
  BY <1>1, <1>9 DEF Insert, TypeOK, AtMostOneBehind, CachedBeforeInsert
<1>11. NeverBehind'
  BY <1>1, <1>9 DEF Insert, TypeOK, NeverBehind
<1>12. CompleteOnceFilled'
  BY <1>1, <1>4 DEF Insert, TypeOK, CompleteOnceFilled, CachedBeforeInsert
<1>13. AnswersKept'
  BY DEF Insert, AnswersKept
<1> QED
  BY <1>2, <1>5, <1>6, <1>7, <1>8, <1>10, <1>11, <1>12, <1>13

\* Without its row a message may be in the cache only.
LEMMA InsertFailsStep ==
  ASSUME LdmInv, InsertFails
  PROVE  LdmInv'
<1> USE DEF LdmInv
<1>1. rx'.pc = (IF CacheFirst THEN "receive" ELSE "cache")
      /\ rx'.key = rx.key /\ rx'.message = rx.message /\ CacheFirst' = CacheFirst
  BY DEF InsertFails, CacheFirst, TypeOK, Rx
<1>2. TypeOK'
  <2>1. rx' \in Rx
    BY RxFields DEF InsertFails, TypeOK
  <2>2. errors' \in 0..MaxErrors
    BY LdmAssumption DEF InsertFails, TypeOK
  <2> QED
    BY <2>1, <2>2 DEF InsertFails, TypeOK
<1>3. Numbered' /\ Ordered'
  BY <1>1 DEF InsertFails, Numbered, Ordered, ToInsert, IsLatestRow
<1>4. FillReads' /\ FillCompletes' /\ AnswersKept'
  BY DEF InsertFails, FillReads, FillCompletes, AnswersKept
<1>5. CachedBeforeInsert' /\ AtMostOneBehind' /\ CompleteOnceFilled'
  BY <1>1 DEF InsertFails, CachedBeforeInsert, AtMostOneBehind, CompleteOnceFilled,
              NewerRows
<1>6. NeverBehind'
  BY <1>1 DEF InsertFails, NeverBehind, NewerRows
<1> QED
  BY <1>2, <1>3, <1>4, <1>5, <1>6

-----------------------------------------------------------------------------
LEMMA TestCacheStep ==
  ASSUME LdmInv, TestCache
  PROVE  LdmInv'
<1> USE DEF LdmInv
<1>1. TypeOK'
  BY LdmAssumption, IdleType DEF TestCache, TypeOK
<1>2. Numbered' /\ Ordered' /\ FillReads' /\ CachedBeforeInsert'
  BY DEF TestCache, Numbered, Ordered, ToInsert, CacheFirst, IsLatestRow, FillReads,
         CachedBeforeInsert, NewerRows
<1>3. AtMostOneBehind' /\ NeverBehind' /\ FillCompletes' /\ CompleteOnceFilled'
  BY DEF TestCache, AtMostOneBehind, NeverBehind, CacheFirst, NewerRows, FillCompletes,
         CompleteOnceFilled
<1>4. AnswersKept'
  <2>1. CASE cache = Nothing
    BY <2>1 DEF TestCache, TypeOK, AnswersKept, Nothing
  <2>2. CASE cache # Nothing
    <3>1. \A k \in Key : ~ (k <= 0)
      BY LdmAssumption DEF Key
    <3> QED
      BY <2>2, <3>1 DEF TestCache, TypeOK, AnswersKept, Nothing
  <2> QED
    BY <2>1, <2>2
<1> QED
  BY <1>1, <1>2, <1>3, <1>4

LEMMA QueryStep ==
  ASSUME LdmInv, Query
  PROVE  LdmInv'
<1> USE DEF LdmInv
<1>1. TypeOK'
  BY LatestRowFacts DEF Query, TypeOK
<1>2. Numbered' /\ Ordered' /\ CachedBeforeInsert' /\ AtMostOneBehind' /\ NeverBehind'
  BY DEF Query, Numbered, Ordered, ToInsert, CacheFirst, IsLatestRow, CachedBeforeInsert,
         AtMostOneBehind, NeverBehind, NewerRows
<1>3. FillReads' /\ FillCompletes'
  BY LatestRowFacts DEF Query, FillReads, FillCompletes
<1>4. CompleteOnceFilled' /\ AnswersKept'
  BY DEF Query, CompleteOnceFilled, AnswersKept
<1> QED
  BY <1>1, <1>2, <1>3, <1>4

LEMMA FillFromStep ==
  ASSUME LdmInv, NEW k \in Key, FillFrom(k)
  PROVE  LdmInv'
<1> USE DEF LdmInv
<1>1. TypeOK'
  BY DEF FillFrom, TypeOK
<1>2. /\ result[k] \in rows[k] /\ result[k] \in Nat /\ result[k] > 0
      /\ \A m \in rows[k] : m <= result[k]
      /\ result[k] <= received[k]
      /\ cache'[k] = result[k]
      /\ \A j \in Key \ {k} : cache'[j] = cache[j]
  BY DEF FillFrom, FillReads, TypeOK, Numbered
<1>3. Numbered' /\ Ordered'
  BY <1>2 DEF FillFrom, TypeOK, Numbered, Ordered, ToInsert, CacheFirst, IsLatestRow
<1>4. FillReads'
  BY DEF FillFrom, FillReads, TypeOK
<1>5. /\ NewerRows(k)' = {}
      /\ \A j \in Key \ {k} : NewerRows(j)' = NewerRows(j)
  BY <1>2 DEF FillFrom, TypeOK, NewerRows
<1>6. CachedBeforeInsert'
  <2>1. rx.key \in Key
    BY RxFields DEF TypeOK
  <2> QED
    BY <2>1, <1>2, <1>5 DEF FillFrom, CacheFirst, CachedBeforeInsert
<1>9. AtMostOneBehind' /\ NeverBehind'
  BY <1>2, <1>5 DEF FillFrom, CacheFirst, AtMostOneBehind, NeverBehind
<1>7. FillCompletes' /\ CompleteOnceFilled'
  BY <1>2 DEF FillFrom, TypeOK, FillCompletes, CompleteOnceFilled
<1>8. AnswersKept'
  BY <1>1, <1>2 DEF FillFrom, TypeOK, AnswersKept
<1> QED
  BY <1>1, <1>3, <1>4, <1>6, <1>7, <1>8, <1>9

LEMMA EndFillStep ==
  ASSUME LdmInv, EndFill
  PROVE  LdmInv'
<1> USE DEF LdmInv
<1>1. TypeOK'
  BY IdleType DEF EndFill, TypeOK
<1>2. Numbered' /\ Ordered' /\ CachedBeforeInsert' /\ AtMostOneBehind' /\ NeverBehind'
  BY DEF EndFill, Numbered, Ordered, ToInsert, CacheFirst, IsLatestRow, CachedBeforeInsert,
         AtMostOneBehind, NeverBehind, NewerRows
<1>3. FillReads' /\ FillCompletes' /\ CompleteOnceFilled'
  BY DEF EndFill, FillReads, FillCompletes, CompleteOnceFilled, Nothing
<1>4. AnswersKept'
  BY DEF EndFill, TypeOK, AnswersKept
<1> QED
  BY <1>1, <1>2, <1>3, <1>4

LEMMA CopyStep ==
  ASSUME LdmInv, NEW k \in Key, Copy(k)
  PROVE  LdmInv'
<1> USE DEF LdmInv
<1>1. TypeOK'
  BY DEF Copy, TypeOK, Key
<1>2. Numbered' /\ Ordered' /\ CachedBeforeInsert' /\ AtMostOneBehind' /\ NeverBehind'
  BY DEF Copy, Numbered, Ordered, ToInsert, CacheFirst, IsLatestRow, CachedBeforeInsert,
         AtMostOneBehind, NeverBehind, NewerRows
<1>3. FillReads' /\ FillCompletes' /\ CompleteOnceFilled'
  BY DEF Copy, FillReads, FillCompletes, CompleteOnceFilled
<1>4. AnswersKept'
  <2>1. reply'[k] = cache[k] /\ \A j \in Key \ {k} : reply'[j] = reply[j]
    BY DEF Copy, TypeOK
  <2>2. ASSUME NEW j \in Key
        PROVE  reply'[j] <= cache[j] /\ (j <= k => answered[j] <= reply'[j])
    <3>1. CASE j = k
      BY <2>1, <3>1 DEF Copy, TypeOK, AnswersKept
    <3>2. CASE j < k /\ pos < j
      \* An entry passed over is absent, and was never reported.
      <4>1. cache[j] = 0 /\ answered[j] = 0 /\ reply[j] \in Nat
        BY <3>2 DEF Copy, TypeOK, AnswersKept
      <4> QED
        BY <2>1, <3>2, <4>1 DEF Copy, AnswersKept, Key
    <3>3. CASE j <= pos \/ k < j
      BY <2>1, <3>3 DEF Copy, TypeOK, AnswersKept, Key
    <3> QED
      BY <3>1, <3>2, <3>3 DEF Key, TypeOK
  <2> QED
    BY <2>2 DEF Copy, AnswersKept
<1> QED
  BY <1>1, <1>2, <1>3, <1>4

LEMMA SendReplyStep ==
  ASSUME LdmInv, SendReply
  PROVE  LdmInv' /\ \A k \in Key : answered[k] <= answered'[k]
<1> USE DEF LdmInv
<1>1. TypeOK'
  BY DEF SendReply, TypeOK
<1>2. Numbered' /\ Ordered' /\ CachedBeforeInsert' /\ AtMostOneBehind' /\ NeverBehind'
  BY DEF SendReply, Numbered, Ordered, ToInsert, CacheFirst, IsLatestRow,
         CachedBeforeInsert, AtMostOneBehind, NeverBehind, NewerRows
<1>3. FillReads' /\ FillCompletes' /\ CompleteOnceFilled'
  BY DEF SendReply, FillReads, FillCompletes, CompleteOnceFilled
<1>4. ASSUME NEW k \in Key
      PROVE  answered[k] <= answered'[k] /\ answered'[k] <= cache[k]
  <2>1. CASE k <= pos
    BY <2>1 DEF SendReply, AnswersKept
  <2>2. CASE pos < k
    BY <2>2 DEF SendReply, TypeOK, AnswersKept
  <2> QED
    BY <2>1, <2>2 DEF TypeOK, Key
<1>5. AnswersKept'
  BY <1>4 DEF SendReply, AnswersKept
<1> QED
  BY <1>1, <1>2, <1>3, <1>4, <1>5

LEMMA ReceiveRequestStep ==
  ASSUME LdmInv, ReceiveRequest
  PROVE  LdmInv'
<1> USE DEF LdmInv
<1>1. TypeOK'
  BY DEF ReceiveRequest, TypeOK
<1>2. Numbered' /\ Ordered' /\ CachedBeforeInsert' /\ AtMostOneBehind' /\ NeverBehind'
  BY DEF ReceiveRequest, Numbered, Ordered, ToInsert, CacheFirst, IsLatestRow,
         CachedBeforeInsert, AtMostOneBehind, NeverBehind, NewerRows
<1>3. FillReads' /\ FillCompletes' /\ CompleteOnceFilled' /\ AnswersKept'
  BY DEF ReceiveRequest, FillReads, FillCompletes, CompleteOnceFilled, AnswersKept
<1> QED
  BY <1>1, <1>2, <1>3

\* A crash leaves the rows, and a cache without entries is behind nothing.
LEMMA CrashStep ==
  ASSUME LdmInv, Crash
  PROVE  LdmInv'
<1> USE DEF LdmInv
<1>1. TypeOK'
  <2>1. crashes' \in 0..MaxCrashes /\ 0 \in 0..NumKeys
    BY LdmAssumption DEF Crash, TypeOK
  <2> QED
    BY <2>1, IdleType DEF Crash, TypeOK
<1>2. Numbered' /\ Ordered' /\ CachedBeforeInsert' /\ AtMostOneBehind' /\ NeverBehind'
  BY IdleType DEF Crash, TypeOK, Numbered, Ordered, ToInsert, IsLatestRow,
         CachedBeforeInsert, AtMostOneBehind, NeverBehind, Nothing
<1>3. FillReads' /\ FillCompletes' /\ CompleteOnceFilled' /\ AnswersKept'
  BY DEF Crash, FillReads, FillCompletes, CompleteOnceFilled, AnswersKept, Nothing
<1> QED
  BY <1>1, <1>2, <1>3

LEMMA StutterStep ==
  ASSUME LdmInv, UNCHANGED vars
  PROVE  LdmInv'
  BY DEF vars, LdmInv, TypeOK, Numbered, Ordered, ToInsert, CacheFirst, IsLatestRow,
         FillReads, CachedBeforeInsert, AtMostOneBehind, NeverBehind, NewerRows,
         FillCompletes, CompleteOnceFilled, AnswersKept

LEMMA LdmStep ==
  ASSUME LdmInv, [Next]_vars
  PROVE  LdmInv'
<1>1. ASSUME Receiver PROVE LdmInv'
  BY <1>1, ReceiveStep, WriteCacheStep, InsertStep, InsertFailsStep DEF Receiver
<1>2. ASSUME Server PROVE LdmInv'
  BY <1>2, TestCacheStep, QueryStep, EndFillStep, SendReplyStep, FillFromStep, CopyStep
     DEF Server
<1> QED
  BY <1>1, <1>2, ReceiveRequestStep, CrashStep, StutterStep DEF Next

LEMMA LdmInvariant == Spec => []LdmInv
<1>1. LdmInv /\ [Next]_vars => LdmInv'
  BY LdmStep
<1> QED
  BY <1>1, InitLdm, PTL DEF Spec

-----------------------------------------------------------------------------
\* The state of a table, its two threads and its mutex is well-formed.
THEOREM LdmTypeCorrect == Spec => []TypeOK
<1>1. LdmInv => TypeOK
  BY DEF LdmInv
<1> QED
  BY <1>1, LdmInvariant, PTL

\* Caching first can leave the cache one message behind the table, inserting
\* first only by the message about to be cached (receiveCam, receiveDenm and
\* receiveDccInfo against the fill of ldmCamSelect and the others).
THEOREM CacheFollowsTable == Spec => []CacheKeepsUp
<1>1. LdmInv => CacheKeepsUp
  BY DEF LdmInv, CacheKeepsUp
<1> QED
  BY <1>1, LdmInvariant, PTL

\* After a fill that read its result to the end the cache has an entry for every
\* key with a row.
THEOREM FillIsComplete == Spec => []CompleteOnceFilled
<1>1. LdmInv => CompleteOnceFilled
  BY DEF LdmInv
<1> QED
  BY <1>1, LdmInvariant, PTL

\* Within one life of the LDM no answer takes a message back.
THEOREM AnswersMoveForward == Spec => RepliesNeverRegress
<1>1. ASSUME LdmInv, [Next]_vars, crashes' = crashes
      PROVE  \A k \in Key : answered'[k] >= answered[k]
  <2>0. /\ \A k \in Key : answered[k] \in Nat
        /\ \A k \in Key : answered'[k] \in Nat
    BY <1>1, LdmStep DEF LdmInv, TypeOK
  <2>1. CASE SendReply
    BY <1>1, <2>0, <2>1, SendReplyStep
  <2>2. CASE UNCHANGED answered
    BY <2>0, <2>2
  <2>3. ~ Crash
    BY <1>1 DEF Crash, LdmInv, TypeOK
  <2>4. [Next]_vars => SendReply \/ Crash \/ UNCHANGED answered
    BY DEF Next, Receiver, Server, Receive, WriteCache, Insert, InsertFails, TestCache,
           Query, EndFill, FillFrom, Copy, ReceiveRequest, vars
  <2> QED
    BY <1>1, <2>1, <2>2, <2>3, <2>4
<1>2. LdmInv /\ [Next]_vars =>
        [crashes' = crashes => \A k \in Key : answered'[k] >= answered[k]]_vars
  BY <1>1
<1> QED
  BY <1>2, LdmInvariant, PTL DEF Spec, RepliesNeverRegress

-----------------------------------------------------------------------------
\* Messages that have been received and are no row: one for each logged error, at
\* most one for each crash, and the one the receiver is about to insert.
LossInv ==
  /\ LdmInv
  /\ \A k \in Key : received[k] <= MaxMessages
  /\ Cardinality(Missing) <= errors + crashes + InFlight

LEMMA MissingFinite ==
  /\ IsFiniteSet(Missing) /\ IsFiniteSet(Missing)'
  /\ Cardinality(Missing) \in Nat /\ Cardinality(Missing)' \in Nat
<1> DEFINE All == Key \X (1..MaxMessages)
<1>1. IsFiniteSet(All)
  <2>1. IsFiniteSet(Key) /\ IsFiniteSet(1..MaxMessages)
    BY LdmAssumption, FS_Interval DEF Key
  <2> QED
    BY <2>1, FS_Product
<1>2. Missing \in SUBSET All /\ Missing' \in SUBSET All
  BY DEF Missing
<1> HIDE DEF All
<1>3. IsFiniteSet(Missing) /\ IsFiniteSet(Missing')
  BY <1>1, <1>2, FS_Subset
<1> QED
  BY <1>3, FS_CardinalityType

LEMMA InitLoss == Init => LossInv
<1> SUFFICES ASSUME Init PROVE LossInv
  OBVIOUS
<1>1. LdmInv
  BY InitLdm
<1>2. \A k \in Key : received[k] = 0
  BY DEF Init, Nothing
<1>3. Missing = {}
  BY <1>2 DEF Missing
<1>4. Cardinality(Missing) = 0
  BY <1>3, FS_EmptySet
<1>5. InFlight \in {0, 1} /\ crashes = 0 /\ errors = 0
  BY DEF InFlight, Init
<1> QED
  BY <1>1, <1>2, <1>4, <1>5, LdmAssumption DEF LossInv

LEMMA LossStep == LossInv /\ [Next]_vars => LossInv'
<1> SUFFICES ASSUME LossInv, [Next]_vars PROVE LossInv'
  OBVIOUS
<1>1. LdmInv /\ LdmInv'
  BY LdmStep DEF LossInv
<1>2. /\ received \in [Key -> Nat] /\ MaxMessages \in Nat
      /\ crashes \in Nat /\ errors \in Nat
      /\ InFlight \in {0, 1} /\ InFlight' \in {0, 1}
  BY <1>1, LdmAssumption DEF LdmInv, TypeOK, InFlight
<1> SUFFICES /\ \A k \in Key : received'[k] <= MaxMessages
             /\ Cardinality(Missing)' <= errors' + crashes' + InFlight'
  BY <1>1 DEF LossInv
<1>3. ASSUME UNCHANGED <<received, rows, crashes, errors>>, InFlight' = InFlight
      PROVE  /\ \A k \in Key : received'[k] <= MaxMessages
             /\ Cardinality(Missing)' <= errors' + crashes' + InFlight'
  <2>1. Missing' = Missing
    BY <1>3 DEF Missing
  <2> QED
    BY <1>3, <2>1 DEF LossInv
\* The message received is the one that is missing from now on.
<1>4. ASSUME NEW k \in Key, Receive(k)
      PROVE  /\ \A j \in Key : received'[j] <= MaxMessages
             /\ Cardinality(Missing)' <= errors' + crashes' + InFlight'
  <2>1. /\ received' = [received EXCEPT ![k] = @ + 1]
        /\ received[k] < MaxMessages
        /\ rx.pc = "receive" /\ rx'.pc = (IF CacheFirst THEN "cache" ELSE "insert")
        /\ UNCHANGED <<rows, crashes, errors, table>>
    BY <1>4 DEF Receive
  <2>2. InFlight = 0 /\ InFlight' = 1
    BY <2>1 DEF InFlight, ToInsert, CacheFirst
  <2>3. \A j \in Key : received'[j] <= MaxMessages
    BY <1>2, <2>1 DEF LossInv
  <2>4. Missing' \subseteq Missing \cup {<<k, received[k] + 1>>}
    <3> SUFFICES ASSUME NEW j \in Key, NEW m \in 1..MaxMessages,
                        m <= received'[j], m \notin rows[j], j # k \/ m # received[k] + 1
                 PROVE  m <= received[j]
      BY <2>1 DEF Missing
    <3> QED
      BY <1>2, <2>1
  <2>5. Cardinality(Missing)' <= Cardinality(Missing) + 1
    <3> DEFINE more == Missing \cup {<<k, received[k] + 1>>}
    <3>0. /\ IsFiniteSet(more)
          /\ Cardinality(more) = Cardinality(Missing)
             \/ Cardinality(more) = Cardinality(Missing) + 1
      BY MissingFinite, FS_AddElement, Zenon
    <3>1. IsFiniteSet(more) /\ Cardinality(more) <= Cardinality(Missing) + 1
      BY <3>0, MissingFinite
    <3>2. Missing' \in SUBSET more
      BY <2>4
    <3> HIDE DEF more
    <3>3. Cardinality(Missing') <= Cardinality(more) /\ Cardinality(more) \in Nat
      BY <3>1, <3>2, FS_Subset, FS_CardinalityType
    <3> QED
      BY <3>1, <3>3, MissingFinite
  <2> QED
    BY <1>2, <2>1, <2>2, <2>3, <2>5, MissingFinite DEF LossInv
<1>5. CASE WriteCache
  <2>1. InFlight' = InFlight
    BY <1>1, <1>5 DEF WriteCache, LdmInv, TypeOK, Rx, InFlight, ToInsert, CacheFirst
  <2> QED
    BY <1>3, <1>5, <2>1 DEF WriteCache
\* The message inserted was missing until now.
<1>6. CASE Insert
  <2>1. /\ rx.pc = "insert" /\ rx'.pc = (IF CacheFirst THEN "receive" ELSE "cache")
        /\ rows' = [rows EXCEPT ![rx.key] = @ \cup {rx.message}]
        /\ UNCHANGED <<received, crashes, errors, table>>
    BY <1>1, <1>6 DEF Insert, LdmInv, TypeOK, Rx
  <2>2. InFlight = 1 /\ InFlight' = 0 /\ ToInsert
    BY <2>1 DEF InFlight, ToInsert, CacheFirst
  <2> DEFINE inserted == <<rx.key, rx.message>>
  <2>3. rx.key \in Key /\ rx.message \in Nat /\ rows \in [Key -> SUBSET Nat]
    BY <1>1, RxFields DEF LdmInv, TypeOK
  <2>4. /\ rx.message = received[rx.key] /\ rx.message > 0
        /\ rx.message \notin rows[rx.key]
    BY <1>1, <2>1, <2>2, <2>3 DEF LdmInv, Numbered, Ordered
  <2>5. inserted \in Missing
    BY <1>2, <2>3, <2>4 DEF Missing, LossInv
  <2>6. Missing' = Missing \ {inserted}
    <3>1. ASSUME NEW j \in Key, NEW m \in 1..MaxMessages
          PROVE  m \in rows'[j] <=> m \in rows[j] \/ <<j, m>> = inserted
      BY <2>1, <2>3
    <3> QED
      BY <2>1, <3>1 DEF Missing
  <2>7. Cardinality(Missing)' = Cardinality(Missing) - 1
    BY <2>5, <2>6, MissingFinite, FS_RemoveElement
  <2> QED
    BY <1>2, <2>1, <2>2, <2>7, MissingFinite DEF LossInv
\* The message in hand stays missing, and the log says so.
<1>7. CASE InsertFails
  <2>1. /\ rx.pc = "insert" /\ rx'.pc = (IF CacheFirst THEN "receive" ELSE "cache")
        /\ UNCHANGED <<received, rows, crashes, table>> /\ errors' = errors + 1
    BY <1>1, <1>7 DEF InsertFails, LdmInv, TypeOK, Rx
  <2>2. InFlight = 1 /\ InFlight' = 0 /\ Missing' = Missing
    BY <2>1 DEF InFlight, CacheFirst, Missing
  <2> QED
    BY <1>2, <2>1, <2>2, MissingFinite DEF LossInv
\* A crash takes the message out of the receiver's hands.
<1>8. CASE Crash
  <2>1. /\ UNCHANGED <<received, rows, errors>> /\ crashes' = crashes + 1
        /\ Missing' = Missing
    BY <1>8 DEF Crash, Missing
  <2> QED
    BY <1>2, <2>1, MissingFinite DEF LossInv
<1>9. CASE Server \/ ReceiveRequest \/ UNCHANGED vars
  <2>1. UNCHANGED <<table, received, rows, rx, crashes, errors>>
    BY <1>9 DEF Server, ReceiveRequest, TestCache, Query, EndFill, SendReply, FillFrom,
                Copy, vars
  <2> QED
    BY <1>3, <2>1 DEF InFlight, ToInsert, CacheFirst
<1> QED
  BY <1>4, <1>5, <1>6, <1>7, <1>8, <1>9 DEF Next, Receiver

\* For any number of keys, messages, crashes and failing insertions: a message
\* that the database lacks was in the hands of the receiver at a crash, is there
\* now, or has cost an error that LDM::insert logged (receiveFromCa,
\* receiveFromDen and receiveDccInfo with the statements of SQLite).
THEOREM LossesAreLogged == Spec => []NoSilentLoss
<1>1. LossInv => NoSilentLoss
  BY DEF LossInv, NoSilentLoss
<1> QED
  BY InitLoss, LossStep, <1>1, PTL DEF Spec
=============================================================================
