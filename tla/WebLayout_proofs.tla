--------------------------- MODULE WebLayout_proofs ---------------------------
(***************************************************************************)
(* However many containers are opened, dragged, closed, saved and loaded:  *)
(* no id is in the page twice, an unlocked layout has no stuck container,  *)
(* and a layout is restored exactly on the two conditions of LoadRestores. *)
(*                                                                         *)
(* Appended and Flow go through a sequence from its front.  What they      *)
(* compute is shown by induction on the part of it they have seen: the set *)
(* of the lengths at which it fails would have a least element.            *)
(***************************************************************************)
EXTENDS WebLayout, SequenceTheorems, WellFoundedInduction, TLAPS

LEMMA LeastNat ==
  ASSUME NEW T \in SUBSET Nat, T # {}
  PROVE  \E n \in T : \A m \in T : ~ (m < n)
<1> DEFINE R == OpToRel(<, Nat)
<1>1. IsWellFoundedOn(R, Nat)
  BY NatLessThanWellFounded
<1>2. \A m, n \in Nat : m < n => <<m, n>> \in R
  BY DEF OpToRel
<1> HIDE DEF R
<1>3. PICK n \in T : \A m \in T : <<m, n>> \notin R
  BY <1>1, WFMin
<1>4. \A m \in T : m \in Nat /\ n \in Nat
  OBVIOUS
<1> QED
  BY <1>2, <1>3, <1>4, Zenon

\* Induction up to N, for the set of the numbers that have the property.
LEMMA InductionUpTo ==
  ASSUME NEW N \in Nat, NEW P \in SUBSET Nat, 0 \in P,
         \A i \in 1..N : i - 1 \in P => i \in P
  PROVE  0..N \subseteq P
<1> DEFINE T == {i \in 0..N : i \notin P}
<1> SUFFICES ASSUME T # {} PROVE FALSE
  OBVIOUS
<1>1. PICK n \in T : \A m \in T : ~ (m < n)
  <2>1. T \in SUBSET Nat
    OBVIOUS
  <2> HIDE DEF T
  <2> QED
    BY <2>1, LeastNat
<1>2. n \in 1..N /\ n - 1 \in 0..N /\ n - 1 < n
  OBVIOUS
<1>3. n - 1 \in P
  BY <1>1, <1>2
<1> QED
  BY <1>2, <1>3

\* The values of f are those of a value a carried along N steps.
Carries(f, N, a, step) ==
  f = [i \in 0..N |-> IF i = 0 THEN a ELSE step[<<f[i - 1], i>>]]

LEMMA CarriedAlong ==
  ASSUME NEW N \in Nat, NEW S, NEW a \in S, NEW step \in [S \X (1..N) -> S]
  PROVE  \E f \in [0..N -> S] : Carries(f, N, a, step)
<1> DEFINE Good(n, f) == f[0] = a /\ \A i \in 1..n : f[i] = step[<<f[i - 1], i>>]
           P == {n \in 0..N : \E f \in [0..n -> S] : Good(n, f)}
<1>1. 0 \in P
  <2> DEFINE f == [i \in 0..0 |-> a]
  <2>1. f \in [0..0 -> S] /\ Good(0, f)
    OBVIOUS
  <2> HIDE DEF f, Good
  <2> QED
    BY <2>1
<1>2. ASSUME NEW n \in 1..N, n - 1 \in P PROVE n \in P
  <2>1. PICK f \in [0..(n - 1) -> S] : Good(n - 1, f)
    BY <1>2
  <2> DEFINE g == [i \in 0..n |-> IF i = n THEN step[<<f[n - 1], n>>] ELSE f[i]]
  <2>2. \A i \in 0..n : i # n => i \in 0..(n - 1)
    OBVIOUS
  <2>3. f[n - 1] \in S /\ step[<<f[n - 1], n>>] \in S
    OBVIOUS
  <2>4. g \in [0..n -> S]
    BY <2>2, <2>3
  <2>5. g[n] = step[<<f[n - 1], n>>] /\ \A i \in 0..(n - 1) : g[i] = f[i]
    OBVIOUS
  <2> HIDE DEF g
  <2>6. ASSUME NEW i \in 1..n PROVE g[i] = step[<<g[i - 1], i>>]
    <3>1. g[i - 1] = f[i - 1]
      BY <2>5
    <3>2. CASE i = n
      BY <2>5, <3>1, <3>2
    <3>3. CASE i # n
      <4>1. i \in 1..(n - 1) /\ i \in 0..(n - 1)
        BY <3>3
      <4> QED
        BY <2>1, <2>5, <3>1, <4>1
    <3> QED
      BY <3>2, <3>3
  <2>7. g[0] = a
    BY <2>1, <2>5
  <2>8. Good(n, g)
    BY <2>6, <2>7
  <2> HIDE DEF Good
  <2> QED
    BY <2>4, <2>8
<1>3. N \in P
  <2>1. P \in SUBSET Nat
    OBVIOUS
  <2> HIDE DEF P
  <2>2. 0..N \subseteq P
    BY <1>1, <1>2, <2>1, InductionUpTo
  <2> QED
    BY <2>2
<1>4. PICK f \in [0..N -> S] : Good(N, f)
  BY <1>3
<1>5. f = [i \in 0..N |-> IF i = 0 THEN a ELSE step[<<f[i - 1], i>>]]
  BY <1>4
<1> QED
  BY <1>5 DEF Carries

-----------------------------------------------------------------------------
LEMMA PlaceFacts ==
  ASSUME NEW page \in Seq(Id), NEW c \in ToSet(page)
  PROVE  Place(c, page) \in 1..Len(page) /\ page[Place(c, page)] = c
  BY DEF ToSet, Place

\* Flow adds the widths of the containers before c.
LEMMA FlowFacts ==
  ASSUME NEW page \in Seq(Id), NEW w \in [Id -> Int], NEW c \in ToSet(page)
  PROVE  \E end \in [0..Len(page) -> Int] :
           /\ end[0] = 0
           /\ \A i \in 1..Len(page) : end[i] = end[i - 1] + w[page[i]]
           /\ Flow(c, page, w) = end[Place(c, page) - 1]
<1> DEFINE N == Len(page)
           step == [x \in Int \X (1..N) |-> x[1] + w[page[x[2]]]]
           end[i \in 0..N] == IF i = 0 THEN 0 ELSE end[i - 1] + w[page[i]]
<1>0. N \in Nat /\ \A i \in 1..N : page[i] \in Id /\ w[page[i]] \in Int
  OBVIOUS
<1>1. step \in [Int \X (1..N) -> Int]
  BY <1>0
<1>2. \A e \in Int : \A i \in 1..N : step[<<e, i>>] = e + w[page[i]]
  OBVIOUS
<1>3. PICK f \in [0..N -> Int] : Carries(f, N, 0, step)
  <2>1. 0 \in Int
    OBVIOUS
  <2> HIDE DEF step, N, end
  <2> QED
    BY <1>0, <1>1, <2>1, CarriedAlong
<1>4. f = [i \in 0..N |-> IF i = 0 THEN 0 ELSE f[i - 1] + w[page[i]]]
  <2> HIDE DEF step, N
  <2>1. \A i \in 0..N : i # 0 => i - 1 \in 0..N /\ i \in 1..N
    BY <1>0
  <2>2. \A i \in 0..N : i # 0 => step[<<f[i - 1], i>>] = f[i - 1] + w[page[i]]
    BY <1>2, <2>1
  <2> QED
    BY <1>3, <2>2 DEF Carries
<1>5. end = [i \in 0..N |-> IF i = 0 THEN 0 ELSE end[i - 1] + w[page[i]]]
  <2> HIDE DEF N
  <2> QED
    BY <1>4
<1>6. Flow(c, page, w) = end[Place(c, page) - 1]
  BY DEF Flow
<1> HIDE DEF end, N
<1>7. end[0] = 0 /\ \A i \in 1..N : end[i] = end[i - 1] + w[page[i]]
  <2>1. 0 \in 0..N /\ \A i \in 1..N : i \in 0..N /\ i # 0
    BY <1>0
  <2> QED
    BY <1>5, <2>1
<1>8. \A i \in 0..N : end[i] \in Int
  <2> DEFINE P == {i \in 0..N : end[i] \in Int}
  <2>1. P \in SUBSET Nat /\ 0 \in P
    BY <1>0, <1>7
  <2>2. \A i \in 1..N : i - 1 \in P => i \in P
    <3> TAKE i \in 1..N
    <3>1. i \in 0..N /\ i - 1 \in 0..N /\ end[i] = end[i - 1] + w[page[i]]
      BY <1>0, <1>7
    <3>2. w[page[i]] \in Int
      BY <1>0
    <3> QED
      BY <3>1, <3>2
  <2> HIDE DEF P
  <2>3. 0..N \subseteq P
    BY <1>0, <2>1, <2>2, InductionUpTo
  <2> QED
    BY <2>3 DEF P
<1>9. end \in [0..N -> Int]
  BY <1>5, <1>8
<1> QED
  BY <1>6, <1>7, <1>9 DEF N
-----------------------------------------------------------------------------
\* The pages in which no id is used twice.
Pages == {page \in Seq(Id) : IsInjective(page)}

LEMMA AppendOne ==
  ASSUME NEW page \in Pages, NEW c \in Id, c \notin ToSet(page)
  PROVE  /\ Append(page, c) \in Pages
         /\ ToSet(Append(page, c)) = ToSet(page) \cup {c}
         /\ Len(Append(page, c)) = Len(page) + 1
<1> DEFINE p == Append(page, c)
<1>1. /\ page \in Seq(Id) /\ Len(page) \in Nat /\ DOMAIN page = 1..Len(page)
      /\ \A i, j \in 1..Len(page) : page[i] = page[j] => i = j
      /\ \A i \in 1..Len(page) : page[i] # c
  BY DEF Pages, IsInjective, ToSet
<1>2. /\ p \in Seq(Id) /\ Len(p) = Len(page) + 1 /\ DOMAIN p = 1..(Len(page) + 1)
      /\ \A i \in 1..Len(page) : p[i] = page[i]
      /\ p[Len(page) + 1] = c
  BY <1>1, AppendProperties
<1> HIDE DEF p
<1>3. \A i, j \in DOMAIN p : p[i] = p[j] => i = j
  <2> TAKE i, j \in DOMAIN p
  <2>1. (i \in 1..Len(page) \/ i = Len(page) + 1) /\ (j \in 1..Len(page) \/ j = Len(page) + 1)
    BY <1>1, <1>2
  <2> QED
    BY <1>1, <1>2, <2>1
<1>4. ToSet(p) = ToSet(page) \cup {c}
  <2>1. \A i \in DOMAIN p : p[i] \in ToSet(page) \cup {c}
    BY <1>1, <1>2 DEF ToSet
  <2>2. \A i \in DOMAIN page : page[i] \in ToSet(p)
    <3> TAKE i \in DOMAIN page
    <3>1. i \in DOMAIN p /\ p[i] = page[i]
      BY <1>1, <1>2
    <3> QED
      BY <3>1 DEF ToSet
  <2>3. c \in ToSet(p)
    BY <1>1, <1>2 DEF ToSet
  <2> QED
    BY <2>1, <2>2, <2>3 DEF ToSet
<1>5. p \in Pages
  BY <1>2, <1>3 DEF Pages, IsInjective
<1> QED
  BY <1>2, <1>4, <1>5 DEF p

\* What is opened comes to the page, once, and nothing leaves it.
LEMMA AppendedFacts ==
  ASSUME order \in Pages, NEW ids \in Seq(Id)
  PROVE  /\ Appended(ids) \in Pages
         /\ ToSet(Appended(ids)) = Opened \cup ToSet(ids)
         /\ Len(order) <= Len(Appended(ids))
<1> DEFINE N == Len(ids)
           with(p, i) == IF ids[i] \in ToSet(p) THEN p ELSE Append(p, ids[i])
           step == [x \in Pages \X (1..N) |-> with(x[1], x[2])]
           page[i \in 0..N] == IF i = 0 THEN order
                               ELSE IF ids[i] \in ToSet(page[i - 1]) THEN page[i - 1]
                                    ELSE Append(page[i - 1], ids[i])
           upTo(i) == {ids[j] : j \in 1..i}
<1>0. N \in Nat /\ \A i \in 1..N : ids[i] \in Id
  OBVIOUS
<1>1. ASSUME NEW p \in Pages, NEW i \in 1..N
      PROVE  /\ with(p, i) \in Pages
             /\ ToSet(with(p, i)) = ToSet(p) \cup {ids[i]}
             /\ Len(p) <= Len(with(p, i)) /\ Len(with(p, i)) \in Nat
  <2>1. ids[i] \in Id /\ Len(p) \in Nat
    BY <1>0 DEF Pages
  <2>2. CASE ids[i] \in ToSet(p)
    BY <2>1, <2>2
  <2>3. CASE ids[i] \notin ToSet(p)
    BY <2>1, <2>3, AppendOne
  <2> QED
    BY <2>2, <2>3
<1> HIDE DEF with
<1>2. step \in [Pages \X (1..N) -> Pages]
  BY <1>1
<1>3. \A p \in Pages : \A i \in 1..N : step[<<p, i>>] = with(p, i)
  OBVIOUS
<1> HIDE DEF step, N, page
<1>4. PICK f \in [0..N -> Pages] : Carries(f, N, order, step)
  BY <1>0, <1>2, CarriedAlong
<1>5. f = [i \in 0..N |-> IF i = 0 THEN order
                          ELSE IF ids[i] \in ToSet(f[i - 1]) THEN f[i - 1]
                               ELSE Append(f[i - 1], ids[i])]
  <2>1. \A i \in 0..N : i # 0 => i - 1 \in 0..N /\ i \in 1..N
    BY <1>0
  <2>2. \A i \in 0..N : i # 0 => step[<<f[i - 1], i>>] = with(f[i - 1], i)
    BY <1>3, <2>1
  <2> QED
    BY <1>4, <2>2 DEF Carries, with
<1>6. page = [i \in 0..N |-> IF i = 0 THEN order
                             ELSE IF ids[i] \in ToSet(page[i - 1]) THEN page[i - 1]
                                  ELSE Append(page[i - 1], ids[i])]
  <2> USE DEF page
  <2> QED
    BY <1>5
<1>7. page[0] = order /\ \A i \in 1..N : page[i] = with(page[i - 1], i)
  <2>1. 0 \in 0..N /\ \A i \in 1..N : i \in 0..N /\ i # 0
    BY <1>0
  <2> QED
    BY <1>6, <2>1 DEF with
<1>8. Appended(ids) = page[N]
  BY DEF Appended, page, N
<1> DEFINE P == {i \in 0..N : /\ page[i] \in Pages
                              /\ ToSet(page[i]) = Opened \cup upTo(i)
                              /\ Len(order) <= Len(page[i])}
<1>9. 0 \in P
  <2>1. Len(order) \in Nat
    BY DEF Pages
  <2> QED
    BY <1>0, <1>7, <2>1 DEF Opened
<1>10. ASSUME NEW i \in 1..N, i - 1 \in P PROVE i \in P
  <2>1. upTo(i) = upTo(i - 1) \cup {ids[i]}
    BY <1>0
  <2>2. page[i - 1] \in Pages /\ page[i] = with(page[i - 1], i)
    BY <1>7, <1>10
  <2>3. /\ page[i] \in Pages /\ ToSet(page[i]) = ToSet(page[i - 1]) \cup {ids[i]}
        /\ Len(page[i - 1]) <= Len(page[i]) /\ Len(page[i]) \in Nat
    BY <1>1, <2>2
  <2>4. Len(order) \in Nat /\ Len(page[i - 1]) \in Nat
    BY <2>2 DEF Pages
  <2> QED
    BY <1>0, <1>10, <2>1, <2>3, <2>4
<1>11. N \in P
  <2>1. P \in SUBSET Nat
    BY <1>0
  <2> HIDE DEF P
  <2>2. 0..N \subseteq P
    BY <1>0, <1>9, <1>10, <2>1, InductionUpTo
  <2> QED
    BY <1>0, <2>2
<1>12. upTo(N) = ToSet(ids)
  BY DEF ToSet, N
<1> QED
  BY <1>8, <1>11, <1>12
\* What RemoveAt leaves.
LEMMA RemoveAtProperties ==
  ASSUME NEW S, NEW q \in Seq(S), NEW i \in 1..Len(q),
         NEW e, e = RemoveAt(q, i)
  PROVE  /\ e \in Seq(S)
         /\ Len(e) = Len(q) - 1
         /\ \A j \in 1..Len(q) - 1 : e[j] = IF j < i THEN q[j] ELSE q[j + 1]
<1> DEFINE L == Len(q)
           before == SubSeq(q, 1, i - 1)
           after == SubSeq(q, i + 1, L)
<1>1. L \in Nat /\ i \in 1..L /\ \A j \in 1..L : q[j] \in S
  OBVIOUS
<1>2. /\ before \in Seq(S) /\ Len(before) = i - 1
      /\ \A j \in 1..i - 1 : before[j] = q[j]
  BY <1>1, SubSeqProperties
<1>3. /\ after \in Seq(S) /\ Len(after) = L - i
      /\ \A j \in 1..L - i : after[j] = q[i + j]
  BY <1>1, SubSeqProperties
<1> HIDE DEF before, after
<1>4. /\ before \o after \in Seq(S)
      /\ Len(before \o after) = Len(before) + Len(after)
      /\ \A j \in 1..Len(before) + Len(after) : (before \o after)[j] =
            IF j <= Len(before) THEN before[j] ELSE after[j - Len(before)]
  BY <1>2, <1>3, ConcatProperties
<1> HIDE DEF L
<1>5. ASSUME NEW j \in 1..L - 1
      PROVE  (before \o after)[j] = IF j < i THEN q[j] ELSE q[j + 1]
  <2>1. CASE j < i
    BY <1>1, <1>2, <1>3, <1>4, <2>1
  <2>2. CASE ~ (j < i)
    <3>1. j - (i - 1) \in 1..L - i /\ i + (j - (i - 1)) = j + 1
      BY <1>1, <2>2
    <3>2. QED
      BY <1>1, <1>2, <1>3, <1>4, <2>2, <3>1
  <2>3. QED
    BY <2>1, <2>2
<1>6. e = before \o after
  BY DEF RemoveAt, before, after, L
<1>7. Len(e) = L - 1 /\ e \in Seq(S)
  <2>1. Len(before) + Len(after) = L - 1
    BY <1>1, <1>2, <1>3
  <2>2. QED
    BY <1>4, <1>6, <2>1
<1>8. QED
  BY <1>5, <1>6, <1>7 DEF L

\* Closing takes one container out of the page and leaves the others.
LEMMA RemovedFacts ==
  ASSUME order \in Pages, NEW c \in Opened
  PROVE  /\ RemoveAt(order, Place(c, order)) \in Pages
         /\ ToSet(RemoveAt(order, Place(c, order))) = Opened \ {c}
<1> DEFINE L == Len(order)
           n == Place(c, order)
           left == RemoveAt(order, n)
<1>1. /\ order \in Seq(Id) /\ L \in Nat /\ DOMAIN order = 1..L
      /\ \A i, j \in 1..L : order[i] = order[j] => i = j
      /\ n \in 1..L /\ order[n] = c
  BY PlaceFacts DEF Pages, IsInjective, Opened
<1> HIDE DEF n
<1>2. /\ left \in Seq(Id) /\ Len(left) = L - 1
      /\ \A i \in 1..L - 1 : left[i] = IF i < n THEN order[i] ELSE order[i + 1]
  <2>1. order \in Seq(Id) /\ n \in 1..Len(order) /\ left = RemoveAt(order, n)
    BY <1>1
  <2> HIDE DEF left
  <2> QED
    BY <2>1, RemoveAtProperties
<1> HIDE DEF left
<1>3. DOMAIN left = 1..L - 1
  BY <1>1, <1>2
<1>4. \A i \in 1..L - 1 : /\ left[i] = order[IF i < n THEN i ELSE i + 1]
                          /\ (IF i < n THEN i ELSE i + 1) \in 1..L
  BY <1>1, <1>2
<1>5. ASSUME NEW i \in 1..L - 1, NEW j \in 1..L - 1, left[i] = left[j] PROVE i = j
  <2>1. (IF i < n THEN i ELSE i + 1) = (IF j < n THEN j ELSE j + 1)
    BY <1>1, <1>4, <1>5
  <2> QED
    BY <1>1, <2>1
<1>6. ToSet(left) = Opened \ {c}
  <2>1. ASSUME NEW i \in 1..L - 1 PROVE left[i] \in Opened \ {c}
    <3> DEFINE k == IF i < n THEN i ELSE i + 1
    <3>1. k \in 1..L /\ k # n /\ left[i] = order[k]
      BY <1>1, <1>4
    <3> HIDE DEF k
    <3> QED
      BY <1>1, <3>1 DEF Opened, ToSet
  <2>2. ASSUME NEW k \in 1..L, k # n PROVE order[k] \in ToSet(left)
    <3> DEFINE i == IF k < n THEN k ELSE k - 1
    <3>1. i \in 1..L - 1 /\ (IF i < n THEN i ELSE i + 1) = k
      BY <1>1, <2>2
    <3> HIDE DEF i
    <3>2. left[i] = order[k] /\ i \in DOMAIN left
      BY <1>3, <1>4, <3>1
    <3> QED
      BY <3>2 DEF ToSet
  <2> QED
    BY <1>1, <1>3, <2>1, <2>2 DEF ToSet, Opened
<1>7. left \in Pages
  BY <1>2, <1>3, <1>5 DEF Pages, IsInjective
<1> QED
  BY <1>6, <1>7 DEF left, n
-----------------------------------------------------------------------------
\* A layout is saved from a page without duplicates.
SavedOnce == IsInjective(SavedIds)

\* A div that is not in the page will be made movable, even under the lock,
\* which only disables those that are in the page when it is set.
ClosedMovable ==
  \A c \in Id : ~ layoutLocked \/ c \notin Opened => div[c].movable

LayoutInv == LayoutTypeOK /\ SavedOnce /\ ClosedMovable

LEMMA LayoutTypes ==
  ASSUME LayoutTypeOK
  PROVE  /\ order \in Pages
         /\ Widths \in [Id -> Int]
         /\ \A c \in Id : Width(c) \in Loading..Content
         /\ SavedIds \in Seq(Id) /\ Len(SavedIds) = Len(saved)
         /\ DOMAIN SavedIds = DOMAIN saved /\ DOMAIN saved = 1..Len(saved)
         /\ \A i \in DOMAIN saved : SavedIds[i] = saved[i].id /\ saved[i] \in Layout
<1>1. order \in Pages
  BY DEF LayoutTypeOK, Pages
<1>2. ASSUME NEW c \in Id PROVE Width(c) \in Loading..Content
  BY DEF Width, Loading, Content, LayoutTypeOK, Div
<1>3. Widths \in [Id -> Int]
  BY <1>2 DEF Widths, Loading, Content
<1>4. /\ \A i \in DOMAIN saved : saved[i] \in Layout
      /\ DOMAIN saved = 1..Len(saved) /\ Len(saved) \in Nat
  BY DEF LayoutTypeOK
<1>5. SavedIds \in Seq(Id) /\ Len(SavedIds) = Len(saved)
  BY <1>4 DEF SavedIds, Layout
<1> QED
  BY <1>1, <1>2, <1>3, <1>4, <1>5 DEF SavedIds

LEMMA FlowType ==
  ASSUME NEW page \in Seq(Id), NEW w \in [Id -> Int], NEW c \in ToSet(page)
  PROVE  Flow(c, page, w) \in Int
<1>1. PICK end \in [0..Len(page) -> Int] : Flow(c, page, w) = end[Place(c, page) - 1]
  BY FlowFacts
<1> QED
  BY <1>1, PlaceFacts

LEMMA InitLayout == Init => LayoutInv
<1> SUFFICES ASSUME Init PROVE LayoutInv
  OBVIOUS
<1>1. NewDiv \in Div /\ NewDiv.movable
  BY DEF NewDiv, Div, Content
<1>2. order = << >> /\ saved = << >>
  BY DEF Init
<1>3. IsInjective(order) /\ SavedOnce
  BY <1>2 DEF IsInjective, SavedOnce, SavedIds
<1>4. order \in Seq(Id) /\ saved \in Seq(Layout)
  BY <1>2
<1>5. LayoutTypeOK
  BY <1>1, <1>3, <1>4 DEF Init, LayoutTypeOK
<1>6. ClosedMovable
  BY <1>1 DEF Init, ClosedMovable
<1> QED
  BY <1>3, <1>5, <1>6 DEF LayoutInv

\* What Create does to the page, for both of its callers.
LEMMA CreateFacts ==
  ASSUME LayoutTypeOK, NEW ids \in Seq(Id), Create(ids)
  PROVE  /\ order' \in Seq(Id) /\ IsInjective(order')
         /\ Opened' = Opened \cup ToSet(ids)
         /\ timed' \subseteq Id /\ created' \in Nat
<1>1. order \in Pages /\ order' = Appended(ids)
  BY LayoutTypes DEF Create
<1>2. /\ order' \in Pages /\ ToSet(order') = Opened \cup ToSet(ids)
      /\ Len(order) <= Len(order')
  BY <1>1, AppendedFacts
<1>3. order' \in Seq(Id) /\ Len(order) \in Nat /\ Len(order') \in Nat
  BY <1>1, <1>2 DEF Pages
<1>4. ToSet(order') \subseteq Id
  BY <1>3 DEF ToSet
<1> QED
  BY <1>2, <1>3, <1>4 DEF Create, Opened, LayoutTypeOK, Pages

LEMMA OpenStep ==
  ASSUME LayoutInv, NEW item \in Menu, OpenFromMenu(item)
  PROVE  LayoutInv'
<1> USE DEF LayoutInv
<1>1. item \in Seq(Id)
  <2>1. "Cam" \in Id /\ "AC_BE" \in Id /\ "AC_VI" \in Id
    BY DEF Id
  <2>2. <<"Cam">> \in Seq(Id) /\ <<"AC_BE", "AC_VI">> \in Seq(Id)
    BY <2>1
  <2> QED
    BY <2>2 DEF Menu
<1>2. /\ order' \in Seq(Id) /\ IsInjective(order') /\ Opened \subseteq Opened'
      /\ timed' \subseteq Id /\ created' \in Nat
  BY <1>1, CreateFacts DEF OpenFromMenu
<1>3. LayoutTypeOK'
  BY <1>2 DEF OpenFromMenu, LayoutTypeOK
<1>4. SavedOnce' /\ ClosedMovable'
  BY <1>2 DEF OpenFromMenu, SavedOnce, SavedIds, ClosedMovable
<1> QED
  BY <1>3, <1>4

LEMMA CloseStep ==
  ASSUME LayoutInv, NEW c \in Id, Close(c)
  PROVE  LayoutInv'
<1> USE DEF LayoutInv
<1>1. order' \in Pages /\ Opened' = Opened \ {c}
  BY LayoutTypes, RemovedFacts DEF Close, Opened
<1>2. NewDiv \in Div /\ NewDiv.movable
  BY DEF NewDiv, Div, Content
<1>3. div' = [div EXCEPT ![c] = NewDiv] /\ div \in [Id -> Div]
  BY DEF Close, LayoutTypeOK
<1>4. LayoutTypeOK'
  BY <1>1, <1>2, <1>3 DEF Close, LayoutTypeOK, Pages
<1>5. ClosedMovable'
  BY <1>1, <1>2, <1>3 DEF Close, ClosedMovable
<1>6. SavedOnce'
  BY DEF Close, SavedOnce, SavedIds
<1> QED
  BY <1>4, <1>5, <1>6

LEMMA MoveStep ==
  ASSUME LayoutInv, NEW c \in Id,
         \/ \E x \in 0..MaxLeft : Drag(c, x)
         \/ \E w \in Loading..Content : Resize(c, w)
  PROVE  LayoutInv'
<1> USE DEF LayoutInv
<1>1. div \in [Id -> Div] /\ div[c].movable /\ moves' = moves + 1
  BY DEF Drag, Resize, LayoutTypeOK
<1>2. ASSUME NEW x \in 0..MaxLeft, Drag(c, x)
      PROVE  \E d \in Div : div' = [div EXCEPT ![c] = d] /\ d.movable
  <2> DEFINE rel == x - Flow(c, order, Widths)
             d == [div[c] EXCEPT !.rel = rel]
  <2>1. rel \in Int
    <3>1. order \in Seq(Id) /\ c \in ToSet(order) /\ x \in Int
      BY <1>2, LayoutAssumption DEF Drag, Opened, LayoutTypeOK
    <3>2. Flow(c, order, Widths) \in Int
      BY <3>1, LayoutTypes, FlowType
    <3> QED
      BY <3>1, <3>2
  <2>2. div' = [div EXCEPT ![c] = d]
    BY <1>2 DEF Drag
  <2> HIDE DEF rel
  <2>3. d \in Div /\ d.movable
    BY <1>1, <2>1 DEF Div
  <2> QED
    BY <2>2, <2>3
<1>3. ASSUME NEW w \in Loading..Content, Resize(c, w)
      PROVE  \E d \in Div : div' = [div EXCEPT ![c] = d] /\ d.movable
  <2> DEFINE d == [div[c] EXCEPT !.size = w]
  <2>1. div' = [div EXCEPT ![c] = d]
    BY <1>3 DEF Resize
  <2>2. d \in Div /\ d.movable
    BY <1>1 DEF Div, Loading, Content
  <2> QED
    BY <2>1, <2>2
<1>4. PICK d \in Div : div' = [div EXCEPT ![c] = d] /\ d.movable
  BY <1>2, <1>3
<1>5. /\ UNCHANGED <<order, layoutLocked, saved, timed, asked, ready, created>>
      /\ moves' \in Nat
  BY DEF Drag, Resize, LayoutTypeOK
<1>6. LayoutTypeOK'
  BY <1>1, <1>4, <1>5 DEF LayoutTypeOK
<1>7. SavedOnce' /\ ClosedMovable'
  BY <1>1, <1>4, <1>5 DEF SavedOnce, SavedIds, ClosedMovable, Opened
<1> QED
  BY <1>6, <1>7
LEMMA LockStep ==
  ASSUME LayoutInv, ToggleLayoutLock
  PROVE  LayoutInv'
<1> USE DEF LayoutInv
<1>1. layoutLocked \in BOOLEAN /\ div \in [Id -> Div]
  BY DEF LayoutTypeOK
<1>2. \A d \in Div : [d EXCEPT !.movable = layoutLocked] \in Div
  BY <1>1 DEF Div
<1>3. /\ div' = [c \in Id |-> IF c \in Opened
                              THEN [div[c] EXCEPT !.movable = layoutLocked] ELSE div[c]]
      /\ layoutLocked' = ~ layoutLocked
      /\ UNCHANGED <<order, saved, timed, asked, ready, created, moves>>
  BY DEF ToggleLayoutLock
<1>4. div' \in [Id -> Div]
  BY <1>1, <1>2, <1>3
<1>5. LayoutTypeOK'
  BY <1>1, <1>3, <1>4 DEF LayoutTypeOK
<1>6. \A c \in Id : (c \in Opened /\ div'[c].movable = layoutLocked)
                    \/ (c \notin Opened /\ div'[c] = div[c])
  BY <1>1, <1>3 DEF Div
<1>7. ClosedMovable' /\ SavedOnce'
  BY <1>1, <1>3, <1>6 DEF ClosedMovable, Opened, SavedOnce, SavedIds
<1> QED
  BY <1>5, <1>7

LEMMA SaveStep ==
  ASSUME LayoutInv, SaveLayout
  PROVE  LayoutInv'
<1> USE DEF LayoutInv
<1> DEFINE entry(i) == [id |-> order[i], left |-> Left(order[i]), width |-> Width(order[i])]
<1>1. /\ order \in Seq(Id) /\ IsInjective(order) /\ Len(order) \in Nat
      /\ DOMAIN order = 1..Len(order)
      /\ saved' = [i \in DOMAIN order |-> entry(i)]
      /\ UNCHANGED <<order, div, layoutLocked, timed, asked, ready, created, moves>>
  BY DEF SaveLayout, LayoutTypeOK
<1>2. ASSUME NEW i \in DOMAIN order PROVE entry(i) \in Layout
  <2>1. order[i] \in Id /\ order[i] \in ToSet(order)
    BY <1>1 DEF ToSet
  <2>2. Flow(order[i], order, Widths) \in Int
    BY <1>1, <2>1, LayoutTypes, FlowType
  <2>3. Left(order[i]) \in Int
    BY <2>1, <2>2 DEF Left, LayoutTypeOK, Div
  <2>4. Width(order[i]) \in Loading..Content
    BY <2>1, LayoutTypes
  <2> QED
    BY <2>1, <2>3, <2>4 DEF Layout
<1>3. \A i \in DOMAIN order : entry(i).id = order[i]
  OBVIOUS
<1> HIDE DEF entry
<1>4. saved' \in Seq(Layout) /\ DOMAIN saved' = DOMAIN order
  BY <1>1, <1>2
<1>5. \A i \in DOMAIN order : saved'[i].id = order[i]
  BY <1>1, <1>3
<1>6. SavedOnce'
  BY <1>1, <1>4, <1>5 DEF SavedOnce, SavedIds, IsInjective
<1>7. LayoutTypeOK' /\ ClosedMovable'
  BY <1>1, <1>4 DEF LayoutTypeOK, ClosedMovable, Opened
<1> QED
  BY <1>6, <1>7

LEMMA ReloadStep ==
  ASSUME LayoutInv, Reload
  PROVE  LayoutInv'
<1> USE DEF LayoutInv
<1>1. NewDiv \in Div /\ NewDiv.movable
  BY DEF NewDiv, Div, Content
<1>2. order' = << >> /\ div' = [c \in Id |-> NewDiv]
  BY DEF Reload
<1>3. order' \in Seq(Id) /\ IsInjective(order')
  BY <1>2 DEF IsInjective
<1>4. LayoutTypeOK'
  BY <1>1, <1>2, <1>3 DEF Reload, LayoutTypeOK
<1>5. ClosedMovable' /\ SavedOnce'
  BY <1>1, <1>2 DEF Reload, ClosedMovable, SavedOnce, SavedIds
<1> QED
  BY <1>4, <1>5

LEMMA FillStep ==
  ASSUME LayoutInv, \/ \E c \in Id : Tick(c) \/ Answer(c)
                    \/ OwnCamComes \/ DccInfoChanges \/ UNCHANGED vars
  PROVE  LayoutInv'
<1> USE DEF LayoutInv
<1>1. ASSUME NEW c \in Id
      PROVE  /\ SetTable(c) \in [Id -> Div]
             /\ \A d \in Id : SetTable(c)[d].movable = div[d].movable
  BY DEF SetTable, LayoutTypeOK, Div
<1>2. /\ div' \in [Id -> Div] /\ \A d \in Id : div'[d].movable = div[d].movable
      /\ UNCHANGED <<order, layoutLocked, saved, timed, created, moves>>
      /\ asked' \subseteq Remote /\ ready' \subseteq {"camData", "dccInfo"}
  <2>1. ASSUME NEW c \in Id, Tick(c) PROVE <1>2
    BY <1>1, <2>1 DEF Tick, LayoutTypeOK, Remote
  <2>2. ASSUME NEW c \in Id, Answer(c) PROVE <1>2
    BY <1>1, <2>2 DEF Answer, LayoutTypeOK
  <2>3. CASE OwnCamComes \/ DccInfoChanges \/ UNCHANGED vars
    BY <2>3 DEF OwnCamComes, DccInfoChanges, SymDiff, vars, LayoutTypeOK
  <2> QED
    BY <2>1, <2>2, <2>3
<1>3. LayoutTypeOK' /\ ClosedMovable' /\ SavedOnce'
  BY <1>2 DEF LayoutTypeOK, ClosedMovable, Opened, SavedOnce, SavedIds
<1> QED
  BY <1>3
-----------------------------------------------------------------------------
\* The widths while entry i of the saved layout is applied.
WidthsAt(i) ==
  [d \in Id |-> IF \E j \in 1..(i - 1) : saved[j].id = d
                THEN saved[Place(d, SavedIds)].width ELSE Width(d)]

\* An id is found in the saved layout, or on a page, where it was put.
LEMMA FoundAgain ==
  ASSUME NEW page \in Pages, NEW i \in DOMAIN page
  PROVE  page[i] \in ToSet(page) /\ Place(page[i], page) = i
<1>1. page[i] \in ToSet(page) /\ page \in Seq(Id)
  BY DEF ToSet, Pages
<1>2. Place(page[i], page) \in 1..Len(page) /\ page[Place(page[i], page)] = page[i]
  BY <1>1, PlaceFacts
<1> QED
  BY <1>1, <1>2 DEF Pages, IsInjective

LEMMA SavedFound ==
  ASSUME LayoutInv
  PROVE  /\ ToSet(SavedIds) = {saved[i].id : i \in DOMAIN saved}
         /\ \A i \in DOMAIN saved : Place(saved[i].id, SavedIds) = i
<1>1. SavedIds \in Pages
  BY LayoutTypes DEF LayoutInv, SavedOnce, Pages
<1>2. DOMAIN SavedIds = DOMAIN saved /\ \A i \in DOMAIN saved : SavedIds[i] = saved[i].id
  BY LayoutTypes DEF LayoutInv
<1>3. ToSet(SavedIds) = {saved[i].id : i \in DOMAIN saved}
  BY <1>2 DEF ToSet
<1>4. ASSUME NEW i \in DOMAIN saved PROVE Place(saved[i].id, SavedIds) = i
  BY <1>1, <1>2, FoundAgain
<1> QED
  BY <1>3, <1>4

LEMMA WidthsAtType ==
  ASSUME LayoutInv, NEW i \in DOMAIN saved
  PROVE  WidthsAt(i) \in [Id -> Int]
<1>1. ASSUME NEW j \in 1..(i - 1)
      PROVE  saved[Place(saved[j].id, SavedIds)].width \in Int
  <2>1. j \in DOMAIN saved
    BY LayoutTypes DEF LayoutInv, LayoutTypeOK
  <2>2. saved[j].width \in Int
    BY <2>1, LayoutTypes DEF LayoutInv, Layout, Loading, Content
  <2> QED
    BY <2>1, <2>2, SavedFound
<1>2. \A d \in Id : Width(d) \in Int
  BY LayoutTypes DEF LayoutInv, Loading, Content
<1> QED
  BY <1>1, <1>2 DEF WidthsAt

LEMMA AppliedFacts ==
  ASSUME LayoutInv, NEW page \in Seq(Id), NEW i \in DOMAIN saved, saved[i].id \in ToSet(page)
  PROVE  /\ Applied(i, page) \in Div
         /\ Applied(i, page).rel = saved[i].left - Flow(saved[i].id, page, WidthsAt(i))
         /\ Applied(i, page).size = saved[i].width
         /\ Applied(i, page).movable = div[saved[i].id].movable
<1> DEFINE rel == saved[i].left - Flow(saved[i].id, page, WidthsAt(i))
<1>1. saved[i] \in Layout /\ div[saved[i].id] \in Div
  BY LayoutTypes DEF LayoutInv, LayoutTypeOK, Layout
<1>2. Flow(saved[i].id, page, WidthsAt(i)) \in Int
  BY WidthsAtType, FlowType
<1>3. rel \in Int /\ saved[i].width \in 0..Content
  BY <1>1, <1>2 DEF Layout, Loading, Content
<1>4. Applied(i, page) = [div[saved[i].id] EXCEPT !.rel = rel, !.size = saved[i].width]
  BY DEF Applied, WidthsAt
<1> HIDE DEF rel
<1>5. /\ Applied(i, page) \in Div /\ Applied(i, page).rel = rel
      /\ Applied(i, page).size = saved[i].width
      /\ Applied(i, page).movable = div[saved[i].id].movable
  BY <1>1, <1>3, <1>4 DEF Div
<1> QED
  BY <1>5 DEF rel

\* Entry i is applied to the container it names, the others keep their divs.
LEMMA LoadFacts ==
  ASSUME LayoutInv, LoadLayout
  PROVE  /\ order' \in Pages /\ Opened' = Opened \cup ToSet(SavedIds)
         /\ timed' \subseteq Id /\ created' \in Nat
         /\ DOMAIN div' = Id
         /\ \A c \in Id : c \notin ToSet(SavedIds) => div'[c] = div[c]
         /\ \A i \in DOMAIN saved : /\ saved[i].id \in ToSet(order')
                                    /\ div'[saved[i].id] = Applied(i, order')
<1>1. LayoutTypeOK /\ Create(SavedIds) /\ SavedIds \in Seq(Id)
  BY LayoutTypes DEF LayoutInv, LoadLayout
<1>2. /\ order' \in Pages /\ Opened' = Opened \cup ToSet(SavedIds)
      /\ timed' \subseteq Id /\ created' \in Nat
  BY <1>1, CreateFacts DEF Pages
<1>3. div' = [c \in Id |-> IF c \in ToSet(SavedIds)
                           THEN Applied(Place(c, SavedIds), order') ELSE div[c]]
  BY DEF LoadLayout
<1>4. ASSUME NEW i \in DOMAIN saved
      PROVE  saved[i].id \in ToSet(order') /\ div'[saved[i].id] = Applied(i, order')
  <2>1. saved[i].id \in Id /\ saved[i].id \in ToSet(SavedIds)
    BY <1>1, SavedFound, LayoutTypes DEF Layout
  <2> QED
    BY <1>2, <1>3, <2>1, SavedFound DEF Opened
<1> QED
  BY <1>2, <1>3, <1>4

LEMMA LoadStep ==
  ASSUME LayoutInv, LoadLayout
  PROVE  LayoutInv'
<1>1. UNCHANGED <<layoutLocked, saved, asked, ready, moves>>
  BY DEF LoadLayout
<1>2. ASSUME NEW c \in Id PROVE div'[c] \in Div /\ div'[c].movable = div[c].movable
  <2>1. CASE c \notin ToSet(SavedIds)
    BY <2>1, LoadFacts DEF LayoutInv, LayoutTypeOK
  <2>2. CASE c \in ToSet(SavedIds)
    <3>1. PICK i \in DOMAIN saved : c = saved[i].id
      BY <2>2, SavedFound
    <3>2. order' \in Seq(Id) /\ c \in ToSet(order') /\ div'[c] = Applied(i, order')
      BY <3>1, LoadFacts DEF Pages
    <3> QED
      BY <3>1, <3>2, AppliedFacts
  <2> QED
    BY <2>1, <2>2
<1>3. div' \in [Id -> Div]
  <2>1. div' = [c \in Id |-> div'[c]]
    BY DEF LoadLayout
  <2> QED
    BY <1>2, <2>1
<1>4. LayoutTypeOK'
  BY <1>1, <1>3, LoadFacts DEF LayoutInv, LayoutTypeOK, Pages
<1>5. SavedOnce' /\ ClosedMovable'
  BY <1>1, <1>2, LoadFacts DEF LayoutInv, SavedOnce, SavedIds, ClosedMovable
<1> QED
  BY <1>4, <1>5 DEF LayoutInv

LEMMA LayoutStep ==
  ASSUME LayoutInv, [Next]_vars
  PROVE  LayoutInv'
  BY OpenStep, CloseStep, MoveStep, LockStep, SaveStep, ReloadStep, FillStep, LoadStep
  DEF Next

LEMMA LayoutInvariant == Spec => []LayoutInv
<1>1. LayoutInv /\ [Next]_vars => LayoutInv'
  BY LayoutStep
<1> QED
  BY <1>1, InitLayout, PTL DEF Spec

\* No id is ever used by two divs, whatever is opened, closed, saved and loaded
\* (the tests for $("#id").length in layoutManager.js), and every variable of
\* the page keeps its type.
THEOREM LayoutTypeCorrect == Spec => []LayoutTypeOK
<1>1. LayoutInv => LayoutTypeOK
  BY DEF LayoutInv
<1> QED
  BY <1>1, LayoutInvariant, PTL

\* Unlocking the layout leaves no container behind: what was opened under the
\* lock is movable from the start, and what was locked is in the page still or
\* made anew (toggleLayoutLock, closeThisContainer).
THEOREM UnlockFreesAll == Spec => []UnlockedAllMovable
<1>1. LayoutInv => UnlockedAllMovable
  BY LayoutTypes DEF LayoutInv, ClosedMovable, UnlockedAllMovable, LayoutTypeOK, Opened, ToSet
<1> QED
  BY <1>1, LayoutInvariant, PTL
-----------------------------------------------------------------------------
\* Where c stands depends only on the widths of the containers before it.
LEMMA FlowSame ==
  ASSUME NEW page \in Seq(Id), NEW c \in ToSet(page),
         NEW w \in [Id -> Int], NEW v \in [Id -> Int],
         \A j \in 1..(Place(c, page) - 1) : w[page[j]] = v[page[j]]
  PROVE  Flow(c, page, w) = Flow(c, page, v)
<1> DEFINE L == Len(page)
           n == Place(c, page) - 1
<1>1. L \in Nat /\ n \in 0..L /\ n \in Nat
  BY PlaceFacts
<1>2. PICK e \in [0..L -> Int] :
           /\ e[0] = 0
           /\ \A i \in 1..L : e[i] = e[i - 1] + w[page[i]]
           /\ Flow(c, page, w) = e[n]
  BY FlowFacts
<1>3. PICK f \in [0..L -> Int] :
           /\ f[0] = 0
           /\ \A i \in 1..L : f[i] = f[i - 1] + v[page[i]]
           /\ Flow(c, page, v) = f[n]
  BY FlowFacts
<1> DEFINE P == {i \in 0..L : e[i] = f[i]}
<1>4. P \in SUBSET Nat /\ 0 \in P
  BY <1>1, <1>2, <1>3
<1>5. \A j \in 1..n : w[page[j]] = v[page[j]]
  OBVIOUS
<1> HIDE DEF L, n
<1>6. ASSUME NEW i \in 1..n, i - 1 \in P PROVE i \in P
  <2>1. i \in 1..L /\ i \in 0..L
    BY <1>1
  <2>2. e[i] = e[i - 1] + w[page[i]] /\ f[i] = f[i - 1] + v[page[i]]
    BY <1>2, <1>3, <2>1
  <2> QED
    BY <1>5, <1>6, <2>1, <2>2
<1> HIDE DEF P
<1>7. 0..n \subseteq P
  BY <1>1, <1>4, <1>6, InductionUpTo
<1>8. n \in P
  BY <1>1, <1>7
<1> QED
  BY <1>2, <1>3, <1>8 DEF P

\* The widths once the layout is loaded: those that were saved, and for the
\* containers that were not saved those they had.
LEMMA LoadedWidths ==
  ASSUME LayoutInv, LoadLayout
  PROVE  /\ Widths' \in [Id -> Int]
         /\ \A i \in DOMAIN saved : Width(saved[i].id)' = saved[i].width
         /\ \A c \in Id : c \notin ToSet(SavedIds) => Width(c)' = Width(c)
<1>1. ASSUME NEW i \in DOMAIN saved PROVE Width(saved[i].id)' = saved[i].width
  <2>1. div'[saved[i].id].size = saved[i].width
    BY LoadFacts, AppliedFacts DEF Pages
  <2>2. saved[i].width # 0 /\ saved' = saved
    BY LayoutTypes DEF LayoutInv, Layout, Loading, Content, LoadLayout
  <2> QED
    BY <2>1, <2>2 DEF Width
<1>2. ASSUME NEW c \in Id, c \notin ToSet(SavedIds) PROVE Width(c)' = Width(c)
  BY <1>2, LoadFacts DEF Width
<1>3. ASSUME NEW c \in Id PROVE Width(c)' \in Int
  <2>1. CASE c \notin ToSet(SavedIds)
    BY <1>2, <2>1, LayoutTypes DEF LayoutInv, Loading, Content
  <2>2. CASE c \in ToSet(SavedIds)
    <3>1. PICK i \in DOMAIN saved : c = saved[i].id
      BY <2>2, SavedFound
    <3>2. saved[i].width \in Int /\ c = saved'[i].id
      BY <3>1, LayoutTypes DEF LayoutInv, Layout, Loading, Content, LoadLayout
    <3>3. Width(saved[i].id)' = Width(c)'
      BY <3>2 DEF Width
    <3> QED
      BY <1>1, <3>2, <3>3
  <2> QED
    BY <2>1, <2>2
<1> QED
  BY <1>1, <1>2, <1>3 DEF Widths

\* Every entry is applied with the widths that count in the end for the
\* containers before it: an entry that is applied later, and changes its width,
\* stands behind it in the page, or has its width already.
LEMMA EntryRestored ==
  ASSUME LayoutInv, LoadLayout, InSavedOrder' \/ SavedSizes, NEW i \in DOMAIN saved
  PROVE  Left(saved[i].id)' = saved[i].left
<1> DEFINE c == saved[i].id
           page == order'
<1>1. /\ page \in Pages /\ page \in Seq(Id) /\ Len(page) \in Nat
      /\ c \in ToSet(page) /\ saved' = saved
      /\ \A d \in Id : d \notin ToSet(SavedIds) => div'[d] = div[d]
  BY LoadFacts DEF Pages, LoadLayout
<1>2. /\ i \in Nat /\ DOMAIN saved = 1..Len(saved) /\ Len(saved) \in Nat
      /\ \A k \in DOMAIN saved : saved[k] \in Layout
  BY LayoutTypes DEF LayoutInv, LayoutTypeOK
<1>3. ASSUME NEW j \in 1..(Place(c, page) - 1)
      PROVE  Widths'[page[j]] = WidthsAt(i)[page[j]]
  <2>1. Place(c, page) \in 1..Len(page)
    BY <1>1, PlaceFacts
  <2>2. j \in DOMAIN page /\ page[j] \in Id /\ Place(page[j], page) = j /\ j < Place(c, page)
    BY <1>1, <2>1, FoundAgain
  <2> PICK d \in Id : d = page[j]
    BY <2>2
  <2>3. Widths'[d] = Width(d)'
    BY DEF Widths
  <2>4. CASE d \notin ToSet(SavedIds)
    <3>1. Width(d)' = Width(d)
      BY <2>4, LoadedWidths
    <3>2. ~ \E k \in 1..(i - 1) : saved[k].id = d
      BY <1>2, <2>4, SavedFound
    <3> QED
      BY <2>3, <3>1, <3>2 DEF WidthsAt
  <2>5. CASE d \in ToSet(SavedIds)
    <3>1. PICK k \in DOMAIN saved : d = saved[k].id
      BY <2>5, SavedFound
    <3>2. Width(d)' = saved[k].width
      <4>1. Width(saved[k].id)' = saved[k].width
        BY LoadedWidths
      <4>2. d = saved'[k].id
        BY <1>1, <3>1
      <4> QED
        BY <4>1, <4>2 DEF Width
    <3>3. CASE k < i
      <4>1. k \in 1..(i - 1) /\ saved[Place(d, SavedIds)].width = saved[k].width
        BY <1>2, <3>1, <3>3, SavedFound
      <4> QED
        BY <2>2, <2>3, <3>1, <3>2, <4>1 DEF WidthsAt
    <3>4. CASE ~ (k < i)
      <4>1. k # i
        BY <2>1, <2>2, <3>1
      <4>2. ~ InSavedOrder'
        <5>1. i < k
          BY <1>2, <3>4, <4>1
        <5> QED
          BY <1>1, <2>1, <2>2, <3>1, <5>1 DEF InSavedOrder
      <4>3. Width(d) = saved[k].width
        BY <3>1, <4>2 DEF SavedSizes
      <4>4. ~ \E m \in 1..(i - 1) : saved[m].id = d
        BY <1>2, <3>1, <3>4, SavedFound
      <4> QED
        BY <2>2, <2>3, <3>2, <4>3, <4>4 DEF WidthsAt
    <3> QED
      BY <3>3, <3>4
  <2> QED
    BY <2>4, <2>5
<1>4. Flow(c, page, Widths') = Flow(c, page, WidthsAt(i)) /\ Flow(c, page, Widths') \in Int
  BY <1>1, <1>3, LoadedWidths, WidthsAtType, FlowSame, FlowType
<1>5. div'[c].rel = saved[i].left - Flow(c, page, WidthsAt(i))
  BY <1>1, LoadFacts, AppliedFacts
<1>6. Left(c)' = Flow(c, page, Widths') + div'[c].rel
  BY <1>1 DEF Left
<1>7. saved[i].left \in Int
  BY <1>2 DEF Layout
<1> QED
  BY <1>4, <1>5, <1>6, <1>7

\* A saved layout comes back exactly, on a fresh page and beside containers that
\* are open already, if its containers stand in the page as they were saved or
\* have their saved sizes (applyLayoutConfig, offset before css width).
THEOREM LayoutComesBack == Spec => LoadRestores
<1>1. ASSUME LayoutInv, LoadLayout, InSavedOrder' \/ SavedSizes PROVE Restored'
  <2>1. saved' = saved
    BY <1>1 DEF LoadLayout
  <2>2. ASSUME NEW i \in DOMAIN saved
        PROVE  (Left(saved[i].id) = saved[i].left /\ Width(saved[i].id) = saved[i].width)'
    BY <1>1, <2>1, <2>2, EntryRestored, LoadedWidths
  <2> QED
    BY <2>1, <2>2 DEF Restored
<1>2. LayoutInv /\ [Next]_vars => [LoadLayout => (InSavedOrder' \/ SavedSizes => Restored')]_vars
  BY <1>1
<1> QED
  BY <1>2, LayoutInvariant, PTL DEF Spec, LoadRestores

\* Loading twice is enough: whatever the first load leaves in the wrong place,
\* every container of the layout is in the page with its saved size then, which
\* is the second condition of LoadRestores (loadLayoutFromJSON).
THEOREM SecondLoadRestores == Spec => [][LoadLayout => SavedSizes']_vars
<1>1. ASSUME LayoutInv, LoadLayout PROVE SavedSizes'
  <2>1. saved' = saved
    BY <1>1 DEF LoadLayout
  <2>2. ASSUME NEW i \in DOMAIN saved
        PROVE  (saved[i].id \in Opened /\ Width(saved[i].id) = saved[i].width)'
    BY <1>1, <2>1, <2>2, LoadFacts, LoadedWidths DEF Opened
  <2> QED
    BY <2>1, <2>2 DEF SavedSizes
<1>2. LayoutInv /\ [Next]_vars => [LoadLayout => SavedSizes']_vars
  BY <1>1
<1> QED
  BY <1>2, LayoutInvariant, PTL DEF Spec
===============================================================================
