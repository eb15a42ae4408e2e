---------------------------- MODULE Timer_proofs ----------------------------
(***************************************************************************)
(* Proofs about the timers, for any handlers and threads, any bound on the *)
(* time and whichever of the two classes is used.                          *)
(***************************************************************************)
EXTENDS Timer, FiniteSetTheorems, SequenceTheorems, TLAPS

------------------------------------------------------------------------------
(* Sorted queues.                                                          *)

\* Times are numbers.
LEMMA TimeType == \A t \in Time : t \in Nat /\ t \in Int
BY TimeAssumption DEF Time

LEMMA QueueType ==
  ASSUME NEW s \in Seq(Time)
  PROVE  /\ DOMAIN s = 1..Len(s) /\ Len(s) \in Nat
         /\ \A i \in 1..Len(s) : s[i] \in Time /\ s[i] \in Int
<1>1. DOMAIN s = 1..Len(s) /\ Len(s) \in Nat /\ \A i \in 1..Len(s) : s[i] \in Time
  BY LenProperties, ElementOfSeq
<1>2. ASSUME NEW i \in 1..Len(s) PROVE s[i] \in Int
  <2>1. s[i] \in Time
    BY <1>1
  <2>. QED BY <2>1, TimeType
<1>. QED BY <1>1, <1>2

Sorted(s) == \A i, j \in DOMAIN s : i < j => s[i] < s[j]

\* The partition of a sorted queue: the times before t come first.
LEMMA Partition ==
  ASSUME NEW s \in Seq(Time), Sorted(s), NEW t \in Time
  PROVE  LET A == {i \in DOMAIN s : s[i] < t}
         IN  Cardinality(A) \in 0..Len(s) /\ A = 1..Cardinality(A)
<1>. DEFINE A == {i \in DOMAIN s : s[i] < t}
            k == Cardinality(A)
<1>0. DOMAIN s = 1..Len(s) /\ Len(s) \in Nat /\ \A i \in 1..Len(s) : s[i] \in Int
  BY QueueType
<1>1. IsFiniteSet(1..Len(s)) /\ Cardinality(1..Len(s)) = Len(s)
  BY <1>0, FS_Interval
<1>2. A \in SUBSET (1..Len(s))
  BY <1>0
<1>3. IsFiniteSet(A) /\ k \in Nat /\ k <= Len(s)
  BY <1>0, <1>1, <1>2, FS_Subset, FS_CardinalityType
<1>4. ASSUME NEW i \in A PROVE i \in 1..k
  <2>1. 1..i \in SUBSET A
    <3>. SUFFICES ASSUME NEW j \in 1..i, j # i PROVE j \in A
      BY <1>0
    <3>1. i \in 1..Len(s) /\ s[i] < t /\ t \in Int
      BY <1>0, TimeType
    <3>2. j \in 1..Len(s) /\ s[j] < s[i]
      BY <1>0, <3>1 DEF Sorted
    <3>. QED BY <1>0, <3>1, <3>2
  <2>2. Cardinality(1..i) = i
    BY <1>0, FS_Interval
  <2>3. i <= k
    BY <2>1, <2>2, <1>3, FS_Subset
  <2>. QED BY <2>3, <1>0, <1>3
<1>5. A \in SUBSET (1..k)
  BY <1>4
<1>6. IsFiniteSet(1..k) /\ Cardinality(1..k) = k
  BY <1>3, FS_Interval
<1>7. A = 1..k
  BY <1>5, <1>6, FS_Subset
<1>. QED BY <1>3, <1>7

\* submitHandler() keeps the queue sorted and adds one time to it.
LEMMA InsertSorted ==
  ASSUME NEW s \in Seq(Time), Sorted(s), NEW t \in Time, t \notin Range(s)
  PROVE  LET k == Cardinality({i \in DOMAIN s : s[i] < t})
             r == InsertAt(s, 1 + k, t)
         IN  /\ r \in Seq(Time) /\ Sorted(r)
             /\ Range(r) = Range(s) \cup {t}
             /\ Len(r) = Len(s) + 1
             /\ r[1] = IF s = <<>> \/ t < s[1] THEN t ELSE s[1]
<1>. DEFINE k == Cardinality({i \in DOMAIN s : s[i] < t})
            a == SubSeq(s, 1, k)
            b == SubSeq(s, 1 + k, Len(s))
            r == InsertAt(s, 1 + k, t)
<1>0. DOMAIN s = 1..Len(s) /\ Len(s) \in Nat /\ \A i \in 1..Len(s) : s[i] \in Time /\ s[i] \in Int
  BY QueueType
<1>1. k \in 0..Len(s) /\ \A i \in 1..Len(s) : s[i] < t <=> i <= k
  <2>1. k \in 0..Len(s) /\ {i \in DOMAIN s : s[i] < t} = 1..k
    BY Partition
  <2>. QED BY <2>1, <1>0
<1>. HIDE DEF k
<1>2. /\ a \in Seq(Time) /\ Len(a) = k
      /\ \A i \in 1..k : a[i] = s[i]
  BY <1>0, <1>1, SubSeqProperties
<1>3. /\ b \in Seq(Time) /\ Len(b) = Len(s) - k
      /\ \A i \in 1..Len(s) - k : b[i] = s[k + i]
  <2>1. 1 + k \in Int /\ Len(s) \in Int /\ \A i \in 1 + k..Len(s) : s[i] \in Time
    BY <1>0, <1>1
  <2>2. /\ b \in Seq(Time)
        /\ Len(b) = IF 1 + k <= Len(s) THEN Len(s) - (1 + k) + 1 ELSE 0
        /\ \A i \in 1..Len(s) - (1 + k) + 1 : b[i] = s[(1 + k) + i - 1]
    BY <2>1, SubSeqProperties
  <2>. HIDE DEF b
  <2>3. Len(b) = Len(s) - k /\ Len(s) - (1 + k) + 1 = Len(s) - k
    <3>1. k \in Int /\ k <= Len(s) /\ Len(s) \in Int
      BY <1>0, <1>1
    <3>2. Len(s) - (1 + k) + 1 = Len(s) - k
      BY <3>1
    <3>3. 1 + k <= Len(s) \/ Len(s) - k = 0
      BY <3>1
    <3>. QED BY <2>2, <3>2, <3>3
  <2>4. ASSUME NEW i \in 1..Len(s) - k PROVE b[i] = s[k + i]
    <3>1. (1 + k) + i - 1 = k + i
      BY <1>1
    <3>. QED BY <3>1, <2>2, <2>3
  <2>. QED BY <2>2, <2>3, <2>4
<1>4. r = a \o <<t>> \o b
  <2>1. (1 + k) - 1 = k
    BY <1>1
  <2>2. SubSeq(s, 1, (1 + k) - 1) = a
    BY <2>1
  <2>3. r = SubSeq(s, 1, (1 + k) - 1) \o <<t>> \o b
    BY Zenon DEF InsertAt
  <2>. QED BY <2>2, <2>3, Zenon
<1>. HIDE DEF a, b
<1>5. <<t>> \in Seq(Time) /\ Len(<<t>>) = 1 /\ <<t>>[1] = t
  OBVIOUS
<1>6. /\ a \o <<t>> \in Seq(Time) /\ Len(a \o <<t>>) = k + 1
      /\ \A i \in 1..k : (a \o <<t>>)[i] = s[i]
      /\ (a \o <<t>>)[k + 1] = t
  BY <1>1, <1>2, <1>5, ConcatProperties
<1>7. /\ r \in Seq(Time) /\ Len(r) = Len(s) + 1
      /\ \A i \in 1..Len(s) + 1 :
           r[i] = IF i <= k THEN s[i] ELSE IF i = k + 1 THEN t ELSE s[i - 1]
  <2>. DEFINE c == a \o <<t>>
  <2>. HIDE DEF c
  <2>1. /\ r \in Seq(Time) /\ Len(r) = Len(c) + Len(b)
        /\ \A i \in 1..Len(c) + Len(b) : r[i] = IF i <= Len(c) THEN c[i] ELSE b[i - Len(c)]
    <3>1. r = c \o b /\ c \in Seq(Time) /\ b \in Seq(Time)
      BY <1>3, <1>4, <1>6, Zenon DEF c
    <3>. HIDE DEF r
    <3>2. /\ c \o b \in Seq(Time) /\ Len(c \o b) = Len(c) + Len(b)
          /\ \A i \in 1..Len(c) + Len(b) :
               (c \o b)[i] = IF i <= Len(c) THEN c[i] ELSE b[i - Len(c)]
      BY <3>1, ConcatProperties
    <3>. QED BY <3>1, <3>2, Zenon
  <2>2. Len(c) = k + 1 /\ (\A i \in 1..k : c[i] = s[i]) /\ c[k + 1] = t
    BY <1>6 DEF c
  <2>. HIDE DEF r
  <2>3. Len(r) = Len(s) + 1
    BY <2>1, <2>2, <1>0, <1>1, <1>3
  <2>4. ASSUME NEW i \in 1..Len(s) + 1
        PROVE  r[i] = IF i <= k THEN s[i] ELSE IF i = k + 1 THEN t ELSE s[i - 1]
    <3>0. r[i] = IF i <= k + 1 THEN c[i] ELSE b[i - (k + 1)]
      BY <2>1, <2>2, <1>0, <1>1, <1>3
    <3>1. CASE i <= k + 1
      BY <3>0, <3>1, <2>2, <1>1
    <3>2. CASE i > k + 1
      <4>1. i - (k + 1) \in 1..Len(s) - k /\ k + (i - (k + 1)) = i - 1
        BY <3>2, <1>0, <1>1
      <4>. QED BY <4>1, <3>0, <3>2, <1>1, <1>3
    <3>. QED BY <3>1, <3>2, <1>1
  <2>. QED BY <2>1, <2>3, <2>4
<1>. HIDE DEF r
<1>8. \A i \in 1..Len(s) : s[i] # t
  BY <1>0 DEF Range
<1>9. \A i \in 1..Len(s) : (i <= k => s[i] < t) /\ (i > k => t < s[i])
  <2>1. t \in Int /\ \A i \in 1..Len(s) : s[i] \in Int
    BY <1>0, TimeType
  <2>. QED BY <1>0, <1>1, <1>8, <2>1
<1>10. Sorted(r)
  <2>. SUFFICES ASSUME NEW i \in 1..Len(s) + 1, NEW j \in 1..Len(s) + 1, i < j
                PROVE  r[i] < r[j]
    BY <1>7 DEF Sorted
  <2>0. k \in Nat /\ Len(s) \in Nat /\ t \in Int /\ \A h \in 1..Len(s) : s[h] \in Int
    BY <1>0, <1>1, TimeType
  <2>1. \A g, h \in 1..Len(s) : g < h => s[g] < s[h]
    BY <1>0 DEF Sorted
  <2>2. CASE j <= k
    <3>1. r[i] = s[i] /\ r[j] = s[j] /\ i \in 1..Len(s) /\ j \in 1..Len(s)
      BY <2>0, <2>2, <1>7, <1>1
    <3>. QED BY <3>1, <2>1
  <2>3. CASE j = k + 1
    BY <2>0, <2>3, <1>7, <1>9, <1>1
  <2>4. CASE j > k + 1 /\ i <= k
    <3>1. r[i] = s[i] /\ r[j] = s[j - 1] /\ i \in 1..Len(s) /\ j - 1 \in 1..Len(s) /\ i < j - 1
      BY <2>0, <2>4, <1>7, <1>1
    <3>. QED BY <3>1, <2>1
  <2>5. CASE j > k + 1 /\ i = k + 1
    <3>1. r[i] = t /\ r[j] = s[j - 1] /\ j - 1 \in 1..Len(s) /\ j - 1 > k
      BY <2>0, <2>5, <1>7, <1>1
    <3>. QED BY <3>1, <1>9
  <2>6. CASE i > k + 1
    <3>1. /\ r[i] = s[i - 1] /\ r[j] = s[j - 1] /\ i - 1 \in 1..Len(s)
          /\ j - 1 \in 1..Len(s) /\ i - 1 < j - 1
      BY <2>0, <2>6, <1>7, <1>1
    <3>. QED BY <3>1, <2>1
  <2>. QED BY <2>0, <2>2, <2>3, <2>4, <2>5, <2>6
<1>11. Range(r) = Range(s) \cup {t}
  <2>0. k \in Nat /\ DOMAIN r = 1..Len(s) + 1
    BY <1>1, <1>7
  <2>1. Range(r) \subseteq Range(s) \cup {t}
    <3>. SUFFICES ASSUME NEW i \in 1..Len(s) + 1 PROVE r[i] \in Range(s) \cup {t}
      BY <2>0 DEF Range
    <3>1. CASE i <= k
      <4>1. i \in DOMAIN s /\ r[i] = s[i]
        BY <3>1, <1>0, <1>1, <1>7
      <4>. QED BY <4>1 DEF Range
    <3>2. CASE i = k + 1
      BY <3>2, <1>1, <1>7
    <3>3. CASE i > k + 1
      <4>1. i - 1 \in DOMAIN s /\ r[i] = s[i - 1]
        BY <3>3, <1>0, <1>1, <1>7
      <4>. QED BY <4>1 DEF Range
    <3>. QED BY <2>0, <3>1, <3>2, <3>3
  <2>2. t \in Range(r)
    <3>1. k + 1 \in DOMAIN r /\ r[k + 1] = t
      BY <1>0, <1>1, <1>7, <2>0
    <3>. QED BY <3>1 DEF Range
  <2>3. ASSUME NEW i \in 1..Len(s) PROVE s[i] \in Range(r)
    <3>1. i <= k => r[i] = s[i]
      BY <1>7, <1>1
    <3>2. i > k => r[i + 1] = s[i]
      BY <1>7, <1>1
    <3>3. i \in DOMAIN r /\ i + 1 \in DOMAIN r
      BY <2>0, <1>0
    <3>. QED BY <3>1, <3>2, <3>3, <2>0 DEF Range
  <2>. QED BY <1>0, <2>1, <2>2, <2>3 DEF Range
<1>12. r[1] = IF s = <<>> \/ t < s[1] THEN t ELSE s[1]
  <2>1. s = <<>> <=> Len(s) = 0
    OBVIOUS
  <2>2. CASE Len(s) = 0
    BY <2>1, <2>2, <1>7, <1>1
  <2>3. CASE Len(s) # 0
    <3>1. 1 \in 1..Len(s) /\ s[1] \in Int /\ t \in Int
      BY <2>3, <1>0, TimeType
    <3>2. k = 0 <=> t < s[1]
      BY <3>1, <1>1, <1>8
    <3>. QED BY <2>1, <2>3, <3>1, <3>2, <1>7, <1>1
  <2>. QED BY <2>2, <2>3
<1>. QED BY <1>7, <1>10, <1>11, <1>12 DEF k, r

\* popAndInvokeHandlers() takes the earliest time out of it.
LEMMA TailSorted ==
  ASSUME NEW s \in Seq(Time), Sorted(s), s # <<>>
  PROVE  /\ Head(s) \in Time /\ Head(s) = s[1] /\ Head(s) \in Range(s)
         /\ Tail(s) \in Seq(Time) /\ Sorted(Tail(s))
         /\ Range(Tail(s)) = Range(s) \ {Head(s)}
         /\ \A u \in Range(Tail(s)) : Head(s) < u
<1>0. DOMAIN s = 1..Len(s) /\ Len(s) \in Nat /\ Len(s) > 0 /\ \A i \in 1..Len(s) : s[i] \in Int
  BY QueueType
<1>1. /\ Tail(s) \in Seq(Time) /\ Len(Tail(s)) = Len(s) - 1
      /\ \A i \in 1..Len(s) - 1 : Tail(s)[i] = s[i + 1]
  BY HeadTailProperties, <1>0
<1>2. Head(s) = s[1] /\ s[1] \in Time
  BY <1>0
<1>3. DOMAIN Tail(s) = 1..Len(s) - 1
  BY <1>0, <1>1
<1>. DEFINE r == Tail(s)
<1>. HIDE DEF r
<1>4. Sorted(r)
  BY <1>0, <1>1, <1>3 DEF Sorted, r
<1>5. \A u \in Range(r) : s[1] < u /\ u \in Range(s)
  BY <1>0, <1>1, <1>3 DEF Sorted, Range, r
<1>6. ASSUME NEW u \in Range(s), u # s[1] PROVE u \in Range(r)
  <2>1. PICK i \in 1..Len(s) : u = s[i]
    BY <1>0 DEF Range
  <2>2. i - 1 \in 1..Len(s) - 1 /\ r[i - 1] = u
    BY <2>1, <1>6, <1>0, <1>1 DEF r
  <2>. QED BY <2>2, <1>3 DEF Range, r
<1>7. \A u \in Range(r) : s[1] # u
  <2>1. \A u \in Range(r) : u \in Int
    BY <1>0, <1>1, <1>3 DEF Range, r
  <2>. QED BY <1>0, <1>5, <2>1
<1>8. s[1] \in Range(s)
  BY <1>0 DEF Range
<1>9. Range(r) = Range(s) \ {s[1]}
  BY <1>5, <1>6, <1>7
<1>. QED BY <1>1, <1>2, <1>4, <1>5, <1>8, <1>9 DEF r

------------------------------------------------------------------------------
(* The tables.                                                             *)

\* getNextTime() returns a time of the table, the first, or Time::max().
LEMMA FirstTimeType ==
  ASSUME timeQueue \in Seq(Time), QueueAgrees
  PROVE  /\ FirstTime \in Int /\ Never \in Int /\ \A t \in Time : t \in Int /\ t < Never
         /\ FirstTime \in Time \/ FirstTime = Never
         /\ timeQueue = <<>> <=> FirstTime = Never
         /\ timeQueue # <<>> => FirstTime = Head(timeQueue) /\ FirstTime \in DOMAIN map
         /\ \A t \in Time : t \in DOMAIN map => FirstTime <= t
<1>1. Never \in Int /\ \A t \in Time : t \in Int /\ t < Never
  BY TimeAssumption DEF Time, Never
<1>2. CASE timeQueue = <<>>
  <2>1. DOMAIN map = {}
    BY <1>2 DEF QueueAgrees, Range
  <2>. QED BY <1>1, <1>2, <2>1 DEF FirstTime
<1>3. CASE timeQueue # <<>>
  <2>1. /\ FirstTime = Head(timeQueue) /\ FirstTime \in Time
        /\ FirstTime \in Range(timeQueue)
        /\ Range(Tail(timeQueue)) = Range(timeQueue) \ {FirstTime}
        /\ \A u \in Range(Tail(timeQueue)) : FirstTime < u
    BY <1>3, TailSorted DEF QueueAgrees, Sorted, FirstTime
  <2>2. ASSUME NEW t \in Time, t \in DOMAIN map PROVE FirstTime <= t
    <3>1. t = FirstTime \/ t \in Range(Tail(timeQueue))
      BY <2>1, <2>2 DEF QueueAgrees
    <3>. QED BY <3>1, <2>1, <1>1
  <2>3. FirstTime \in Int /\ FirstTime # Never
    BY <2>1, <1>1
  <2>. QED BY <1>1, <1>3, <2>1, <2>2, <2>3 DEF QueueAgrees
<1>. QED BY <1>2, <1>3

\* submitHandler() keeps the tables together: the handler is under its time, and
\* whatever was in the map stays there.
LEMMA InsertTables ==
  ASSUME timeQueue \in Seq(Time), nextId \in Nat, recycledIds \subseteq 0..nextId - 1,
         QueueAgrees, IdsAgree,
         NEW h, NEW t \in Time, NEW id \in FreshId, Insert(h, t, id)
  PROVE  /\ timeQueue' \in Seq(Time) /\ nextId' \in Nat
         /\ recycledIds' \subseteq 0..nextId' - 1
         /\ QueueAgrees' /\ IdsAgree'
         /\ DOMAIN map' = DOMAIN map \cup {t}
         /\ \A u \in DOMAIN map : u # t => map'[u] = map[u]
         /\ DOMAIN map'[t] # {}
         /\ Range(map'[t]) = {h} \cup (IF t \in DOMAIN map THEN Range(map[t]) ELSE {})
         /\ FirstTime' = IF t < FirstTime THEN t ELSE FirstTime
<1>0. Sorted(timeQueue) /\ Range(timeQueue) = DOMAIN map
  BY DEF QueueAgrees, Sorted
<1>1. /\ id \in Nat /\ id \notin DOMAIN idToTime
      /\ id # nextId => id \in recycledIds /\ id \in 0..nextId - 1
      /\ id = nextId => recycledIds = {}
  BY DEF FreshId, IdsAgree
<1>2. /\ nextId' = (IF id = nextId THEN nextId + 1 ELSE nextId)
      /\ recycledIds' = recycledIds \ {id}
      /\ nextId' \in Nat /\ recycledIds' \subseteq 0..nextId' - 1
      /\ 0..nextId' - 1 = (0..nextId - 1) \cup {id}
  BY <1>1 DEF Insert
<1>3. /\ DOMAIN idToTime' = DOMAIN idToTime \cup {id} /\ idToTime'[id] = t
      /\ \A x \in DOMAIN idToTime : idToTime'[x] = idToTime[x]
  BY <1>1 DEF Insert, Extended
<1>4. /\ DOMAIN map' = DOMAIN map \cup {t}
      /\ \A u \in DOMAIN map : u # t => map'[u] = map[u]
      /\ map'[t] = Extended(HandlersAt(t), id, h)
  BY DEF Insert, Extended
<1>5. CASE t \in DOMAIN map
  <2>1. \A x \in DOMAIN map[t] : x # id
    BY <1>1, <1>5 DEF IdsAgree
  <2>2. /\ DOMAIN map'[t] = DOMAIN map[t] \cup {id} /\ map'[t][id] = h
        /\ \A x \in DOMAIN map[t] : map'[t][x] = map[t][x]
    BY <1>4, <1>5, <2>1 DEF Extended, HandlersAt
  <2>3. timeQueue' = timeQueue
    BY <1>5 DEF Insert, QueueWith
  <2>4. QueueAgrees' /\ FirstTime' = FirstTime
    BY <1>0, <1>4, <1>5, <2>3 DEF QueueAgrees, FirstTime
  <2>5. FirstTime <= t /\ t \in Int /\ FirstTime \in Int
    BY <1>5, FirstTimeType
  <2>6. Range(map'[t]) = {h} \cup Range(map[t])
    BY <2>2 DEF Range
  <2>7. IdsAgree'
    BY <1>1, <1>2, <1>3, <1>4, <1>5, <2>2 DEF IdsAgree
  <2>. QED BY <1>2, <1>4, <1>5, <2>2, <2>3, <2>4, <2>5, <2>6, <2>7
<1>6. CASE t \notin DOMAIN map
  <2>1. DOMAIN map'[t] = {id} /\ map'[t][id] = h
    BY <1>4, <1>6 DEF Extended, HandlersAt
  <2>2. DOMAIN map'[t] = {id} /\ Range(map'[t]) = {h}
    BY <2>1 DEF Range
  <2>3. LET k == Cardinality({i \in DOMAIN timeQueue : timeQueue[i] < t})
        IN  timeQueue' = InsertAt(timeQueue, 1 + k, t)
    BY <1>6 DEF Insert, QueueWith
  <2>4. /\ timeQueue' \in Seq(Time) /\ Sorted(timeQueue')
        /\ Range(timeQueue') = Range(timeQueue) \cup {t}
        /\ Len(timeQueue') = Len(timeQueue) + 1
        /\ timeQueue'[1] = IF timeQueue = <<>> \/ t < timeQueue[1] THEN t ELSE timeQueue[1]
    BY <1>0, <1>6, <2>3, InsertSorted
  <2>5. QueueAgrees'
    BY <1>0, <1>4, <2>4 DEF QueueAgrees, Sorted
  <2>6. FirstTime' = IF t < FirstTime THEN t ELSE FirstTime
    <3>1. timeQueue' # <<>>
      BY <2>4, QueueType
    <3>2. FirstTime' = timeQueue'[1]
      BY <3>1, <2>4, TailSorted DEF FirstTime
    <3>3. timeQueue # <<>> => FirstTime = timeQueue[1]
      BY <1>0, TailSorted DEF FirstTime
    <3>4. timeQueue = <<>> => t < FirstTime
      BY FirstTimeType
    <3>. QED BY <2>4, <3>2, <3>3, <3>4
  <2>7. IdsAgree'
    BY <1>1, <1>2, <1>3, <1>4, <1>6, <2>2 DEF IdsAgree
  <2>. QED BY <1>2, <1>4, <1>6, <2>2, <2>4, <2>5, <2>6, <2>7
<1>. QED BY <1>5, <1>6

\* popAndInvokeHandlers() takes the first time out of each table.
LEMMA PopTables ==
  ASSUME timeQueue \in Seq(Time), nextId \in Nat, recycledIds \subseteq 0..nextId - 1,
         QueueAgrees, IdsAgree, timeQueue # <<>>, Pop
  PROVE  /\ timeQueue' \in Seq(Time) /\ nextId' \in Nat
         /\ recycledIds' \subseteq 0..nextId' - 1
         /\ QueueAgrees' /\ IdsAgree'
         /\ FirstTime \in DOMAIN map /\ FirstTime \in Time /\ Head(timeQueue) = FirstTime
         /\ DOMAIN map' = DOMAIN map \ {FirstTime}
         /\ \A u \in DOMAIN map' : map'[u] = map[u]
         /\ FirstTime < FirstTime'
<1>. DEFINE t   == Head(timeQueue)
            ids == DOMAIN map[t]
<1>0. /\ t = FirstTime /\ t \in Time /\ t \in DOMAIN map
      /\ Tail(timeQueue) \in Seq(Time) /\ Sorted(Tail(timeQueue))
      /\ Range(Tail(timeQueue)) = DOMAIN map \ {t}
      /\ \A u \in Range(Tail(timeQueue)) : t < u
  BY TailSorted DEF QueueAgrees, Sorted, FirstTime
<1>1. /\ timeQueue' = Tail(timeQueue) /\ nextId' = nextId
      /\ DOMAIN map' = DOMAIN map \ {t} /\ \A u \in DOMAIN map' : map'[u] = map[u]
      /\ DOMAIN idToTime' = DOMAIN idToTime \ ids
      /\ \A x \in DOMAIN idToTime' : idToTime'[x] = idToTime[x]
      /\ recycledIds' = recycledIds \cup ids
  BY DEF Pop
<1>. HIDE DEF t, ids
<1>2. QueueAgrees'
  BY <1>0, <1>1 DEF QueueAgrees, Sorted
<1>3. \A x \in ids : x \in DOMAIN idToTime /\ idToTime[x] = t
  BY <1>0 DEF IdsAgree, ids
<1>4. recycledIds' \subseteq 0..nextId' - 1
  BY <1>1, <1>3 DEF IdsAgree
<1>5. IdsAgree'
  <2>1. DOMAIN idToTime' \cap recycledIds' = {}
    BY <1>1 DEF IdsAgree
  <2>2. DOMAIN idToTime' \cup recycledIds' = 0..nextId' - 1
    BY <1>1, <1>3 DEF IdsAgree
  <2>3. ASSUME NEW x \in DOMAIN idToTime'
        PROVE  idToTime'[x] \in DOMAIN map' /\ x \in DOMAIN map'[idToTime'[x]]
    <3>1. x \in DOMAIN idToTime /\ x \notin ids /\ idToTime'[x] = idToTime[x]
      BY <1>1
    <3>2. idToTime[x] \in DOMAIN map /\ x \in DOMAIN map[idToTime[x]]
      BY <3>1 DEF IdsAgree
    <3>3. idToTime[x] # t
      BY <3>1, <3>2 DEF ids
    <3>. QED BY <3>1, <3>2, <3>3, <1>1
  <2>4. ASSUME NEW u \in DOMAIN map', NEW x \in DOMAIN map'[u]
        PROVE  x \in DOMAIN idToTime' /\ idToTime'[x] = u
    <3>1. u \in DOMAIN map /\ u # t /\ x \in DOMAIN map[u]
      BY <1>1
    <3>2. x \in DOMAIN idToTime /\ idToTime[x] = u
      BY <3>1 DEF IdsAgree
    <3>3. x \notin ids
      BY <3>1, <3>2, <1>3
    <3>. QED BY <3>1, <3>2, <3>3, <1>1
  <2>. QED BY <2>1, <2>2, <2>3, <2>4 DEF IdsAgree
<1>6. FirstTime < FirstTime'
  <2>1. timeQueue' \in Seq(Time)
    BY <1>0, <1>1
  <2>2. CASE timeQueue' = <<>>
    <3>1. FirstTime' = Never
      BY <2>2 DEF FirstTime, Never
    <3>2. FirstTime < Never
      BY <1>0, FirstTimeType
    <3>. QED BY <3>1, <3>2
  <2>3. CASE timeQueue' # <<>>
    <3>1. FirstTime' = Head(timeQueue') /\ Head(timeQueue') \in Range(timeQueue')
      BY <1>0, <1>1, <2>3, TailSorted DEF FirstTime
    <3>. QED BY <3>1, <1>0, <1>1
  <2>. QED BY <2>2, <2>3
<1>. QED BY <1>0, <1>1, <1>2, <1>4, <1>5, <1>6 DEF t

------------------------------------------------------------------------------
(* Every step keeps the inductive invariant.                               *)

\* Steps that leave the tables alone.
LEMMA SameTables ==
  ASSUME UNCHANGED tables
  PROVE  /\ QueueAgrees => QueueAgrees' 
         /\ IdsAgree => IdsAgree'
         /\ FirstTime' = FirstTime
         /\ \A h : InMap(h)' <=> InMap(h)
BY DEF tables, QueueAgrees, IdsAgree, FirstTime, InMap, Never

\* submitHandler() keeps it: a handler is submitted once, and if it is the first of
\* all its thread looks after it.
LEMMA SubmitInd ==
  ASSUME IndInv, NEW p \in Process, NEW h \in Handler, NEW t \in Time,
         NEW id \in FreshId, Submit(p, h, t, id)
  PROVE  IndInv'
<1>. USE DEF IndInv
<1>1. /\ pc[p] = "idle" /\ at[h] = Never /\ Insert(h, t, id)
      /\ at' = [at EXCEPT ![h] = t]
      /\ IF t < FirstTime THEN To(p, "inserted") ELSE UNCHANGED pc
      /\ UNCHANGED <<kind, now, invoked, current, handlers, tpc, nextTime, taken, stop>>
  BY DEF Submit, threadVars
<1>2. /\ timeQueue' \in Seq(Time) /\ nextId' \in Nat
      /\ recycledIds' \subseteq 0..nextId' - 1
      /\ QueueAgrees' /\ IdsAgree'
      /\ DOMAIN map' = DOMAIN map \cup {t}
      /\ \A u \in DOMAIN map : u # t => map'[u] = map[u]
      /\ DOMAIN map'[t] # {}
      /\ Range(map'[t]) = {h} \cup (IF t \in DOMAIN map THEN Range(map[t]) ELSE {})
      /\ FirstTime' = IF t < FirstTime THEN t ELSE FirstTime
  BY <1>1, InsertTables DEF TypeOK
<1>3. /\ \A u \in Time : u \in Int /\ u < Never
      /\ FirstTime \in Int /\ FirstTime' \in Int /\ now \in Time /\ now \in Int /\ Never \in Int
      /\ Never \notin Time
  BY <1>2, FirstTimeType DEF TypeOK
<1>4. at' \in [Handler -> Time \cup {Never}] /\ at'[h] = t /\ \A g \in Handler : g # h => at'[g] = at[g]
  BY <1>1 DEF TypeOK
<1>5. /\ pc' \in [Process -> ProcessState] /\ \A q \in Process : q # p => pc'[q] = pc[q]
      /\ pc'[p] \in {"idle", "inserted"} /\ (t < FirstTime => pc'[p] = "inserted")
  BY <1>1 DEF TypeOK, To, ProcessState
<1>6. TypeOK'
  <2>1. DOMAIN map' \subseteq Time /\ \A u \in DOMAIN map' : Range(map'[u]) \subseteq Handler
    BY <1>2 DEF TypeOK
  <2>. QED BY <1>1, <1>2, <1>4, <1>5, <2>1 DEF TypeOK
<1>7. \A g \in Handler : InMap(g)' <=> g = h \/ InMap(g)
  BY <1>2 DEF InMap
<1>8. h \notin invoked \cup taken /\ ~ InMap(h) /\ \A q \in Process : h \notin handlers[q]
  <2>1. ~ (at[h] <= now)
    BY <1>1, <1>3
  <2>2. ~ InMap(h)
    BY <1>1, <1>3 DEF InMap, PlaceInv, TypeOK
  <2>. QED BY <2>1, <2>2 DEF PlaceInv
<1>9. PlaceInv'
  <2>1. \A u \in DOMAIN map' : DOMAIN map'[u] # {} /\ \A g \in Range(map'[u]) : at'[g] = u
    <3>1. \A u \in DOMAIN map : \A g \in Range(map[u]) : g \in Handler /\ g # h
      BY <1>8 DEF InMap, TypeOK
    <3>. QED BY <3>1, <1>2, <1>4 DEF PlaceInv
  <2>2. \A g \in Handler : at'[g] # Never =>
          \/ InMap(g)' \/ g \in taken' \/ g \in invoked' \/ \E q \in Process : g \in handlers'[q]
    BY <1>1, <1>4, <1>7 DEF PlaceInv
  <2>3. \A g \in invoked \cup taken \cup UNION {handlers[q] : q \in Process} :
          g \in Handler /\ g # h
    BY <1>8 DEF TypeOK
  <2>. QED BY <1>1, <1>4, <1>7, <2>1, <2>2, <2>3 DEF PlaceInv, Never
<1>10. ComeInv'
  BY <1>1 DEF ComeInv
<1>11. DueInv'
  <2>. SUFFICES ASSUME kind = "Emulated", FirstTime' <= now
                PROVE  \E q \in Process :
                         \/ pc'[q] = "inserted"
                         \/ pc'[q] \in {"look", "pop", "invoke"} /\ current'[q] = now'
    BY <1>1 DEF DueInv
  <2>1. CASE t < FirstTime
    BY <2>1, <1>5
  <2>2. CASE ~ (t < FirstTime)
    <3>1. FirstTime <= now
      BY <2>2, <1>2
    <3>2. PICK q \in Process : \/ pc[q] = "inserted"
                               \/ pc[q] \in {"look", "pop", "invoke"} /\ current[q] = now
      BY <3>1 DEF DueInv
    <3>3. q # p
      BY <3>2, <1>1
    <3>. QED BY <3>2, <3>3, <1>1, <1>5
  <2>. QED BY <2>1, <2>2
<1>. QED BY <1>2, <1>6, <1>9, <1>10, <1>11

\* Steps of one thread in the loop of an EmulatedTimer, or in and out of it, that leave
\* the tables and the handlers alone.
LEMMA LoopFrame ==
  ASSUME IndInv, NEW p \in Process,
         UNCHANGED <<kind, tables, at, invoked, handlers, tpc, nextTime, taken, stop>>,
         now' \in Time, now <= now',
         pc' \in [Process -> ProcessState], current' \in [Process -> Time],
         \A q \in Process : q # p => pc'[q] = pc[q] /\ current'[q] = current[q],
         current'[p] <= now', pc[p] # "invoke", pc'[p] # "invoke",
         DueInv'
  PROVE  IndInv'
<1>. USE DEF IndInv
<1>1. /\ timeQueue' = timeQueue /\ map' = map /\ nextId' = nextId /\ recycledIds' = recycledIds
      /\ now \in Int /\ now' \in Int /\ \A q \in Process : current[q] \in Int
  BY TimeAssumption DEF tables, TypeOK, Time
<1>2. TypeOK'
  BY <1>1 DEF TypeOK
<1>3. QueueAgrees' /\ IdsAgree' /\ \A h : InMap(h)' <=> InMap(h)
  BY SameTables
<1>4. \A h \in Handler : at[h] \in Int
  BY TimeAssumption DEF TypeOK, Time, Never
<1>5. PlaceInv'
  BY <1>1, <1>3, <1>4 DEF PlaceInv, TypeOK, Never
<1>6. ComeInv'
  BY <1>1 DEF ComeInv, TypeOK
<1>. QED BY <1>2, <1>3, <1>5, <1>6

\* The steps of EmulatedTimer::increment() and onHandlerInserted() outside of
\* popAndInvokeHandlers() keep it: who leaves the loop has seen nothing due.
LEMMA LoopInd ==
  ASSUME IndInv, NEW p \in Process,
         ReadTime(p) \/ (\E t \in Time : Increment(p, t)) \/ Look(p)
  PROVE  IndInv'
<1>0. FirstTime \in Int /\ now \in Time /\ now \in Int /\ 0 \in Time /\ 0 <= now
      /\ \A q \in Process : current[q] \in Time /\ current[q] <= now
      /\ pc \in [Process -> ProcessState] /\ current \in [Process -> Time]
  BY FirstTimeType, TimeAssumption DEF IndInv, TypeOK, ComeInv, Time
<1>1. CASE ReadTime(p)
  <2>1. /\ pc' = [pc EXCEPT ![p] = "look"] /\ current' = [current EXCEPT ![p] = now]
        /\ pc[p] = "inserted" /\ now' = now
        /\ UNCHANGED <<kind, tables, at, invoked, handlers, tpc, nextTime, taken, stop>>
    BY <1>1 DEF ReadTime, To, threadVars
  <2>2. DueInv'
    BY <2>1 DEF DueInv, IndInv, TypeOK
  <2>3. /\ pc' \in [Process -> ProcessState] /\ current' \in [Process -> Time]
        /\ \A q \in Process : q # p => pc'[q] = pc[q] /\ current'[q] = current[q]
        /\ pc'[p] = "look" /\ current'[p] = now
    BY <2>1, <1>0 DEF ProcessState
  <2>. QED BY <2>1, <2>2, <2>3, <1>0, LoopFrame
<1>2. ASSUME NEW t \in Time, Increment(p, t) PROVE IndInv'
  <2>1. /\ pc' = [pc EXCEPT ![p] = "look"] /\ current' = [current EXCEPT ![p] = t]
        /\ pc[p] = "idle" /\ now' = t /\ now <= t
        /\ UNCHANGED <<kind, tables, at, invoked, handlers, tpc, nextTime, taken, stop>>
    BY <1>2 DEF Increment, To, threadVars
  <2>2. DueInv'
    BY <2>1 DEF DueInv, IndInv, TypeOK
  <2>3. /\ pc' \in [Process -> ProcessState] /\ current' \in [Process -> Time]
        /\ \A q \in Process : q # p => pc'[q] = pc[q] /\ current'[q] = current[q]
        /\ pc'[p] = "look" /\ current'[p] = t /\ t \in Int
    BY <2>1, <1>0, TimeType DEF ProcessState
  <2>. QED BY <2>1, <2>2, <2>3, <1>0, LoopFrame
<1>3. CASE Look(p)
  <2>0. /\ pc[p] = "look" /\ now' = now /\ FirstTime' = FirstTime
        /\ UNCHANGED <<kind, tables, at, invoked, handlers, tpc, nextTime, taken, stop>>
    BY <1>3, SameTables DEF Look, threadVars
  <2>1. CASE FirstTime <= current[p]
    <3>1. pc' = [pc EXCEPT ![p] = "pop"] /\ current' = current
      BY <1>3, <2>1 DEF Look, To
    <3>2. /\ pc' \in [Process -> ProcessState] /\ pc'[p] = "pop"
          /\ \A q \in Process : q # p => pc'[q] = pc[q]
      BY <3>1, <1>0 DEF ProcessState
    <3>3. DueInv'
      BY <2>0, <3>1 DEF DueInv, IndInv, TypeOK
    <3>. QED BY <2>0, <3>1, <3>2, <3>3, <1>0, LoopFrame
  <2>2. CASE ~ (FirstTime <= current[p])
    <3>1. pc' = [pc EXCEPT ![p] = "idle"] /\ current' = [current EXCEPT ![p] = 0]
      BY <1>3, <2>2 DEF Look, To
    <3>2. ASSUME kind = "Emulated", FirstTime <= now
          PROVE  \E q \in Process :
                   \/ pc'[q] = "inserted"
                   \/ pc'[q] \in {"look", "pop", "invoke"} /\ current'[q] = now
      <4>1. PICK q \in Process : \/ pc[q] = "inserted"
                                 \/ pc[q] \in {"look", "pop", "invoke"} /\ current[q] = now
        BY <3>2 DEF IndInv, DueInv
      <4>2. q # p
        BY <4>1, <2>0, <2>2, <3>2
      <4>. QED BY <4>1, <4>2, <3>1 DEF IndInv, TypeOK
    <3>3. DueInv'
      BY <2>0, <3>2 DEF DueInv
    <3>4. /\ pc' \in [Process -> ProcessState] /\ current' \in [Process -> Time]
          /\ \A q \in Process : q # p => pc'[q] = pc[q] /\ current'[q] = current[q]
          /\ pc'[p] = "idle" /\ current'[p] = 0
      BY <3>1, <1>0 DEF ProcessState
    <3>. QED BY <2>0, <3>3, <3>4, <1>0, LoopFrame
  <2>. QED BY <2>1, <2>2
<1>. QED BY <1>1, <1>2, <1>3

\* What popAndInvokeHandlers() takes out has come, and nobody else has it.
LEMMA PopPlaces ==
  ASSUME IndInv, Pop, FirstTime <= now
  PROVE  /\ timeQueue # <<>> /\ map[Head(timeQueue)] = map[FirstTime]
         /\ Range(map[FirstTime]) \subseteq Handler /\ Range(map[FirstTime]) # {}
         /\ \A h \in Range(map[FirstTime]) :
              /\ at[h] <= now /\ at[h] # Never
              /\ ~ InMap(h)' /\ h \notin invoked \cup taken
              /\ \A q \in Process : h \notin handlers[q]
         /\ \A h : InMap(h) <=> InMap(h)' \/ h \in Range(map[FirstTime])
<1>. USE DEF IndInv
<1>0. /\ \A u \in Time : u \in Int /\ u < Never
      /\ FirstTime \in Int /\ Never \in Int /\ now \in Time
      /\ timeQueue = <<>> <=> FirstTime = Never
  BY FirstTimeType DEF TypeOK
<1>1. timeQueue # <<>> /\ now < Never /\ now \in Int
  BY <1>0
<1>2. /\ FirstTime \in DOMAIN map /\ Head(timeQueue) = FirstTime
      /\ DOMAIN map' = DOMAIN map \ {FirstTime}
      /\ \A u \in DOMAIN map' : map'[u] = map[u]
  BY <1>1, PopTables DEF TypeOK
<1>3. /\ Range(map[FirstTime]) \subseteq Handler
      /\ \A h \in Range(map[FirstTime]) : at[h] = FirstTime /\ InMap(h)
  BY <1>2 DEF TypeOK, PlaceInv, InMap
<1>4. Range(map[FirstTime]) # {}
  BY <1>2 DEF PlaceInv, Range
<1>5. \A h \in Range(map[FirstTime]) : ~ InMap(h)'
  BY <1>2, <1>3 DEF InMap, PlaceInv
<1>6. \A h : InMap(h) <=> InMap(h)' \/ h \in Range(map[FirstTime])
  BY <1>2 DEF InMap
<1>7. \A h \in Range(map[FirstTime]) :
        h \notin invoked \cup taken /\ \A q \in Process : h \notin handlers[q]
  BY <1>3 DEF PlaceInv
<1>8. \A h \in Range(map[FirstTime]) : at[h] <= now /\ at[h] # Never
  BY <1>0, <1>1, <1>3
<1>. QED BY <1>1, <1>2, <1>3, <1>4, <1>5, <1>6, <1>7, <1>8

\* popAndInvokeHandlers() of an EmulatedTimer keeps it, in its critical section.
LEMMA PopHandlersInd ==
  ASSUME IndInv, NEW p \in Process, PopHandlers(p)
  PROVE  IndInv'
<1>. USE DEF IndInv
<1>0. /\ pc[p] = "pop" /\ handlers[p] = {} /\ current[p] <= now
      /\ FirstTime \in Int /\ now \in Int /\ current[p] \in Int
      /\ UNCHANGED <<kind, now, at, invoked, current, tpc, nextTime, taken, stop>>
  BY FirstTimeType, TimeAssumption DEF PopHandlers, threadVars, TypeOK, ComeInv, Time
<1>1. CASE FirstTime > current[p]
  <2>1. /\ pc' = [pc EXCEPT ![p] = "look"] /\ UNCHANGED <<tables, handlers>>
    BY <1>1 DEF PopHandlers, To
  <2>2. /\ pc' \in [Process -> ProcessState] /\ pc'[p] = "look"
        /\ \A q \in Process : q # p => pc'[q] = pc[q]
    BY <2>1 DEF ProcessState, TypeOK
  <2>3. DueInv'
    BY <2>1, <2>2, <1>0, SameTables DEF DueInv
  <2>4. current' \in [Process -> Time] /\ now' \in Time /\ now <= now'
    BY <1>0 DEF TypeOK
  <2>. QED BY <1>0, <2>1, <2>2, <2>3, <2>4, LoopFrame
<1>2. CASE ~ (FirstTime > current[p])
  <2>1. /\ Pop /\ handlers' = [handlers EXCEPT ![p] = Range(map[Head(timeQueue)])]
        /\ pc' = [pc EXCEPT ![p] = "invoke"] /\ FirstTime <= now
    BY <1>0, <1>2 DEF PopHandlers, To
  <2>2. /\ timeQueue # <<>> /\ map[Head(timeQueue)] = map[FirstTime]
        /\ Range(map[FirstTime]) \subseteq Handler /\ Range(map[FirstTime]) # {}
        /\ \A h \in Range(map[FirstTime]) :
             /\ at[h] <= now /\ at[h] # Never
             /\ ~ InMap(h)' /\ h \notin invoked \cup taken
             /\ \A q \in Process : h \notin handlers[q]
        /\ \A h : InMap(h) <=> InMap(h)' \/ h \in Range(map[FirstTime])
    BY <2>1, PopPlaces
  <2>3. /\ timeQueue' \in Seq(Time) /\ nextId' \in Nat
        /\ recycledIds' \subseteq 0..nextId' - 1
        /\ QueueAgrees' /\ IdsAgree'
        /\ DOMAIN map' \subseteq DOMAIN map
        /\ \A u \in DOMAIN map' : map'[u] = map[u]
        /\ FirstTime < FirstTime'
    BY <2>1, <2>2, PopTables DEF TypeOK
  <2>4. /\ pc' \in [Process -> ProcessState] /\ pc'[p] = "invoke"
        /\ handlers' \in [Process -> SUBSET Handler]
        /\ handlers'[p] = Range(map[FirstTime])
        /\ \A q \in Process : q # p => pc'[q] = pc[q] /\ handlers'[q] = handlers[q]
    BY <2>1, <2>2 DEF ProcessState, TypeOK
  <2>5. TypeOK'
    <3>1. \A u \in DOMAIN map' : u \in Time /\ Range(map'[u]) \subseteq Handler
      BY <2>3 DEF TypeOK
    <3>2. \A q \in Process : pc'[q] = "invoke" <=> handlers'[q] # {}
      BY <2>2, <2>4 DEF TypeOK
    <3>. QED BY <1>0, <2>3, <2>4, <3>1, <3>2 DEF TypeOK
  <2>6. PlaceInv'
    <3>1. \A u \in DOMAIN map' : DOMAIN map'[u] # {} /\ \A h \in Range(map'[u]) : at'[h] = u
      BY <1>0, <2>3 DEF PlaceInv
    <3>2. \A h \in Handler : at'[h] # Never =>
            \/ InMap(h)' \/ h \in taken' \/ h \in invoked'
            \/ \E q \in Process : h \in handlers'[q]
      BY <1>0, <2>2, <2>4 DEF PlaceInv
    <3>3. /\ \A h \in invoked' : at'[h] <= now' /\ ~ InMap(h)'
          /\ \A h \in taken' : at'[h] <= now' /\ ~ InMap(h)' /\ h \notin invoked'
      BY <1>0, <2>2 DEF PlaceInv
    <3>4. \A q \in Process : \A h \in handlers'[q] :
            at'[h] <= now' /\ ~ InMap(h)' /\ h \notin invoked' \cup taken'
      BY <1>0, <2>2, <2>4 DEF PlaceInv
    <3>5. \A q, r \in Process : q # r => handlers'[q] \cap handlers'[r] = {}
      BY <2>2, <2>4 DEF PlaceInv
    <3>. QED BY <3>1, <3>2, <3>3, <3>4, <3>5 DEF PlaceInv, Never
  <2>7. ComeInv'
    BY <1>0 DEF ComeInv
  <2>8. DueInv'
    <3>1. FirstTime' \in Int
      <4>1. timeQueue' # <<>> => Head(timeQueue') \in Time
        BY <2>3
      <4>. QED BY <4>1, TimeAssumption DEF FirstTime, Never, Time
    <3>. SUFFICES ASSUME kind = "Emulated", FirstTime' <= now
                  PROVE  \E q \in Process :
                           \/ pc'[q] = "inserted"
                           \/ pc'[q] \in {"look", "pop", "invoke"} /\ current'[q] = now'
      BY <1>0 DEF DueInv
    <3>2. FirstTime <= now
      BY <2>1
    <3>3. PICK q \in Process : \/ pc[q] = "inserted"
                               \/ pc[q] \in {"look", "pop", "invoke"} /\ current[q] = now
      BY <3>2 DEF DueInv
    <3>. QED BY <3>3, <2>4, <1>0
  <2>. QED BY <2>3, <2>5, <2>6, <2>7, <2>8
<1>. QED BY <1>1, <1>2

\* ... and so does that of the thread of a SystemTimer.
LEMMA ThreadPopInd ==
  ASSUME IndInv, ThreadPop
  PROVE  IndInv'
<1>. USE DEF IndInv
<1>0. /\ tpc = "pop" /\ taken = {} /\ nextTime <= now
      /\ FirstTime \in Int /\ now \in Int /\ nextTime \in Int
      /\ UNCHANGED <<kind, now, at, invoked, pc, current, handlers, nextTime, stop>>
  BY FirstTimeType, TimeAssumption DEF ThreadPop, processVars, TypeOK, ComeInv, Time, Never
<1>1. CASE FirstTime > nextTime
  <2>1. tpc' = "look" /\ taken' = taken /\ UNCHANGED tables
    BY <1>1 DEF ThreadPop
  <2>2. UNCHANGED <<timeQueue, map, nextId, recycledIds>>
    BY <2>1 DEF tables
  <2>3. /\ QueueAgrees' /\ IdsAgree' /\ FirstTime' = FirstTime
        /\ \A h : InMap(h)' <=> InMap(h)
    BY <2>1, SameTables
  <2>4. TypeOK'
    BY <1>0, <2>1, <2>2 DEF TypeOK, ThreadState
  <2>5. PlaceInv'
    BY <1>0, <2>1, <2>2, <2>3 DEF PlaceInv, Never
  <2>6. ComeInv' /\ DueInv'
    BY <1>0, <2>1, <2>3 DEF ComeInv, DueInv
  <2>. QED BY <2>3, <2>4, <2>5, <2>6
<1>2. CASE ~ (FirstTime > nextTime)
  <2>1. /\ Pop /\ taken' = Range(map[Head(timeQueue)]) /\ tpc' = "invoke"
        /\ FirstTime <= now
    BY <1>0, <1>2 DEF ThreadPop
  <2>2. /\ timeQueue # <<>> /\ taken' = Range(map[FirstTime])
        /\ taken' \subseteq Handler /\ taken' # {}
        /\ \A h \in taken' :
             /\ at[h] <= now /\ at[h] # Never
             /\ ~ InMap(h)' /\ h \notin invoked \cup taken
             /\ \A q \in Process : h \notin handlers[q]
        /\ \A h : InMap(h) <=> InMap(h)' \/ h \in taken'
    BY <2>1, PopPlaces
  <2>3. /\ timeQueue' \in Seq(Time) /\ nextId' \in Nat
        /\ recycledIds' \subseteq 0..nextId' - 1
        /\ QueueAgrees' /\ IdsAgree'
        /\ DOMAIN map' \subseteq DOMAIN map
        /\ \A u \in DOMAIN map' : map'[u] = map[u]
        /\ FirstTime < FirstTime'
    BY <2>1, <2>2, PopTables DEF TypeOK
  <2>4. TypeOK'
    <3>1. \A u \in DOMAIN map' : u \in Time /\ Range(map'[u]) \subseteq Handler
      BY <2>3 DEF TypeOK
    <3>. QED BY <1>0, <2>1, <2>2, <2>3, <3>1 DEF TypeOK, ThreadState
  <2>5. PlaceInv'
    <3>1. \A u \in DOMAIN map' : DOMAIN map'[u] # {} /\ \A h \in Range(map'[u]) : at'[h] = u
      BY <1>0, <2>3 DEF PlaceInv
    <3>2. \A h \in Handler : at'[h] # Never =>
            \/ InMap(h)' \/ h \in taken' \/ h \in invoked'
            \/ \E q \in Process : h \in handlers'[q]
      BY <1>0, <2>2 DEF PlaceInv
    <3>3. /\ \A h \in invoked' : at'[h] <= now' /\ ~ InMap(h)'
          /\ \A h \in taken' : at'[h] <= now' /\ ~ InMap(h)' /\ h \notin invoked'
      BY <1>0, <2>2 DEF PlaceInv
    <3>4. \A q \in Process : \A h \in handlers'[q] :
            at'[h] <= now' /\ ~ InMap(h)' /\ h \notin invoked' \cup taken'
      BY <1>0, <2>2 DEF PlaceInv
    <3>5. \A q, r \in Process : q # r => handlers'[q] \cap handlers'[r] = {}
      BY <1>0 DEF PlaceInv
    <3>. QED BY <3>1, <3>2, <3>3, <3>4, <3>5 DEF PlaceInv, Never
  <2>6. ComeInv'
    BY <1>0, <2>1 DEF ComeInv
  <2>7. DueInv'
    <3>1. FirstTime' \in Int
      <4>1. timeQueue' # <<>> => Head(timeQueue') \in Time
        BY <2>3
      <4>. QED BY <4>1, TimeAssumption DEF FirstTime, Never, Time
    <3>2. FirstTime' <= now => FirstTime <= now
      BY <2>1
    <3>. QED BY <1>0, <3>2 DEF DueInv
  <2>. QED BY <2>3, <2>4, <2>5, <2>6, <2>7
<1>. QED BY <1>1, <1>2

\* Handlers are invoked one by one, each by the thread that has taken it out.
LEMMA InvokeInd ==
  ASSUME IndInv, NEW h \in Handler,
         ThreadInvoke(h) \/ \E p \in Process : Invoke(p, h)
  PROVE  IndInv'
<1>. USE DEF IndInv
<1>0. now \in Int /\ now < Never /\ Never \in Int
  BY TimeAssumption DEF TypeOK, Time, Never
<1>1. CASE ThreadInvoke(h)
  <2>1. /\ tpc = "invoke" /\ h \in taken /\ taken' = taken \ {h}
        /\ invoked' = invoked \cup {h}
        /\ tpc' = (IF taken' = {} THEN "look" ELSE tpc)
        /\ UNCHANGED <<kind, now, timeQueue, map, nextId, recycledIds, at,
                       pc, current, handlers, nextTime, stop>>
        /\ UNCHANGED tables
    BY <1>1 DEF ThreadInvoke, processVars, tables
  <2>2. /\ QueueAgrees' /\ IdsAgree' /\ FirstTime' = FirstTime
        /\ \A g : InMap(g)' <=> InMap(g)
    BY <2>1, SameTables
  <2>3. TypeOK'
    BY <2>1 DEF TypeOK, ThreadState
  <2>4. PlaceInv'
    BY <2>1, <2>2 DEF PlaceInv, Never
  <2>5. ComeInv' /\ DueInv'
    BY <2>1, <2>2 DEF ComeInv, DueInv
  <2>. QED BY <2>2, <2>3, <2>4, <2>5
<1>2. ASSUME NEW p \in Process, Invoke(p, h) PROVE IndInv'
  <2>1. /\ pc[p] = "invoke" /\ h \in handlers[p]
        /\ handlers' = [handlers EXCEPT ![p] = @ \ {h}]
        /\ invoked' = invoked \cup {h}
        /\ pc' = IF handlers'[p] = {} THEN [pc EXCEPT ![p] = "look"] ELSE pc
        /\ UNCHANGED <<kind, now, timeQueue, map, nextId, recycledIds, at,
                       current, tpc, taken, nextTime, stop>>
        /\ UNCHANGED tables
    BY <1>2 DEF Invoke, To, threadVars, tables
  <2>2. /\ QueueAgrees' /\ IdsAgree' /\ FirstTime' = FirstTime
        /\ \A g : InMap(g)' <=> InMap(g)
    BY <2>1, SameTables
  <2>3. /\ handlers' \in [Process -> SUBSET Handler] /\ handlers'[p] = handlers[p] \ {h}
        /\ \A q \in Process : q # p => handlers'[q] = handlers[q] /\ pc'[q] = pc[q]
        /\ pc'[p] = IF handlers'[p] = {} THEN "look" ELSE "invoke"
        /\ pc' \in [Process -> ProcessState]
    BY <2>1 DEF TypeOK, ProcessState
  <2>4. TypeOK'
    <3>1. \A q \in Process : pc'[q] = "invoke" <=> handlers'[q] # {}
      BY <2>3 DEF TypeOK
    <3>. QED BY <2>1, <2>3, <3>1 DEF TypeOK
  <2>5. PlaceInv'
    <3>1. \A g \in Handler : at'[g] # Never =>
            \/ InMap(g)' \/ g \in taken' \/ g \in invoked'
            \/ \E q \in Process : g \in handlers'[q]
      BY <2>1, <2>2, <2>3 DEF PlaceInv
    <3>2. /\ \A g \in invoked' : at'[g] <= now' /\ ~ InMap(g)'
          /\ \A g \in taken' : at'[g] <= now' /\ ~ InMap(g)' /\ g \notin invoked'
      BY <2>1, <2>2 DEF PlaceInv
    <3>3. \A q \in Process : \A g \in handlers'[q] :
            at'[g] <= now' /\ ~ InMap(g)' /\ g \notin invoked' \cup taken'
      BY <2>1, <2>2, <2>3 DEF PlaceInv
    <3>4. \A q, r \in Process : q # r => handlers'[q] \cap handlers'[r] = {}
      BY <2>3 DEF PlaceInv
    <3>5. \A u \in DOMAIN map' : DOMAIN map'[u] # {} /\ \A g \in Range(map'[u]) : at'[g] = u
      BY <2>1 DEF PlaceInv
    <3>. QED BY <3>1, <3>2, <3>3, <3>4, <3>5 DEF PlaceInv, Never
  <2>6. ComeInv'
    BY <2>1 DEF ComeInv
  <2>7. DueInv'
    <3>. SUFFICES ASSUME kind = "Emulated", FirstTime <= now
                  PROVE  \E q \in Process :
                           \/ pc'[q] = "inserted"
                           \/ pc'[q] \in {"look", "pop", "invoke"} /\ current'[q] = now'
      BY <2>1, <2>2 DEF DueInv
    <3>1. PICK q \in Process : \/ pc[q] = "inserted"
                               \/ pc[q] \in {"look", "pop", "invoke"} /\ current[q] = now
      BY DEF DueInv
    <3>. QED BY <3>1, <2>1, <2>3
  <2>. QED BY <2>2, <2>4, <2>5, <2>6, <2>7
<1>. QED BY <1>1, <1>2

\* Notifications, the destructor and the clock keep it; they have a meaning for a
\* SystemTimer only.
LEMMA SystemInd ==
  ASSUME IndInv,
         \/ \E p \in Process : Notify(p) \/ Destroy(p) \/ Join(p)
         \/ Tick \/ ThreadLook \/ ThreadCheck \/ ThreadBlocks \/ ThreadTimesOut
  PROVE  IndInv'
<1>. USE DEF IndInv
<1>0. /\ now \in Int /\ now < Never /\ Never \in Int /\ \A q \in Process : current[q] \in Int
      /\ nextTime \in Int /\ \A h \in Handler : at[h] \in Int
      /\ FirstTime \in Time \cup {Never}
  BY TimeAssumption, FirstTimeType DEF TypeOK, Time, Never
<1>1. /\ UNCHANGED <<kind, at, invoked, handlers, current, taken>> /\ UNCHANGED tables
      /\ now' \in Time /\ now <= now'
  <2>1. CASE \E p \in Process : Notify(p) \/ Destroy(p) \/ Join(p)
    BY <2>1, <1>0 DEF Notify, Destroy, Join, threadVars, TypeOK
  <2>2. CASE Tick
    <3>1. now' = now + 1 /\ now < MaxTime /\ now \in 0..MaxTime
      BY <2>2 DEF Tick, TypeOK, Time
    <3>2. now' \in Time /\ now <= now'
      BY <3>1, TimeAssumption DEF Time
    <3>. QED BY <2>2, <3>2 DEF Tick, processVars, threadVars
  <2>3. CASE ThreadLook \/ ThreadCheck \/ ThreadBlocks \/ ThreadTimesOut
    BY <2>3, <1>0 DEF ThreadLook, ThreadCheck, ThreadBlocks, ThreadTimesOut, processVars,
                      TypeOK
  <2>. QED BY <2>1, <2>2, <2>3
<1>2. /\ QueueAgrees' /\ IdsAgree' /\ FirstTime' = FirstTime
      /\ \A g : InMap(g)' <=> InMap(g)
      /\ UNCHANGED <<timeQueue, map, nextId, recycledIds>>
  BY <1>1, SameTables DEF tables
<1>3. /\ pc' \in [Process -> ProcessState]
      /\ \A q \in Process : \/ pc'[q] = pc[q]
                            \/ /\ pc[q] \in {"idle", "inserted", "notify", "join"}
                               /\ pc'[q] \in {"idle", "notify", "join"}
                               /\ kind = "Emulated" => pc[q] # "inserted"
  <2>1. CASE \E p \in Process : Notify(p) \/ Destroy(p) \/ Join(p)
    <3>1. PICK p \in Process : Notify(p) \/ Destroy(p) \/ Join(p)
      BY <2>1
    <3>2. PICK s \in {"idle", "notify", "join"} :
            /\ pc' = [pc EXCEPT ![p] = s]
            /\ pc[p] \in {"idle", "inserted", "notify", "join"}
            /\ kind = "Emulated" => pc[p] # "inserted"
      BY <3>1 DEF Notify, Destroy, Join, To
    <3>. QED BY <3>2 DEF TypeOK, ProcessState
  <2>2. CASE Tick \/ ThreadLook \/ ThreadCheck \/ ThreadBlocks \/ ThreadTimesOut
    BY <2>2 DEF Tick, ThreadLook, ThreadCheck, ThreadBlocks, ThreadTimesOut, processVars, TypeOK
  <2>. QED BY <2>1, <2>2
<1>4. /\ tpc' \in ThreadState /\ nextTime' \in Time \cup {Never} /\ stop' \in BOOLEAN
      /\ tpc' = "invoke" <=> tpc = "invoke"
      /\ tpc' = "pop" => nextTime' <= now'
  <2>1. CASE \E p \in Process : Notify(p) \/ Destroy(p) \/ Join(p)
    BY <2>1 DEF Notify, Destroy, Join, threadVars, TypeOK, ThreadState, ComeInv
  <2>2. CASE Tick
    BY <2>2, <1>0 DEF Tick, threadVars, TypeOK, ComeInv
  <2>3. CASE ThreadLook \/ ThreadCheck \/ ThreadBlocks \/ ThreadTimesOut
    BY <2>3, <1>0 DEF ThreadLook, ThreadCheck, ThreadBlocks, ThreadTimesOut,
                      TypeOK, ThreadState
  <2>. QED BY <2>1, <2>2, <2>3
<1>5. kind = "Emulated" => now' = now
  BY DEF Notify, Destroy, Join, Tick, ThreadLook, ThreadCheck, ThreadBlocks, ThreadTimesOut
<1>6. TypeOK'
  <2>1. \A q \in Process : pc'[q] = "invoke" <=> handlers'[q] # {}
    BY <1>1, <1>3 DEF TypeOK
  <2>. QED BY <1>1, <1>2, <1>3, <1>4, <2>1 DEF TypeOK
<1>7. PlaceInv'
  <2>1. now' \in Int /\ \A h \in Handler : at[h] <= now => at[h] <= now'
    BY <1>0, <1>1, TimeType
  <2>2. taken \subseteq Handler /\ invoked \subseteq Handler
        /\ \A p \in Process : handlers[p] \subseteq Handler
    BY DEF TypeOK
  <2>. QED BY <1>1, <1>2, <2>1, <2>2 DEF PlaceInv, Never
<1>8. ComeInv'
  BY <1>0, <1>1, <1>4, TimeType DEF ComeInv
<1>9. DueInv'
  BY <1>1, <1>2, <1>3, <1>5 DEF DueInv
<1>. QED BY <1>2, <1>6, <1>7, <1>8, <1>9

------------------------------------------------------------------------------
(* The theorems.                                                           *)

\* A timer begins with empty tables.
LEMMA InitInd == Init => IndInv
<1>. SUFFICES ASSUME Init PROVE IndInv
  OBVIOUS
<1>. USE DEF Init
<1>1. /\ DOMAIN map = {} /\ DOMAIN idToTime = {} /\ DOMAIN timeQueue = {}
      /\ timeQueue \in Seq(Time) /\ 0 \in Time
  BY TimeAssumption DEF Time
<1>2. TypeOK
  BY <1>1 DEF TypeOK, ProcessState, ThreadState
<1>3. QueueAgrees
  BY <1>1 DEF QueueAgrees, Range
<1>4. IdsAgree
  BY <1>1 DEF IdsAgree
<1>5. PlaceInv
  BY <1>1 DEF PlaceInv
<1>6. ComeInv
  BY TimeAssumption DEF ComeInv
<1>7. DueInv
  BY TimeAssumption DEF DueInv, FirstTime, Never
<1>. QED BY <1>2, <1>3, <1>4, <1>5, <1>6, <1>7 DEF IndInv

\* Every step of a process, of the clock and of the thread of a SystemTimer keeps it.
LEMMA StepInd == IndInv /\ [Next]_vars => IndInv'
<1>1. IndInv /\ UNCHANGED vars => IndInv'
  BY DEF IndInv, TypeOK, QueueAgrees, IdsAgree, PlaceInv, ComeInv, DueInv, InMap,
         FirstTime, Never, vars, tables, processVars, threadVars
<1>2. ASSUME IndInv, Next PROVE IndInv'
  BY <1>2, SubmitInd, LoopInd, PopHandlersInd, ThreadPopInd, InvokeInd, SystemInd
     DEF Next, ProcessStep, ThreadStep
<1>. QED BY <1>1, <1>2

\* The inductive invariant holds of every state a timer can be in.
LEMMA Invariance == Spec => []IndInv
BY InitInd, StepInd, PTL DEF Spec

\* What the threads of a timer have in their hands is of the types run() and
\* increment() expect.
THEOREM TimerTypes == Spec => []TypeOK
<1>1. IndInv => TypeOK
  BY DEF IndInv
<1>. QED BY <1>1, Invariance, PTL

\* Whichever threads submit, pop and invoke handlers, the tables under lockMap agree
\* (the assertions of popAndInvokeHandlers()) and each handler submitted is in exactly
\* one place: in the map, taken out by one thread, or invoked.
THEOREM TablesAlwaysAgree == Spec => []TablesAgree
<1>1. IndInv => NoneLost
  <2>. SUFFICES ASSUME IndInv, NEW h \in Handler, at[h] # Never
                PROVE  Cardinality({t \in DOMAIN map : h \in Range(map[t])})
                         + Cardinality({p \in Process : h \in handlers[p]})
                         + (IF h \in taken THEN 1 ELSE 0)
                         + (IF h \in invoked THEN 1 ELSE 0) = 1
    BY DEF NoneLost
  <2>. DEFINE T == {t \in DOMAIN map : h \in Range(map[t])}
              P == {p \in Process : h \in handlers[p]}
  <2>0. PlaceInv
    BY DEF IndInv
  <2>1. InMap(h) => T = {at[h]}
    BY <2>0 DEF InMap, PlaceInv
  <2>2. ~ InMap(h) => T = {}
    BY DEF InMap
  <2>3. \A p \in Process : h \in handlers[p] => P = {p}
    BY <2>0 DEF PlaceInv
  <2>4. (\A p \in Process : h \notin handlers[p]) => P = {}
    OBVIOUS
  <2>. HIDE DEF T, P
  <2>5. Cardinality({}) = 0 /\ \A x : Cardinality({x}) = 1
    BY FS_EmptySet, FS_Singleton
  <2>6. CASE InMap(h)
    <3>1. h \notin taken /\ h \notin invoked /\ P = {}
      BY <2>0, <2>4, <2>6 DEF PlaceInv
    <3>2. Cardinality(T) = 1 /\ Cardinality(P) = 0
      BY <2>1, <2>5, <2>6, <3>1
    <3>. QED BY <3>1, <3>2 DEF T, P
  <2>7. CASE ~ InMap(h) /\ \E p \in Process : h \in handlers[p]
    <3>1. h \notin taken /\ h \notin invoked /\ Cardinality(P) = 1
      BY <2>0, <2>3, <2>5, <2>7 DEF PlaceInv
    <3>2. Cardinality(T) = 0 /\ Cardinality(P) = 1
      BY <2>2, <2>5, <2>7, <3>1
    <3>. QED BY <3>1, <3>2 DEF T, P
  <2>8. CASE ~ InMap(h) /\ \A p \in Process : h \notin handlers[p]
    <3>1. h \in taken <=> h \notin invoked
      BY <2>0, <2>8 DEF PlaceInv
    <3>2. Cardinality(T) = 0 /\ Cardinality(P) = 0
      BY <2>2, <2>4, <2>5, <2>8, <3>1
    <3>. QED BY <3>1, <3>2 DEF T, P
  <2>. QED BY <2>6, <2>7, <2>8
<1>2. IndInv => TablesAgree
  BY <1>1 DEF IndInv, TablesAgree
<1>. QED BY <1>2, Invariance, PTL

\* When every thread has left an emulated timer nothing in it is due, however the
\* submissions and the moves of the time have overlapped.
THEOREM NothingOverdue == Spec => []NoneOverdue
<1>1. IndInv => NoneOverdue
  <2>. SUFFICES ASSUME IndInv, kind = "Emulated", \A p \in Process : pc[p] = "idle"
                PROVE  FirstTime > now
    BY DEF NoneOverdue
  <2>1. ~ (FirstTime <= now)
    BY DEF IndInv, DueInv
  <2>2. FirstTime \in Int /\ now \in Int
    BY FirstTimeType, TimeAssumption DEF IndInv, TypeOK, Time
  <2>. QED BY <2>1, <2>2
<1>. QED BY <1>1, Invariance, PTL

\* Every step of a timer is one of the promise, or none of its business.
LEMMA StepImplementsAlarm ==
  ASSUME IndInv, Next
  PROVE  Promise!Next \/ UNCHANGED <<now, at, invoked>>
<1>0. now \in Time /\ MaxTime \in Nat /\ now \in Int /\ Promise!Never = Never
  BY TimeAssumption DEF IndInv, TypeOK, Time, Promise!Never, Never
<1>1. ASSUME NEW p \in Process, NEW h \in Handler, NEW t \in Time, NEW id \in FreshId,
             Submit(p, h, t, id)
      PROVE  Promise!Next
  <2>1. Promise!Submit(h)
    BY <1>0, <1>1 DEF Submit, Promise!Submit, Time
  <2>. QED BY <2>1 DEF Promise!Next
<1>2. ASSUME NEW p \in Process, NEW t \in Time, Increment(p, t)
      PROVE  Promise!Next \/ UNCHANGED <<now, at, invoked>>
  <2>1. now' = t /\ now <= t /\ t \in 0..MaxTime /\ UNCHANGED <<at, invoked>>
    BY <1>2 DEF Increment, Time
  <2>2. CASE t = now
    BY <2>1, <2>2
  <2>3. CASE t # now
    <3>1. now' \in now + 1..MaxTime
      BY <2>1, <2>3, <1>0
    <3>. QED BY <2>1, <3>1 DEF Promise!Next, Promise!Advance
  <2>. QED BY <2>2, <2>3
<1>3. CASE Tick
  <2>1. now' \in now + 1..MaxTime /\ UNCHANGED <<at, invoked>>
    BY <1>0, <1>3 DEF Tick
  <2>. QED BY <2>1 DEF Promise!Next, Promise!Advance
<1>4. ASSUME NEW h \in Handler, ThreadInvoke(h) \/ \E p \in Process : Invoke(p, h)
      PROVE  Promise!Next
  <2>1. h \notin invoked /\ at[h] <= now
    BY <1>4 DEF ThreadInvoke, Invoke, IndInv, PlaceInv
  <2>2. Promise!Invoke(h)
    BY <1>4, <2>1 DEF ThreadInvoke, Invoke, Promise!Invoke
  <2>. QED BY <2>2 DEF Promise!Next
<1>5. ASSUME \/ \E p \in Process : \/ Destroy(p) \/ ReadTime(p) \/ Look(p)
                                   \/ PopHandlers(p) \/ Notify(p) \/ Join(p)
             \/ ThreadLook \/ ThreadCheck \/ ThreadBlocks \/ ThreadTimesOut \/ ThreadPop
      PROVE  UNCHANGED <<now, at, invoked>>
  BY <1>5 DEF Destroy, ReadTime, Look, PopHandlers, Notify, Join, ThreadLook, ThreadCheck,
              ThreadBlocks, ThreadTimesOut, ThreadPop
<1>. QED BY <1>1, <1>2, <1>3, <1>4, <1>5 DEF Next, ProcessStep, ThreadStep

\* A timer of either class keeps the promise of module Alarm: a handler is invoked once
\* and never before its time.
THEOREM KeepsAlarm == Spec => ImplementsAlarm
<1>1. Init => Promise!Init
  BY DEF Init, Promise!Init, Never, Promise!Never
<1>2. IndInv /\ [Next]_vars => [Promise!Next]_<<now, at, invoked>>
  <2>1. UNCHANGED vars => UNCHANGED <<now, at, invoked>>
    BY DEF vars
  <2>. QED BY <2>1, StepImplementsAlarm
<1>. QED BY <1>1, <1>2, Invariance, PTL DEF Spec, ImplementsAlarm, Promise!Spec
=============================================================================
