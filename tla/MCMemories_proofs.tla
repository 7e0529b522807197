------------------------- MODULE MCMemories_proofs -------------------------
(***************************************************************************)
(* Proofs about the memory adapters, for any set of messages and of calls. *)
(*                                                                         *)
(* SQLite: the history is cleared only while no append is in flight, and   *)
(* the statement that inserts a row finds the table without gaps.          *)
(*                                                                         *)
(* MongoDB: if appends do not overlap, the number an append has read stays *)
(* above all numbers in the collection until it is inserted, so that there *)
(* is one order in which loadHistory can return the documents, and an      *)
(* append adds to its end.  No index makes this so: that there is only one *)
(* order is part of the invariant.                                         *)
(***************************************************************************)
EXTENDS MCMemories, FiniteSetTheorems, SequenceTheorems, TLAPS

-----------------------------------------------------------------------------
(* SQLite.                                                                 *)

(* The rows 0, 1, ..., n-1 are n rows, and adding row n makes n+1.         *)
LEMMA Segment ==
    ASSUME NEW n \in Nat
    PROVE  /\ IsFiniteSet(0..(n - 1)) /\ Cardinality(0..(n - 1)) = n
           /\ 0..(n - 1) \cup {n} = 0..n
<1>1. IsFiniteSet(0..(n - 1)) /\ Cardinality(0..(n - 1)) = n
  BY FS_Interval
<1>2. QED
  BY <1>1

(* The next index of a table without gaps is the number of its rows.       *)
LEMMA NextIndexIsCount ==
    ASSUME TypeOK, Indexes = 0..(Cardinality(Indexes) - 1)
    PROVE  /\ Cardinality(Indexes) \in Nat
           /\ NextIndex = Cardinality(Indexes)
<1> DEFINE n == Cardinality(Indexes)
           top == CHOOSE i \in Indexes : \A j \in Indexes : j <= i
<1>1. n \in Nat
  BY FS_CardinalityType DEF TypeOK
<1>2. CASE n = 0
  <2>1. Indexes = {}
    BY <1>2, FS_EmptySet DEF TypeOK
  <2>2. QED
    BY <1>1, <1>2, <2>1 DEF NextIndex
<1>3. CASE n # 0
  <2>1. n - 1 \in Indexes /\ \A j \in Indexes : j <= n - 1
    BY <1>1, <1>3
  <2>2. top \in Indexes /\ \A j \in Indexes : j <= top
    BY <2>1
  <2>3. top = n - 1
    BY <1>1, <2>1, <2>2
  <2>4. QED
    BY <1>1, <2>1, <2>3 DEF NextIndex
<1>4. QED
  BY <1>2, <1>3

(* Such a table is read in the order of its numbers.                       *)
ReadByIndex == History = [k \in 1..Cardinality(Indexes) |-> rows[k - 1]]

LEMMA HistoryByIndex == TypeOK /\ Contiguous => ReadByIndex
<1> SUFFICES ASSUME TypeOK, Contiguous PROVE ReadByIndex
  OBVIOUS
<1> DEFINE n == Cardinality(Indexes)
<1>1. n \in Nat /\ Indexes = 0..(n - 1)
  BY NextIndexIsCount DEF Contiguous
<1> HIDE DEF n
<1>2. ASSUME NEW k \in Indexes PROVE Rank(k) = k
  <2>1. k \in Nat /\ {j \in Indexes : j < k} = 0..(k - 1)
    BY <1>1
  <2>2. QED
    BY <2>1, Segment DEF Rank
<1>3. ASSUME NEW k \in 1..n
      PROVE  IndexAt(k) = k - 1
  <2>1. k - 1 \in Indexes
    BY <1>1
  <2>2. \A i \in Indexes : Rank(i) = k - 1 <=> i = k - 1
    BY <1>2
  <2>3. QED
    BY <2>1, <2>2 DEF IndexAt
<1>4. QED
  BY <1>3 DEF History, ReadByIndex, n

-----------------------------------------------------------------------------
(* The inductive invariant. *)

LEMMA InvInit == Init => IInv
<1> SUFFICES ASSUME Init PROVE IInv
  OBVIOUS
<1>1. Indexes = {} /\ IsFiniteSet(Indexes) /\ Cardinality(Indexes) = 0
  BY FS_EmptySet DEF Init, Empty, Indexes
<1>2. TypeOK
  BY <1>1 DEF Init, TypeOK, Empty, Statuses
<1>3. Contiguous
  BY <1>1 DEF Init, Contiguous
<1>4. RowsAreStored
  BY <1>1 DEF RowsAreStored
<1>5. FreshUnread
  BY DEF Init, FreshUnread
<1>6. QED
  BY <1>2, <1>3, <1>4, <1>5 DEF IInv

(* An insert puts its message in the row after the last one.               *)
LEMMA InsertAtEnd ==
    ASSUME IInv, NEW m \in Messages, Insert(m)
    PROVE  /\ next[m] = Cardinality(Indexes)
           /\ Indexes' = 0..Cardinality(Indexes)
           /\ Cardinality(Indexes') = Cardinality(Indexes) + 1
           /\ IsFiniteSet(Indexes')
           /\ rows' = [i \in 0..Cardinality(Indexes) |->
                          IF i = next[m] THEN m ELSE rows[i]]
<1> DEFINE n == Cardinality(Indexes)
<1>1. n \in Nat /\ Indexes = 0..(n - 1)
  BY NextIndexIsCount DEF IInv, Contiguous
<1>2. next[m] \in Nat /\ next[m] <= n /\ next[m] \notin Indexes
  BY DEF IInv, TypeOK, Contiguous, Insert
<1> HIDE DEF n
<1>3. next[m] = n
  BY <1>1, <1>2
<1>4. Indexes \cup {next[m]} = 0..n
  BY <1>1, <1>3, Segment
<1>5. rows' = [i \in 0..n |-> IF i = next[m] THEN m ELSE rows[i]]
  BY <1>4 DEF Insert
<1>6. Indexes' = 0..n
  BY <1>5 DEF Indexes
<1>7. IsFiniteSet(0..n) /\ Cardinality(0..n) = n + 1
  BY <1>1, FS_Interval
<1>8. QED
  BY <1>3, <1>5, <1>6, <1>7 DEF n

LEMMA InvInsert ==
    ASSUME IInv, NEW m \in Messages, Insert(m)
    PROVE  IInv'
<1> DEFINE n == Cardinality(Indexes)
<1>1. n \in Nat /\ Indexes = 0..(n - 1)
  BY NextIndexIsCount DEF IInv, Contiguous
<1>2. /\ next[m] = n /\ Indexes' = 0..n /\ Cardinality(Indexes') = n + 1
      /\ IsFiniteSet(Indexes')
      /\ rows' = [i \in 0..n |-> IF i = next[m] THEN m ELSE rows[i]]
  BY InsertAtEnd
<1>3. /\ status' = [status EXCEPT ![m] = "stored"]
      /\ next' = next /\ open' = open /\ status[m] = "asked"
  BY DEF Insert
<1> HIDE DEF n
<1>4. TypeOK'
  <2>1. Indexes' \subseteq Nat
    BY <1>1, <1>2
  <2>2. rows' \in [Indexes' -> Messages]
    <3>1. \A i \in 0..n : i # n => rows[i] \in Messages
      BY <1>1 DEF IInv, TypeOK
    <3>2. rows' \in [0..n -> Messages]
      BY <1>2, <3>1
    <3>3. QED
      BY <1>2, <3>2
  <2>3. status' \in [Messages -> Statuses]
    BY <1>3 DEF IInv, TypeOK, Statuses
  <2>4. QED
    BY <1>2, <1>3, <2>1, <2>2, <2>3 DEF IInv, TypeOK
<1>5. Contiguous'
  <2>1. Indexes' = 0..(Cardinality(Indexes') - 1)
    BY <1>1, <1>2
  <2>2. ASSUME NEW k \in Messages, status'[k] = "asked", next'[k] # None
        PROVE  next'[k] <= Cardinality(Indexes')
    <3>1. status[k] = "asked" /\ next[k] # None /\ next[k] \in Nat
      BY <1>3, <2>2 DEF IInv, TypeOK
    <3>2. next[k] <= n
      BY <3>1 DEF IInv, Contiguous, n
    <3>3. QED
      BY <1>1, <1>2, <1>3, <3>1, <3>2
  <2>3. QED
    BY <2>1, <2>2 DEF Contiguous
<1>6. RowsAreStored'
  <2>1. ASSUME NEW i \in 0..n
        PROVE  /\ status'[rows'[i]] = "stored"
               /\ i # n => rows'[i] = rows[i] /\ rows[i] # m
               /\ i = n => rows'[i] = m
    <3>1. CASE i = n
      BY <1>2, <1>3, <3>1 DEF IInv, TypeOK
    <3>2. CASE i # n
      <4>1. i \in Indexes /\ rows'[i] = rows[i]
        BY <1>1, <1>2, <3>2
      <4>2. rows[i] \in Messages /\ status[rows[i]] = "stored"
        BY <4>1 DEF IInv, TypeOK, RowsAreStored
      <4>3. QED
        BY <1>3, <3>2, <4>1, <4>2 DEF IInv, TypeOK
    <3>3. QED
      BY <3>1, <3>2
  <2>2. \A i, j \in Indexes : rows[i] = rows[j] => i = j
    BY DEF IInv, RowsAreStored
  <2>3. ASSUME NEW i \in 0..n, NEW j \in 0..n, rows'[i] = rows'[j]
        PROVE  i = j
    BY <1>1, <2>1, <2>2, <2>3
  <2>4. QED
    BY <1>2, <2>1, <2>3 DEF RowsAreStored
<1>7. FreshUnread'
  BY <1>3 DEF IInv, TypeOK, FreshUnread
<1>8. QED
  BY <1>4, <1>5, <1>6, <1>7 DEF IInv

LEMMA InvNext ==
    ASSUME NoneIsNoIndex, ClearWhileAppending = FALSE, IInv, [Next]_vars
    PROVE  IInv'
<1>1. ASSUME NEW m \in Messages, AppendMessage(m) PROVE IInv'
  <2> USE <1>1 DEF AppendMessage, Indexes
  <2>1. TypeOK'
    BY DEF IInv, TypeOK, Statuses
  <2>2. Contiguous'
    BY DEF IInv, TypeOK, Contiguous, FreshUnread
  <2>3. RowsAreStored'
    BY DEF IInv, TypeOK, RowsAreStored
  <2>4. FreshUnread'
    BY DEF IInv, TypeOK, FreshUnread
  <2>5. QED
    BY <2>1, <2>2, <2>3, <2>4 DEF IInv
<1>2. ASSUME NEW m \in Messages, SelectMax(m) PROVE IInv'
  <2>1. NextIndex \in Nat /\ NextIndex = Cardinality(Indexes)
    BY NextIndexIsCount DEF IInv, Contiguous
  <2>2. TypeOK'
    BY <1>2, <2>1 DEF IInv, TypeOK, Indexes, SelectMax
  <2>3. Contiguous'
    BY <1>2, <2>1 DEF IInv, TypeOK, Contiguous, Indexes, SelectMax
  <2>4. RowsAreStored'
    BY <1>2 DEF IInv, RowsAreStored, Indexes, SelectMax
  <2>5. FreshUnread'
    BY <1>2 DEF IInv, TypeOK, FreshUnread, SelectMax
  <2>6. QED
    BY <2>2, <2>3, <2>4, <2>5 DEF IInv
<1>3. ASSUME NEW m \in Messages, Insert(m) PROVE IInv'
  BY <1>3, InvInsert
<1>4. ASSUME NEW m \in Messages, Reject(m) PROVE IInv'
  <2> USE <1>4 DEF Reject, Indexes
  <2>1. TypeOK'
    BY DEF IInv, TypeOK, Statuses
  <2>2. Contiguous'
    BY DEF IInv, TypeOK, Contiguous, FreshUnread
  <2>3. RowsAreStored'
    BY DEF IInv, TypeOK, RowsAreStored
  <2>4. FreshUnread'
    BY DEF IInv, TypeOK, FreshUnread
  <2>5. QED
    BY <2>1, <2>2, <2>3, <2>4 DEF IInv
<1>5. CASE ClearHistory
  <2>1. Indexes' = {} /\ IsFiniteSet(Indexes') /\ Cardinality(Indexes') = 0
    BY <1>5, FS_EmptySet DEF ClearHistory, Empty, Indexes
  <2>2. TypeOK'
    BY <1>5, <2>1 DEF IInv, TypeOK, ClearHistory, Empty
  <2>3. \A m \in Messages : status'[m] # "asked"
    BY <1>5 DEF ClearHistory
  <2>4. Contiguous'
    BY <2>1, <2>3 DEF Contiguous
  <2>5. RowsAreStored'
    BY <2>1 DEF RowsAreStored
  <2>6. FreshUnread'
    BY <1>5 DEF IInv, FreshUnread, ClearHistory
  <2>7. QED
    BY <2>2, <2>4, <2>5, <2>6 DEF IInv
<1>6. CASE Close
  BY <1>6 DEF Close, IInv, TypeOK, Contiguous, RowsAreStored, FreshUnread,
           Indexes
<1>7. CASE UNCHANGED vars
  BY <1>7 DEF vars, IInv, TypeOK, Contiguous, RowsAreStored, FreshUnread,
           Indexes
<1>8. QED
  BY <1>1, <1>2, <1>3, <1>4, <1>5, <1>6, <1>7 DEF Next

(* However the two statements of concurrent appends interleave and         *)
(* whichever of them fail, the rows of a chat are numbered without gaps    *)
(* and hold each stored message once.                                      *)
THEOREM Invariance ==
    ASSUME ClearWhileAppending = FALSE
    PROVE  Spec => []IInv
<1>1. Init => IInv
  BY InvInit
<1>2. IInv /\ [Next]_vars => IInv'
  BY InvNext, NoneIsNoIndex
<1>3. QED
  BY <1>1, <1>2, PTL DEF Spec

(* The numbering itself: no later message can slip in before one that was  *)
(* stored earlier.                                                         *)
THEOREM NumberedWithoutGaps ==
    ASSUME ClearWhileAppending = FALSE
    PROVE  Spec => []Contiguous
<1>1. IInv => Contiguous
  BY DEF IInv
<1>2. QED
  BY <1>1, Invariance, PTL

-----------------------------------------------------------------------------
(* The adapter implements the log. *)

LEMMA LogInsert ==
    ASSUME IInv, IInv', NEW m \in Messages, Insert(m)
    PROVE  History' = Append(History, m)
<1> DEFINE n == Cardinality(Indexes)
<1>1. n \in Nat
  BY NextIndexIsCount DEF IInv, Contiguous
<1>2. History = [k \in 1..n |-> rows[k - 1]]
  BY HistoryByIndex DEF IInv, ReadByIndex
<1>3. History' = [k \in 1..Cardinality(Indexes') |-> rows'[k - 1]]
  <2>1. TypeOK' /\ Contiguous'
    BY DEF IInv
  <2>2. ReadByIndex'
    BY <2>1, HistoryByIndex, PTL
  <2>3. QED
    BY <2>2 DEF ReadByIndex
<1>4. /\ next[m] = n /\ Cardinality(Indexes') = n + 1
      /\ rows' = [i \in 0..n |-> IF i = next[m] THEN m ELSE rows[i]]
  BY InsertAtEnd
<1> HIDE DEF n
<1>5. \A k \in 1..n : rows[k - 1] \in Messages
  BY <1>1, NextIndexIsCount DEF IInv, TypeOK, Contiguous, n
<1>6. History \in Seq(Messages) /\ Len(History) = n
  BY <1>1, <1>2, <1>5
<1>7. \A k \in 1..(n + 1) :
        rows'[k - 1] = IF k = n + 1 THEN m ELSE rows[k - 1]
  BY <1>1, <1>4
<1>8. Append(History, m) = [k \in 1..(n + 1) |->
                               IF k = n + 1 THEN m ELSE rows[k - 1]]
  BY <1>1, <1>2, <1>6
<1>9. QED
  BY <1>3, <1>4, <1>7, <1>8

LEMMA SameRows ==
    ASSUME rows' = rows PROVE History' = History
BY DEF History, IndexAt, Rank, Indexes

LEMMA EmptyHistory ==
    ASSUME Indexes = {} PROVE History = << >>
<1>1. Cardinality(Indexes) = 0
  BY FS_EmptySet
<1>2. QED
  BY <1>1 DEF History

(* The adapter implements the log of ConversationMemory: with any number   *)
(* of appends in flight and any failures, every append takes effect at the *)
(* end of the history, once, or is refused and leaves no trace.            *)
THEOREM Implements ==
    ASSUME ClearWhileAppending = FALSE
    PROVE  Spec => ImplementsLog
<1>1. Init => Log!Init
  <2> SUFFICES ASSUME Init PROVE Log!Init
    OBVIOUS
  <2>1. Indexes = {}
    BY DEF Init, Empty, Indexes
  <2>2. History = << >>
    BY <2>1, EmptyHistory
  <2>3. QED
    BY <2>2 DEF Init, Log!Init
<1>2. ASSUME IInv, IInv', [Next]_vars
      PROVE  [Log!Next]_(Log!vars)
  <2>1. ASSUME NEW m \in Messages, AppendMessage(m) PROVE Log!Append_Ask(m)
    BY <2>1, SameRows DEF AppendMessage, Log!Append_Ask
  <2>2. ASSUME NEW m \in Messages, SelectMax(m) PROVE UNCHANGED Log!vars
    BY <2>2, SameRows DEF SelectMax, Log!vars
  <2>3. ASSUME NEW m \in Messages, Insert(m) PROVE Log!Append_Store(m)
    BY <1>2, <2>3, LogInsert DEF Insert, Log!Append_Store
  <2>4. ASSUME NEW m \in Messages, Reject(m) PROVE Log!Append_Refuse(m)
    BY <2>4, SameRows DEF Reject, Log!Append_Refuse
  <2>5. CASE ClearHistory
    <3>1. Cardinality(Indexes') = 0
      BY <2>5, FS_EmptySet DEF ClearHistory, Empty, Indexes
    <3>2. History' = << >>
      BY <3>1 DEF History
    <3>3. QED
      BY <2>5, <3>2 DEF ClearHistory, Log!Clear, Log!Next
  <2>6. CASE Close \/ UNCHANGED vars
    <3>1. History' = History /\ status' = status
      BY <2>6, SameRows DEF Close, vars
    <3>2. QED
      BY <3>1 DEF Log!vars
  <2>7. QED
    BY <1>2, <2>1, <2>2, <2>3, <2>4, <2>5, <2>6 DEF Next, Log!Next
<1>3. QED
  BY <1>1, <1>2, Invariance, PTL DEF Spec, Log!Spec, ImplementsLog

-----------------------------------------------------------------------------
(* The adapter that has been chosen takes its steps, the others none.      *)
LEMMA AdapterRuns ==
    /\ AdapterSpec => Mongo!Spec
    /\ AdapterSpec => Chroma!Spec
<1>1. AdapterInit => Mongo!Init /\ Chroma!Init
  BY DEF AdapterInit
<1>2. [AdapterNext]_<<adapter, vars, mongoVars, chromaVars>>
         => [Mongo!Next]_(Mongo!vars) /\ [Chroma!Next]_(Chroma!vars)
  BY DEF AdapterNext, mongoVars, chromaVars, Mongo!vars, Chroma!vars, Chroma!serviceVars
<1> QED BY <1>1, <1>2, PTL DEF AdapterSpec, Mongo!Spec, Chroma!Spec

-----------------------------------------------------------------------------
(* MongoDB.                                                                *)

(* The documents D in the order of their numbers. *)
Ordered(D, number) ==
    {h \in [1..Cardinality(D) -> D] :
        \A i, j \in 1..Cardinality(D) : i < j =>
            h[i] # h[j] /\ number[h[i]] <= number[h[j]]}

(* There is one such order, and it has all of them. *)
OneOrder(D, number) ==
    \E h \in Ordered(D, number) :
        /\ D = {h[i] : i \in 1..Cardinality(D)}
        /\ \A g \in Ordered(D, number) : g = h

MongoInv ==
    /\ Mongo!TypeOK
    /\ \A m, k \in MongoMessages :
          mongoStatus[m] = "asked" /\ mongoStatus[k] = "asked" => m = k
    /\ \A m \in MongoMessages : mongoStatus[m] = "new" => mongoNext[m] = None
    /\ \A m \in Mongo!Documents : mongoStatus[m] = "stored"
    /\ \A m \in MongoMessages : mongoStatus[m] = "asked" /\ mongoNext[m] # None =>
          \A k \in Mongo!Documents : mongoIndex[k] < mongoNext[m]
    /\ IsFiniteSet(Mongo!Documents)
    /\ OneOrder(Mongo!Documents, mongoIndex)

(* The Cardinality of module MongoDBConversationMemory is this module's.   *)
LEMMA SameCount == \A S : Mongo!Cardinality(S) = Cardinality(S)
  BY DEF Cardinality, Mongo!Cardinality

LEMMA HistoriesAreOrdered == Mongo!Histories = Ordered(Mongo!Documents, mongoIndex)
<1>1. Mongo!Cardinality(Mongo!Documents) = Cardinality(Mongo!Documents)
  BY SameCount
<1> DEFINE n == Cardinality(Mongo!Documents)
<1>2. Mongo!Histories =
        {h \in [1..n -> Mongo!Documents] :
           \A i, j \in DOMAIN h : i < j => /\ h[i] # h[j]
                                          /\ mongoIndex[h[i]] <= mongoIndex[h[j]]}
  BY <1>1 DEF Mongo!Histories
<1>3. Ordered(Mongo!Documents, mongoIndex) =
        {h \in [1..n -> Mongo!Documents] :
           \A i, j \in 1..n : i < j => /\ h[i] # h[j]
                                      /\ mongoIndex[h[i]] <= mongoIndex[h[j]]}
  BY DEF Ordered
<1> HIDE DEF n
<1> QED BY <1>2, <1>3

LEMMA NoDocuments ==
    ASSUME NEW number
    PROVE  /\ Ordered({}, number) = {<< >>} /\ OneOrder({}, number)
<1>1. Cardinality({}) = 0
  BY FS_EmptySet
<1>2. [1..0 -> {}] = {<< >>}
  <2>1. ASSUME NEW h \in [1..0 -> {}] PROVE h = << >>
    <3>1. h = [i \in 1..0 |-> h[i]]
      OBVIOUS
    <3>2. [i \in 1..0 |-> h[i]] = << >>
      OBVIOUS
    <3> QED BY <3>1, <3>2
  <2>2. << >> \in [1..0 -> {}]
    OBVIOUS
  <2> QED BY <2>1, <2>2
<1>3. Ordered({}, number) = {<< >>}
  BY <1>1, <1>2 DEF Ordered
<1> QED BY <1>1, <1>3 DEF OneOrder

(* A document whose number is above the others goes to the end. *)
LEMMA OrderedAppend ==
    ASSUME NEW D, IsFiniteSet(D), NEW m, m \notin D, NEW old, NEW new,
           \A k \in D : old[k] \in Nat /\ new[k] = old[k] /\ old[k] < new[m],
           new[m] \in Nat, NEW h \in Ordered(D, old),
           D = {h[i] : i \in 1..Cardinality(D)},
           \A g \in Ordered(D, old) : g = h
    PROVE  /\ Append(h, m) \in Ordered(D \cup {m}, new)
           /\ OneOrder(D \cup {m}, new)
           /\ \A g \in Ordered(D \cup {m}, new) : g = Append(h, m)
<1> DEFINE n == Cardinality(D)
           E == D \cup {m}
           l == [i \in 1..n+1 |-> IF i = n + 1 THEN m ELSE h[i]]
<1>1. n \in Nat /\ IsFiniteSet(E) /\ Cardinality(E) = n + 1
  BY FS_CardinalityType, FS_AddElement
<1>2. /\ h \in [1..n -> D]
      /\ \A i, j \in 1..n : i < j => h[i] # h[j] /\ old[h[i]] <= old[h[j]]
  BY DEF Ordered
<1> HIDE DEF n
<1>3. Append(h, m) = l
  <2>1. h \in Seq(E) /\ Len(h) = n /\ m \in E
    BY <1>1, <1>2
  <2>2. /\ Append(h, m) \in Seq(E) /\ Len(Append(h, m)) = n + 1
        /\ \A i \in 1..n+1 : Append(h, m)[i] = IF i = n + 1 THEN m ELSE h[i]
    BY <1>1, <2>1, AppendProperties
  <2>3. Append(h, m) \in [1..n+1 -> E]
    BY <2>2, LenProperties
  <2>4. Append(h, m) = [i \in 1..n+1 |-> Append(h, m)[i]]
    BY <2>3
  <2> QED BY <2>2, <2>4
<1>4. l \in [1..n+1 -> E] /\ l[n + 1] = m /\ \A i \in 1..n : l[i] = h[i] /\ l[i] \in D
  BY <1>1, <1>2
<1> HIDE DEF l
<1>5. ASSUME NEW i \in 1..n+1, NEW j \in 1..n+1, i < j
      PROVE  l[i] # l[j] /\ new[l[i]] <= new[l[j]]
  <2>1. i \in 1..n
    BY <1>1, <1>5
  <2>2. CASE j = n + 1
    BY <1>4, <2>1, <2>2
  <2>3. CASE j \in 1..n
    BY <1>2, <1>4, <1>5, <2>1, <2>3
  <2> QED BY <1>1, <2>2, <2>3
<1>6. l \in Ordered(E, new)
  BY <1>1, <1>4, <1>5 DEF Ordered
<1>7. E = {l[i] : i \in 1..n+1}
  <2>1. D = {h[i] : i \in 1..n}
    BY DEF n
  <2>2. \A k \in E : \E i \in 1..n+1 : l[i] = k
    BY <1>1, <1>4, <2>1
  <2> QED BY <1>4, <2>2
<1>8. ASSUME NEW g \in Ordered(E, new)
      PROVE  g = l
  <2>1. /\ g \in [1..n+1 -> E]
        /\ \A i, j \in 1..n+1 : i < j => g[i] # g[j] /\ new[g[i]] <= new[g[j]]
    BY <1>1 DEF Ordered
  <2>2. \A i \in 1..n : g[i] # m
    <3> SUFFICES ASSUME NEW i \in 1..n, g[i] = m
                 PROVE  FALSE
      OBVIOUS
    <3>1. i < i + 1 /\ i \in 1..n+1 /\ i + 1 \in 1..n+1
      BY <1>1
    <3>2. g[i + 1] # m /\ new[m] <= new[g[i + 1]]
      BY <2>1, <3>1
    <3>3. g[i + 1] \in D
      BY <2>1, <3>1, <3>2
    <3> QED BY <3>2, <3>3
  <2>3. \A i \in 1..n : g[i] \in D
    BY <1>1, <2>1, <2>2
  <2> DEFINE f == [i \in 1..n |-> g[i]]
  <2>4. f \in Ordered(D, old)
    <3>1. f \in [1..n -> D] /\ \A i \in 1..n : f[i] = g[i] /\ i \in 1..n+1
      BY <1>1, <2>3
    <3>2. \A i, j \in 1..n : i < j => f[i] # f[j] /\ old[f[i]] <= old[f[j]]
      BY <2>1, <2>3, <3>1
    <3> QED BY <3>1, <3>2 DEF Ordered, n
  <2>5. \A i \in 1..n : g[i] = h[i]
    BY <2>4
  <2>6. g[n + 1] = m
    <3> SUFFICES ASSUME g[n + 1] \in D
                 PROVE  FALSE
      BY <1>1, <2>1
    <3>1. PICK i \in 1..n : h[i] = g[n + 1]
      BY DEF n
    <3>2. i < n + 1 /\ i \in 1..n+1 /\ n + 1 \in 1..n+1
      BY <1>1
    <3> QED BY <2>1, <2>5, <3>1, <3>2
  <2>7. \A i \in 1..n+1 : g[i] = l[i]
    BY <1>1, <1>4, <2>5, <2>6
  <2>8. g = [i \in 1..n+1 |-> g[i]] /\ l = [i \in 1..n+1 |-> l[i]]
    BY <1>4, <2>1
  <2> QED BY <2>7, <2>8
<1> QED BY <1>1, <1>3, <1>6, <1>7, <1>8 DEF OneOrder

LEMMA MongoInit == Mongo!Init => MongoInv
<1> SUFFICES ASSUME Mongo!Init PROVE MongoInv
  OBVIOUS
<1>1. Mongo!Documents = {}
  BY DEF Mongo!Init, Mongo!Documents
<1>2. Mongo!TypeOK
  BY DEF Mongo!Init, Mongo!TypeOK, Mongo!Statuses
<1>3. IsFiniteSet(Mongo!Documents) /\ OneOrder(Mongo!Documents, mongoIndex)
  BY <1>1, FS_EmptySet, NoDocuments
<1> QED
  BY <1>1, <1>2, <1>3 DEF MongoInv, Mongo!Init

(* The number an append reads is above those of all documents. *)
LEMMA NextIsAbove ==
    ASSUME MongoInv
    PROVE  /\ Mongo!NextIndex \in Nat
           /\ \A k \in Mongo!Documents : mongoIndex[k] < Mongo!NextIndex
<1> DEFINE D == Mongo!Documents
           n == Cardinality(D)
           Last(m) == m \in D /\ \A k \in D : mongoIndex[k] <= mongoIndex[m]
           top == CHOOSE m \in D : \A k \in D : mongoIndex[k] <= mongoIndex[m]
<1>1. n \in Nat /\ \A m \in D : mongoIndex[m] \in Nat
  BY FS_CardinalityType, NoneIsNoIndex DEF MongoInv, Mongo!TypeOK, Mongo!Documents
<1>2. CASE D = {}
  BY <1>2 DEF Mongo!NextIndex
<1>3. CASE D # {}
  <2>1. PICK h \in Ordered(D, mongoIndex) : D = {h[i] : i \in 1..n}
    BY DEF MongoInv, OneOrder
  <2>2. n \in 1..n
    BY <1>1, <1>3, <2>1
  <2>3. \A i \in 1..n : mongoIndex[h[i]] <= mongoIndex[h[n]]
    BY <1>1, <2>1, <2>2 DEF Ordered
  <2>4. Last(h[n])
    BY <2>1, <2>2, <2>3
  <2>5. Last(top)
    BY <2>4
  <2>6. Mongo!NextIndex = mongoIndex[top] + 1
    BY <1>3 DEF Mongo!NextIndex
  <2> HIDE DEF top
  <2> QED BY <1>1, <2>5, <2>6
<1> QED BY <1>2, <1>3

(* What the invariant says of the documents depends on mongoIndex alone. *)
LEMMA SameDocuments ==
    ASSUME mongoIndex' = mongoIndex
    PROVE  /\ Mongo!Documents' = Mongo!Documents
           /\ Ordered(Mongo!Documents, mongoIndex)' = Ordered(Mongo!Documents, mongoIndex)
           /\ OneOrder(Mongo!Documents, mongoIndex)' = OneOrder(Mongo!Documents, mongoIndex)
           /\ Mongo!Histories' = Mongo!Histories
<1>1. Mongo!Documents' = Mongo!Documents
  BY DEF Mongo!Documents
<1> QED BY <1>1 DEF Ordered, OneOrder, Mongo!Histories

LEMMA AskMongo ==
    ASSUME MaxAppends = 1, MongoInv, NEW m \in MongoMessages, Mongo!AppendMessage(m)
    PROVE  MongoInv'
<1> DEFINE asked == {k \in MongoMessages : mongoStatus[k] = "asked"}
<1>1. asked = {}
  <2>1. SUFFICES ASSUME NEW k \in asked PROVE FALSE
    OBVIOUS
  <2>2. asked = {k}
    BY DEF MongoInv
  <2>3. Cardinality(asked) = 1
    BY <2>2, FS_Singleton
  <2>4. Cardinality(asked) < 1
    BY SameCount DEF Mongo!AppendMessage
  <2> QED BY <2>3, <2>4
<1>2. /\ mongoStatus[m] = "new" /\ mongoNext[m] = None
      /\ mongoStatus' = [mongoStatus EXCEPT ![m] = "asked"]
      /\ mongoNext' = mongoNext /\ mongoIndex' = mongoIndex
      /\ mongoCollection' = mongoCollection
  BY DEF Mongo!AppendMessage, MongoInv
<1>3. Mongo!TypeOK'
  BY <1>2 DEF MongoInv, Mongo!TypeOK, Mongo!Statuses
<1>4. m \notin Mongo!Documents
  BY <1>2 DEF MongoInv
<1> QED
  BY <1>1, <1>2, <1>3, <1>4, SameDocuments DEF MongoInv, Mongo!TypeOK, Mongo!Documents

LEMMA FindMongo ==
    ASSUME MongoInv, NEW m \in MongoMessages, Mongo!FindLast(m)
    PROVE  MongoInv'
<1>1. /\ mongoStatus[m] = "asked"
      /\ mongoNext' = [mongoNext EXCEPT ![m] = Mongo!NextIndex]
      /\ mongoStatus' = mongoStatus /\ mongoIndex' = mongoIndex
      /\ mongoCollection' = mongoCollection
  BY DEF Mongo!FindLast
<1>2. /\ Mongo!NextIndex \in Nat
      /\ \A k \in Mongo!Documents : mongoIndex[k] < Mongo!NextIndex
  BY NextIsAbove
<1>3. Mongo!TypeOK'
  BY <1>1, <1>2 DEF MongoInv, Mongo!TypeOK, Mongo!Statuses
<1> QED
  BY <1>1, <1>2, <1>3, SameDocuments DEF MongoInv, Mongo!TypeOK

(* The log, and what it is if there is only one order. *)
MongoLog == CHOOSE h \in Mongo!Histories : TRUE

LEMMA LogIsTheOrder ==
    ASSUME MongoInv
    PROVE  /\ MongoLog \in Ordered(Mongo!Documents, mongoIndex)
           /\ Mongo!Documents = {MongoLog[i] : i \in 1..Cardinality(Mongo!Documents)}
           /\ \A g \in Ordered(Mongo!Documents, mongoIndex) : g = MongoLog
<1>1. PICK h \in Ordered(Mongo!Documents, mongoIndex) :
         /\ Mongo!Documents = {h[i] : i \in 1..Cardinality(Mongo!Documents)}
         /\ \A g \in Ordered(Mongo!Documents, mongoIndex) : g = h
  BY DEF MongoInv, OneOrder
<1>2. MongoLog \in Ordered(Mongo!Documents, mongoIndex)
  BY <1>1, HistoriesAreOrdered DEF MongoLog
<1>3. MongoLog = h
  BY <1>1, <1>2
<1> QED BY <1>1, <1>3

LEMMA InsertMongo ==
    ASSUME MongoInv, NEW m \in MongoMessages, Mongo!InsertOne(m)
    PROVE  MongoInv' /\ MongoLog' = Append(MongoLog, m)
<1> DEFINE D == Mongo!Documents
<1>1. /\ mongoStatus[m] = "asked" /\ mongoNext[m] # None
      /\ mongoIndex' = [mongoIndex EXCEPT ![m] = mongoNext[m]]
      /\ mongoStatus' = [mongoStatus EXCEPT ![m] = "stored"]
      /\ mongoNext' = mongoNext /\ mongoCollection' = mongoCollection
  BY DEF Mongo!InsertOne
<1>2. m \notin D /\ mongoNext[m] \in Nat
  BY <1>1 DEF MongoInv, Mongo!TypeOK
<1>3. Mongo!TypeOK'
  BY <1>1, <1>2 DEF MongoInv, Mongo!TypeOK, Mongo!Statuses
<1>4. Mongo!Documents' = D \cup {m}
  BY <1>1, <1>2 DEF MongoInv, Mongo!TypeOK, Mongo!Documents
<1>5. /\ mongoIndex'[m] \in Nat
      /\ \A k \in D : /\ mongoIndex[k] \in Nat /\ mongoIndex'[k] = mongoIndex[k]
                      /\ mongoIndex[k] < mongoIndex'[m]
  BY <1>1, <1>2, NoneIsNoIndex DEF MongoInv, Mongo!TypeOK, Mongo!Documents
<1>6. IsFiniteSet(D)
  BY DEF MongoInv
<1>7. /\ Append(MongoLog, m) \in Ordered(D \cup {m}, mongoIndex')
      /\ OneOrder(D \cup {m}, mongoIndex')
      /\ \A g \in Ordered(D \cup {m}, mongoIndex') : g = Append(MongoLog, m)
  BY <1>2, <1>5, <1>6, LogIsTheOrder, OrderedAppend
<1>8. IsFiniteSet(D \cup {m})
  BY <1>6, FS_AddElement
<1>9. MongoInv'
  <2>1. \A k, j \in MongoMessages :
           mongoStatus'[k] = "asked" /\ mongoStatus'[j] = "asked" => k = j
    BY <1>1 DEF MongoInv, Mongo!TypeOK
  <2>2. \A k \in MongoMessages : mongoStatus'[k] = "new" => mongoNext'[k] = None
    BY <1>1 DEF MongoInv, Mongo!TypeOK
  <2>3. \A k \in D \cup {m} : mongoStatus'[k] = "stored"
    BY <1>1 DEF MongoInv, Mongo!TypeOK, Mongo!Documents
  <2>4. \A k \in MongoMessages : mongoStatus'[k] # "asked"
    BY <1>1 DEF MongoInv, Mongo!TypeOK
  <2> QED
    BY <1>3, <1>4, <1>7, <1>8, <2>1, <2>2, <2>3, <2>4 DEF MongoInv
<1>10. Mongo!Histories' = Ordered(D \cup {m}, mongoIndex')
  <2>1. (Mongo!Histories = Ordered(Mongo!Documents, mongoIndex))'
    BY HistoriesAreOrdered, PTL
  <2> QED BY <1>4, <2>1
<1>11. MongoLog' = Append(MongoLog, m)
  BY <1>7, <1>10 DEF MongoLog
<1> QED BY <1>9, <1>11

LEMMA RejectMongo ==
    ASSUME MongoInv, NEW m \in MongoMessages, Mongo!Reject(m)
    PROVE  MongoInv'
<1>1. /\ mongoStatus[m] = "asked"
      /\ mongoStatus' = [mongoStatus EXCEPT ![m] = "refused"]
      /\ mongoNext' = mongoNext /\ mongoIndex' = mongoIndex
      /\ mongoCollection' = mongoCollection
  BY DEF Mongo!Reject
<1>2. Mongo!TypeOK'
  BY <1>1 DEF MongoInv, Mongo!TypeOK, Mongo!Statuses
<1> QED
  BY <1>1, <1>2, SameDocuments DEF MongoInv, Mongo!TypeOK, Mongo!Documents

LEMMA ClearMongo ==
    ASSUME MongoInv, Mongo!ClearHistory
    PROVE  MongoInv' /\ MongoLog' = << >>
<1>1. /\ mongoIndex' = [m \in MongoMessages |-> None]
      /\ mongoNext' = mongoNext /\ mongoStatus' = mongoStatus
      /\ mongoCollection' = mongoCollection
  BY DEF Mongo!ClearHistory
<1>2. Mongo!TypeOK'
  BY <1>1 DEF MongoInv, Mongo!TypeOK
<1>3. Mongo!Documents' = {}
  BY <1>1 DEF Mongo!Documents
<1>4. /\ IsFiniteSet({}) /\ OneOrder({}, mongoIndex')
      /\ Ordered({}, mongoIndex') = {<< >>}
  BY FS_EmptySet, NoDocuments
<1>5. MongoInv'
  BY <1>1, <1>2, <1>3, <1>4 DEF MongoInv
<1>6. Mongo!Histories' = {<< >>}
  <2>1. (Mongo!Histories = Ordered(Mongo!Documents, mongoIndex))'
    BY HistoriesAreOrdered, PTL
  <2> QED BY <1>3, <1>4, <2>1
<1> QED BY <1>5, <1>6 DEF MongoLog

LEMMA MongoNextInv ==
    ASSUME MaxAppends = 1, MongoInv, [Mongo!Next]_(Mongo!vars)
    PROVE  MongoInv'
<1>1. CASE Mongo!Initialize \/ Mongo!Close \/ UNCHANGED Mongo!vars
  <2>1. /\ mongoIndex' = mongoIndex /\ mongoNext' = mongoNext
        /\ mongoStatus' = mongoStatus
        /\ mongoCollection' \in {"null", "connected", "closed"}
    BY <1>1 DEF Mongo!Initialize, Mongo!Close, Mongo!vars, MongoInv, Mongo!TypeOK
  <2> QED
    BY <2>1, SameDocuments DEF MongoInv, Mongo!TypeOK
<1>2. CASE Mongo!ClearHistory
  BY <1>2, ClearMongo
<1>3. ASSUME NEW m \in MongoMessages,
             \/ Mongo!AppendMessage(m) \/ Mongo!FindLast(m)
             \/ Mongo!InsertOne(m) \/ Mongo!Reject(m)
      PROVE  MongoInv'
  BY <1>3, AskMongo, FindMongo, InsertMongo, RejectMongo
<1> QED
  BY <1>1, <1>2, <1>3 DEF Mongo!Next

(* Each step of the adapter is a step of the log of ConversationMemory, or *)
(* leaves it alone.                                                        *)
LEMMA MongoStep ==
    ASSUME MongoInv, [Mongo!Next]_(Mongo!vars)
    PROVE  [Mongo!Log!Next]_(Mongo!Log!vars)
<1>1. mongoIndex' = mongoIndex => MongoLog' = MongoLog
  BY SameDocuments DEF MongoLog
<1>2. ASSUME NEW m \in MongoMessages, Mongo!AppendMessage(m)
      PROVE  Mongo!Log!Append_Ask(m)
  BY <1>1, <1>2 DEF Mongo!AppendMessage, Mongo!Log!Append_Ask, MongoLog
<1>3. ASSUME NEW m \in MongoMessages, Mongo!InsertOne(m)
      PROVE  Mongo!Log!Append_Store(m)
  BY <1>3, InsertMongo DEF Mongo!InsertOne, Mongo!Log!Append_Store, MongoLog
<1>4. ASSUME NEW m \in MongoMessages, Mongo!Reject(m)
      PROVE  Mongo!Log!Append_Refuse(m)
  BY <1>1, <1>4 DEF Mongo!Reject, Mongo!Log!Append_Refuse, MongoLog
<1>5. ASSUME Mongo!ClearHistory
      PROVE  Mongo!Log!Clear
  BY <1>5, ClearMongo DEF Mongo!ClearHistory, Mongo!Log!Clear, MongoLog
<1>6. ASSUME NEW m \in MongoMessages, Mongo!FindLast(m)
      PROVE  UNCHANGED Mongo!Log!vars
  BY <1>1, <1>6 DEF Mongo!FindLast, Mongo!Log!vars, MongoLog
<1>7. CASE Mongo!Initialize \/ Mongo!Close \/ UNCHANGED Mongo!vars
  <2>1. mongoIndex' = mongoIndex /\ mongoStatus' = mongoStatus
    BY <1>7 DEF Mongo!Initialize, Mongo!Close, Mongo!vars
  <2> QED
    BY <1>1, <2>1 DEF Mongo!Log!vars, MongoLog
<1> QED
  BY <1>2, <1>3, <1>4, <1>5, <1>6, <1>7 DEF Mongo!Next, Mongo!Log!Next

(* The adapter implements the log, as long as no two appends of a chat are *)
(* in flight at once: however the append's two operations interleave with  *)
(* clears, a close or failures, a message goes to the end of the history,  *)
(* once, or is refused.  With two in flight this is false: the run of      *)
(* MCMongoConcurrent.cfg shows it.                                         *)
THEOREM MongoImplements ==
    ASSUME MaxAppends = 1
    PROVE  AdapterSpec => MongoImplementsLog
<1>1. Mongo!Init => Mongo!Log!Init
  <2> SUFFICES ASSUME Mongo!Init PROVE Mongo!Log!Init
    OBVIOUS
  <2>1. Mongo!Documents = {}
    BY DEF Mongo!Init, Mongo!Documents
  <2>2. MongoLog = << >>
    BY <2>1, HistoriesAreOrdered, NoDocuments DEF MongoLog
  <2> QED
    BY <2>2 DEF Mongo!Init, Mongo!Log!Init, MongoLog
<1>2. MongoInv /\ [Mongo!Next]_(Mongo!vars) => MongoInv'
  BY MongoNextInv
<1>3. MongoInv /\ [Mongo!Next]_(Mongo!vars) => [Mongo!Log!Next]_(Mongo!Log!vars)
  BY MongoStep
<1>4. Mongo!Spec => Mongo!Log!Spec
  BY <1>1, <1>2, <1>3, MongoInit, PTL DEF Mongo!Spec, Mongo!Log!Spec
<1> QED
  BY <1>4, AdapterRuns DEF MongoImplementsLog, Mongo!ImplementsLog

-----------------------------------------------------------------------------
(* ChromaDB: a document added is found by every later search.             *)

(* What the argument needs of the types. *)
CallsOK ==
    /\ op \in [Calls -> {"none", "add", "search", "tool", "delete"}]
    /\ target \in [Calls -> Calls \cup {None}]
    /\ pc \in [Calls -> {"idle", "init", "toolInit", "request", "done"}]
    /\ found \in [Calls -> SUBSET Calls]
    /\ reply \in [Calls -> {"none", "fulfilled", "refused"}]
    /\ before \in [Calls -> SUBSET Calls]
    /\ documents \subseteq Calls

(* A call that has not begun is about no document, and none has a reply    *)
(* before it ends.                                                         *)
RepliesOK ==
    \A c \in Calls : /\ pc[c] = "idle" => target[c] = None
                     /\ pc[c] # "done" => reply[c] = "none"

BeforeOK == \A s \in Calls : \A d \in before[s] : pc[d] = "done"

Deleted(d) == \E e \in Calls : target[e] = d

(* A document is there from the end of its add on, if no call deletes it.  *)
AddedIsThere ==
    \A d \in Calls :
        op[d] = "add" /\ reply[d] = "fulfilled" => d \in documents \/ Deleted(d)

ChromaInv == CallsOK /\ RepliesOK /\ BeforeOK /\ AddedIsThere /\ Chroma!AddedIsFound

LEMMA ChromaInit == Chroma!Init => ChromaInv
  BY DEF Chroma!Init, ChromaInv, CallsOK, RepliesOK, BeforeOK, AddedIsThere, Chroma!AddedIsFound

(* A deletion that has been asked for stays asked for. *)
LEMMA CallStep ==
  ASSUME None \notin Calls, ChromaInv, NEW c \in Calls,
         NEW o \in {"add", "search", "tool", "delete"}, NEW x \in Calls \cup {None},
         Chroma!Call(c, o, x)
  PROVE  ChromaInv'
<1> USE DEF ChromaInv, CallsOK
<1>1. /\ pc[c] = "idle" /\ reply[c] = "none" /\ target[c] = None
      /\ op' = [op EXCEPT ![c] = o] /\ target' = [target EXCEPT ![c] = x]
      /\ before' = [before EXCEPT ![c] = {e \in Calls : pc[e] = "done"}]
      /\ UNCHANGED <<documents, found, reply>>
  BY DEF Chroma!Call, RepliesOK, Chroma!serviceVars, Chroma!EnsureCollection
<1>2. \E p \in {"init", "toolInit", "request"} : pc' = [pc EXCEPT ![c] = p]
  BY DEF Chroma!Call, Chroma!EnsureCollection, Chroma!Become
<1>3. CallsOK'
  BY <1>1, <1>2
<1>4. RepliesOK'
  BY <1>1, <1>2 DEF RepliesOK
<1>5. BeforeOK'
  BY <1>1, <1>2 DEF BeforeOK
<1>6. ASSUME NEW d \in Calls, Deleted(d)
      PROVE  Deleted(d)'
  <2>1. PICK e \in Calls : target[e] = d
    BY <1>6 DEF Deleted
  <2>2. e # c
    BY <1>1, <2>1
  <2> QED
    BY <1>1, <2>1, <2>2 DEF Deleted
<1>7. ASSUME NEW d \in Calls, op'[d] = "add", reply'[d] = "fulfilled"
      PROVE  op[d] = "add" /\ reply[d] = "fulfilled"
  BY <1>1, <1>7
<1>8. AddedIsThere'
  BY <1>1, <1>6, <1>7 DEF AddedIsThere
<1>9. Chroma!AddedIsFound'
  <2> SUFFICES ASSUME NEW s \in Calls, op'[s] \in {"search", "tool"},
                      reply'[s] = "fulfilled", NEW d \in before'[s],
                      op'[d] = "add", reply'[d] = "fulfilled", ~ Deleted(d)'
               PROVE  d \in found'[s]
    BY DEF Chroma!AddedIsFound, Deleted
  <2>1. s # c
    BY <1>1
  <2>2. d \in Calls /\ d \in before[s] /\ op[s] = op'[s]
    BY <1>1, <2>1
  <2>3. op[d] = "add" /\ reply[d] = "fulfilled" /\ ~ Deleted(d)
    BY <2>2, <1>6, <1>7
  <2> QED
    BY <1>1, <2>2, <2>3 DEF Chroma!AddedIsFound, Deleted
<1> QED
  BY <1>3, <1>4, <1>5, <1>8, <1>9

LEMMA InitializedStep ==
  ASSUME ChromaInv, NEW c \in Calls, Chroma!Initialized(c)
  PROVE  ChromaInv'
<1> USE DEF ChromaInv, CallsOK
<1>1. /\ pc[c] # "done"
      /\ pc' = [pc EXCEPT ![c] = "request"]
      /\ UNCHANGED <<documents, found, reply, op, target, before>>
  BY DEF Chroma!Initialized, Chroma!GetOrCreateCollection, Chroma!EnsureCollection, Chroma!Become
<1> QED
  BY <1>1 DEF RepliesOK, BeforeOK, AddedIsThere, Chroma!AddedIsFound, Deleted

(* A search finds what is there; what is removed is a call's target. *)
LEMMA ServedStep ==
  ASSUME ChromaInv, NEW c \in Calls, Chroma!Served(c)
  PROVE  ChromaInv'
<1> USE DEF ChromaInv, CallsOK
<1>1. /\ pc[c] = "request"
      /\ pc' = [pc EXCEPT ![c] = "done"]
      /\ reply' = [reply EXCEPT ![c] = "fulfilled"]
      /\ UNCHANGED <<op, target, before>>
      /\ found' = [found EXCEPT ![c] = IF op[c] \in {"search", "tool"}
                                       THEN documents ELSE {}]
  BY DEF Chroma!Served, Chroma!Return, Chroma!Become
<1>2. /\ op[c] = "add" => documents' = documents \cup {c}
      /\ op[c] = "delete" => documents' = documents \ {target[c]}
      /\ op[c] \notin {"add", "delete"} => documents' = documents
  BY DEF Chroma!Served
<1>3. CallsOK' /\ RepliesOK' /\ BeforeOK'
  BY <1>1, <1>2 DEF RepliesOK, BeforeOK
<1>4. AddedIsThere'
  <2> SUFFICES ASSUME NEW d \in Calls, op[d] = "add", reply'[d] = "fulfilled",
                      ~ Deleted(d)
               PROVE  d \in documents'
    BY <1>1 DEF AddedIsThere, Deleted
  <2>1. d = c \/ d \in documents
    BY <1>1 DEF AddedIsThere
  <2>2. op[c] = "delete" => d # target[c]
    BY DEF Deleted
  <2> QED
    BY <1>2, <2>1, <2>2
<1>5. Chroma!AddedIsFound'
  <2> SUFFICES ASSUME NEW s \in Calls, op[s] \in {"search", "tool"},
                      reply'[s] = "fulfilled", NEW d \in before[s],
                      op[d] = "add", reply'[d] = "fulfilled", ~ Deleted(d)
               PROVE  d \in found'[s]
    BY <1>1 DEF Chroma!AddedIsFound, Deleted
  <2>1. d \in Calls /\ d # c /\ reply[d] = "fulfilled"
    BY <1>1 DEF BeforeOK
  <2>2. CASE s = c
    BY <1>1, <2>1, <2>2 DEF AddedIsThere
  <2>3. CASE s # c
    BY <1>1, <2>1, <2>3 DEF Chroma!AddedIsFound, Deleted
  <2> QED
    BY <2>2, <2>3
<1> QED
  BY <1>3, <1>4, <1>5

LEMMA RefusedStep ==
  ASSUME ChromaInv, NEW c \in Calls, Chroma!Refused(c)
  PROVE  ChromaInv'
<1> USE DEF ChromaInv, CallsOK
<1>1. /\ pc[c] \notin {"idle", "done"}
      /\ pc' = [pc EXCEPT ![c] = "done"]
      /\ reply' = [reply EXCEPT ![c] = "refused"]
      /\ UNCHANGED <<documents, found, op, target, before>>
  BY DEF Chroma!Refused, Chroma!Return, Chroma!Become, Chroma!serviceVars
<1> QED
  BY <1>1 DEF RepliesOK, BeforeOK, AddedIsThere, Chroma!AddedIsFound, Deleted

LEMMA ChromaNextInv ==
  ASSUME None \notin Calls
  PROVE  ChromaInv /\ [Chroma!Next]_(Chroma!vars) => ChromaInv'
<1> SUFFICES ASSUME ChromaInv, [Chroma!Next]_(Chroma!vars)
             PROVE  ChromaInv'
  OBVIOUS
<1>1. CASE UNCHANGED Chroma!vars
  BY <1>1 DEF Chroma!vars, Chroma!serviceVars, ChromaInv, CallsOK, RepliesOK, BeforeOK,
              AddedIsThere, Chroma!AddedIsFound, Deleted
<1>2. CASE Chroma!Next
  BY <1>2, CallStep, InitializedStep, ServedStep, RefusedStep DEF Chroma!Next
<1> QED
  BY <1>1, <1>2

(* A document whose add has resolved before a search began, and which no   *)
(* call deletes, is found by it, however many first calls overlap and      *)
(* initialize the memory (chromadb-semantic-memory-adapter.js:63, 82, 120),*)
(* for any number of calls.                                                *)
THEOREM AddedAreFound ==
    ASSUME None \notin Calls
    PROVE  AdapterSpec => []AddedIsFound
<1>1. ChromaInv => Chroma!AddedIsFound
  BY DEF ChromaInv
<1>2. Chroma!Spec => []Chroma!AddedIsFound
  BY ChromaInit, ChromaNextInv, <1>1, PTL DEF Chroma!Spec
<1> QED
  BY <1>2, AdapterRuns DEF AddedIsFound
=============================================================================
