------------------------- MODULE CustomQueueProofs -------------------------
(***************************************************************************)
(* The linked queue with its node pool implements the first-in first-out   *)
(* queue, for any number of nodes and payloads, loses no node while it is  *)
(* in use and leaves none behind when it is destroyed.                     *)
(***************************************************************************)
EXTENDS CustomQueueHistory, SequenceTheorems, FiniteSetTheorems, WellFoundedInduction, TLAPS

\* The empty queue with no nodes is well formed.
LEMMA InitWellFormed == HInit => WellFormed
BY DEF HInit, Init, WellFormed, HTypeOK, QueueLinked, PoolLinked, Placed, NodeOrNull

\* getNewNode hands out a node that is in neither list: a fresh one, or the
\* top of the pool, whose removal leaves the rest of the pool linked.
LEMMA NodeTaken ==
  ASSUME WellFormed, NEW n \in Node, getNewNode(n)
  PROVE  /\ \A i \in 1 .. Len(queued) : queued[i] # n
         /\ heap' = heap \cup {n}
         /\ LET p == IF pooled = <<>> THEN <<>> ELSE Tail(pooled) IN
              /\ p \in Seq(Node)
              /\ \A i \in 1 .. Len(p) : p[i] # n /\ p[i] = pooled[i + 1]
              /\ Len(p) = IF pooled = <<>> THEN 0 ELSE Len(pooled) - 1
              /\ FreeList' = IF p = <<>> THEN nullptr ELSE p[1]
              /\ {pooled[i] : i \in 1 .. Len(pooled)}
                   \subseteq {n} \cup {p[i] : i \in 1 .. Len(p)}
<1> USE DEF WellFormed, HTypeOK, NodeOrNull
<1> DEFINE p == IF pooled = <<>> THEN <<>> ELSE Tail(pooled)
<1>1. CASE pooled = <<>>
  <2>1. FreeList = nullptr
    BY <1>1 DEF PoolLinked
  <2>2. n \notin heap /\ heap' = heap \cup {n} /\ FreeList' = nullptr
    BY <2>1 DEF getNewNode, Allocated, Reused
  <2>3. \A i \in 1 .. Len(queued) : queued[i] # n
    BY <2>2 DEF Placed
  <2> QED
    BY <1>1, <2>2, <2>3
<1>2. CASE pooled # <<>>
  <2>1. /\ Len(pooled) \in Nat /\ Len(pooled) > 0
        /\ p \in Seq(Node)
        /\ Len(p) = Len(pooled) - 1
        /\ \A i \in 1 .. Len(p) : p[i] = pooled[i + 1]
    BY <1>2, HeadTailProperties, EmptySeq, LenProperties
  <2> HIDE DEF p
  <2>2. FreeList = pooled[1] /\ FreeList \in Node /\ FreeList # nullptr
    BY <1>2, <2>1, NullAssumption DEF PoolLinked
  <2>3. n = pooled[1] /\ FreeList' = next[n] /\ heap' = heap
    BY <2>2 DEF getNewNode, Allocated, Reused
  <2>4. \A i \in 1 .. Len(p) : p[i] # n
    BY <2>1, <2>3 DEF Placed
  <2>5. FreeList' = IF p = <<>> THEN nullptr ELSE p[1]
    <3>1. next[n] = IF 1 < Len(pooled) THEN pooled[2] ELSE nullptr
      BY <2>1, <2>3 DEF PoolLinked
    <3>2. (p = <<>>) <=> ~(1 < Len(pooled))
      BY <2>1, EmptySeq
    <3>3. 1 < Len(pooled) => p[1] = pooled[2]
      BY <2>1
    <3> QED
      BY <2>3, <3>1, <3>2, <3>3
  <2>6. \A i \in 1 .. Len(queued) : queued[i] # n
    BY <2>1, <2>3 DEF Placed
  <2>7. heap' = heap \cup {n}
    BY <2>1, <2>3 DEF Placed
  <2>8. \A i \in 1 .. Len(pooled) : pooled[i] = n \/ \E j \in 1 .. Len(p) : pooled[i] = p[j]
    <3> SUFFICES ASSUME NEW i \in 1 .. Len(pooled), i # 1
                 PROVE  \E j \in 1 .. Len(p) : pooled[i] = p[j]
      BY <2>3
    <3>1. i - 1 \in 1 .. Len(p) /\ p[i - 1] = pooled[i]
      BY <2>1
    <3> QED
      BY <3>1
  <2> QED
    BY <1>2, <2>1, <2>4, <2>5, <2>6, <2>7, <2>8 DEF p
<1> QED
  BY <1>1, <1>2

\* A push appends its payload to the contents and keeps the lists well formed.
LEMMA PushStep ==
  ASSUME WellFormed, NEW d \in Data, Hpush(d)
  PROVE  /\ WellFormed'
         /\ Contents' = Append(Contents, d)
<1> USE DEF WellFormed, HTypeOK, NodeOrNull
<1> DEFINE p == IF pooled = <<>> THEN <<>> ELSE Tail(pooled)
<1>1. PICK n \in Node :
        /\ getNewNode(n)
        /\ data' = [data EXCEPT ![n] = d]
        /\ tail' = n
        /\ \/ empty /\ head' = n /\ UNCHANGED next
           \/ ~empty /\ next' = [next EXCEPT ![tail] = n] /\ UNCHANGED head
  BY DEF Hpush, push
<1>2. /\ \A i \in 1 .. Len(queued) : queued[i] # n
      /\ heap' = heap \cup {n}
      /\ pooled' = p
      /\ p \in Seq(Node)
      /\ \A i \in 1 .. Len(p) : p[i] # n /\ p[i] = pooled[i + 1]
      /\ Len(p) = IF pooled = <<>> THEN 0 ELSE Len(pooled) - 1
      /\ FreeList' = IF p = <<>> THEN nullptr ELSE p[1]
  BY <1>1, NodeTaken DEF Hpush
<1>0. {pooled[i] : i \in 1 .. Len(pooled)} \subseteq {n} \cup {p[i] : i \in 1 .. Len(p)}
  BY <1>1, NodeTaken
<1> HIDE DEF p
<1>3. /\ queued' = Append(queued, n)
      /\ queued' \in Seq(Node)
      /\ Len(queued') = Len(queued) + 1
      /\ Len(queued) \in Nat
      /\ \A i \in 1 .. Len(queued) : queued'[i] = queued[i]
      /\ queued'[Len(queued) + 1] = n
  BY <1>1, AppendProperties, LenProperties DEF Hpush
<1>4. /\ mSize' = mSize + 1
      /\ mSize = Len(queued)
  BY DEF Hpush, push, QueueLinked
<1>5. HTypeOK'
  <2>1. p # <<>> => p[1] \in Node
    BY <1>2, EmptySeq, ElementOfSeq, LenProperties
  <2>2. head' \in NodeOrNull /\ next' \in [Node -> NodeOrNull]
    BY <1>1
  <2>3. FreeList' \in NodeOrNull /\ pooled' \in Seq(Node) /\ heap' \in SUBSET Node
    BY <1>2, <2>1
  <2>4. tail' \in NodeOrNull /\ data' \in [Node -> Data \cup {nullptr}] /\ mSize' \in Nat
    BY <1>1, <1>4
  <2> QED
    BY <1>3, <2>2, <2>3, <2>4
<1>6. QueueLinked'
  <2>1. CASE mSize = 0
    BY <1>1, <1>3, <1>4, <2>1 DEF QueueLinked, empty
  <2>2. CASE mSize > 0
    <3>1. /\ head = queued[1] /\ tail = queued[mSize]
          /\ next' = [next EXCEPT ![tail] = n] /\ head' = head
      BY <1>1, <2>2 DEF QueueLinked, empty
    <3>2. \A i \in 1 .. mSize : queued[i] \in Node
      BY <1>4, ElementOfSeq
    <3>3. \A i \in 1 .. mSize' : i < mSize' => next'[queued'[i]] = queued'[i + 1]
      <4> SUFFICES ASSUME NEW i \in 1 .. mSize PROVE next'[queued'[i]] = queued'[i + 1]
        BY <1>4
      <4>1. CASE i = mSize
        BY <1>3, <1>4, <3>1, <3>2, <4>1
      <4>2. CASE i < mSize
        <5>1. queued[i] # tail
          BY <1>4, <3>1, <4>2 DEF Placed
        <5>2. next[queued[i]] = queued[i + 1]
          BY <4>2 DEF QueueLinked
        <5> QED
          BY <1>3, <1>4, <3>1, <3>2, <4>2, <5>1, <5>2
      <4> QED
        BY <4>1, <4>2
    <3>4. \A i \in 1 .. mSize' : data'[queued'[i]] \in Data
      BY <1>1, <1>2, <1>3, <1>4, <3>2 DEF QueueLinked
    <3> QED
      BY <1>1, <1>3, <1>4, <2>2, <3>1, <3>3, <3>4 DEF QueueLinked
  <2> QED
    BY <2>1, <2>2
<1>7. PoolLinked'
  <2>1. ASSUME NEW i \in 1 .. Len(p)
        PROVE  next'[p[i]] = IF i < Len(p) THEN p[i + 1] ELSE nullptr
    <3>1. /\ pooled # <<>> /\ Len(pooled) \in Nat /\ Len(p) = Len(pooled) - 1
          /\ i + 1 \in 1 .. Len(pooled) /\ p[i] = pooled[i + 1]
          /\ i < Len(p) => p[i + 1] = pooled[i + 2]
      BY <1>2, LenProperties
    <3>2. next[p[i]] = IF i + 1 < Len(pooled) THEN pooled[i + 2] ELSE nullptr
      BY <3>1 DEF PoolLinked
    <3>3. ~empty => p[i] # tail
      BY <1>4, <3>1 DEF QueueLinked, Placed, empty
    <3>4. next'[p[i]] = next[p[i]]
      <4>1. p[i] \in Node
        BY <1>2, ElementOfSeq
      <4> QED
        BY <1>1, <3>3, <4>1
    <3> QED
      BY <3>1, <3>2, <3>4
  <2> QED
    BY <1>2, <2>1 DEF PoolLinked
<1>8. Placed'
  <2>1. \A i, j \in 1 .. Len(queued') : queued'[i] = queued'[j] => i = j
    <3> SUFFICES ASSUME NEW i \in 1 .. Len(queued'), NEW j \in 1 .. Len(queued'),
                        queued'[i] = queued'[j]
                 PROVE  i = j
      OBVIOUS
    <3>1. CASE i \in 1 .. Len(queued) /\ j \in 1 .. Len(queued)
      BY <1>3, <3>1 DEF Placed
    <3>2. CASE i = Len(queued) + 1 \/ j = Len(queued) + 1
      BY <1>2, <1>3, <3>2
    <3> QED
      BY <1>3, <3>1, <3>2
  <2>2. \A i, j \in 1 .. Len(p) : p[i] = p[j] => i = j
    <3> SUFFICES ASSUME NEW i \in 1 .. Len(p), NEW j \in 1 .. Len(p), p[i] = p[j]
                 PROVE  i = j
      OBVIOUS
    <3>1. /\ i + 1 \in 1 .. Len(pooled) /\ j + 1 \in 1 .. Len(pooled)
          /\ pooled[i + 1] = pooled[j + 1]
      BY <1>2, LenProperties
    <3>2. i + 1 = j + 1
      BY <3>1 DEF Placed
    <3> QED
      BY <3>2
  <2>3. \A i \in 1 .. Len(queued'), j \in 1 .. Len(p) : queued'[i] # p[j]
    <3> SUFFICES ASSUME NEW i \in 1 .. Len(queued'), NEW j \in 1 .. Len(p)
                 PROVE  queued'[i] # p[j]
      OBVIOUS
    <3>1. p[j] # n /\ p[j] = pooled[j + 1] /\ j + 1 \in 1 .. Len(pooled)
      BY <1>2, LenProperties
    <3> QED
      BY <1>3, <3>1 DEF Placed
  <2>4. heap' = {queued'[i] : i \in 1 .. Len(queued')} \cup {p[i] : i \in 1 .. Len(p)}
    <3>1. {queued'[i] : i \in 1 .. Len(queued')}
            = {queued[i] : i \in 1 .. Len(queued)} \cup {n}
      BY <1>3
    <3>2. {p[i] : i \in 1 .. Len(p)} \subseteq {pooled[i] : i \in 1 .. Len(pooled)}
      BY <1>2, LenProperties
    <3> QED
      BY <1>0, <1>2, <3>1, <3>2 DEF Placed
  <2>5. pooled' = p
    BY <1>2
  <2> QED
    BY <2>1, <2>2, <2>3, <2>4, <2>5 DEF Placed
<1>9. Contents' = Append(Contents, d)
  <2>1. Contents \in Seq(Data)
    <3>1. \A i \in 1 .. Len(queued) : data[queued[i]] \in Data
      BY <1>4 DEF QueueLinked
    <3> QED
      BY <1>3, <3>1, SeqDef DEF Contents
  <2>2. Len(Contents) = Len(queued)
    BY <1>3, <2>1, LenProperties DEF Contents
  <2>3. \A i \in 1 .. Len(queued) : data'[queued[i]] = data[queued[i]]
    BY <1>1, <1>2, ElementOfSeq
  <2>4. data'[n] = d
    BY <1>1
  <2>5. /\ Append(Contents, d) \in Seq(Data)
        /\ Len(Append(Contents, d)) = Len(queued) + 1
        /\ \A i \in 1 .. Len(queued) : Append(Contents, d)[i] = data[queued[i]]
        /\ Append(Contents, d)[Len(queued) + 1] = d
    BY <1>3, <2>1, <2>2, AppendProperties DEF Contents
  <2>6. /\ Contents' \in Seq(Data)
        /\ Len(Contents') = Len(queued) + 1
        /\ \A i \in 1 .. Len(queued) : Contents'[i] = data[queued[i]]
        /\ Contents'[Len(queued) + 1] = d
    <3>1. \A i \in 1 .. Len(queued') : data'[queued'[i]] \in Data
      BY <1>3, <1>4, <1>6 DEF QueueLinked
    <3>2. Contents' \in Seq(Data)
      BY <1>3, <3>1, SeqDef DEF Contents
    <3>3. Len(Contents') = Len(queued')
      BY <1>3, <3>2, LenProperties DEF Contents
    <3> QED
      BY <1>3, <2>3, <2>4, <3>2, <3>3 DEF Contents
  <2> QED
    BY <1>3, <2>5, <2>6, SeqEqual
<1> QED
  BY <1>5, <1>6, <1>7, <1>8, <1>9

\* A pop takes the oldest payload away and keeps the lists well formed.
LEMMA PopStep ==
  ASSUME WellFormed, Hpop
  PROVE  /\ WellFormed'
         /\ Contents # <<>>
         /\ Contents' = Tail(Contents)
<1> USE DEF WellFormed, HTypeOK, NodeOrNull
<1>1. /\ Len(queued) = mSize /\ mSize > 0 /\ queued # <<>>
      /\ head = queued[1] /\ head \in Node /\ mSize' = mSize - 1
  BY EmptySeq, ElementOfSeq DEF Hpop, pop, empty, QueueLinked
<1>2. /\ head' = next[head]
      /\ data' = [data EXCEPT ![head] = nullptr]
      /\ next' = [next EXCEPT ![head] = FreeList]
      /\ FreeList' = head
      /\ tail' = tail /\ heap' = heap
  BY DEF Hpop, pop, discard
<1>3. /\ queued' \in Seq(Node)
      /\ Len(queued') = mSize - 1
      /\ \A i \in 1 .. mSize - 1 : queued'[i] = queued[i + 1]
  BY <1>1, HeadTailProperties DEF Hpop
<1>4. /\ pooled' \in Seq(Node) /\ Len(pooled) \in Nat
      /\ Len(pooled') = Len(pooled) + 1
      /\ pooled'[1] = head
      /\ \A i \in 1 .. Len(pooled) : pooled'[i + 1] = pooled[i]
  <2>1. <<head>> \in Seq(Node) /\ Len(<<head>>) = 1 /\ <<head>>[1] = head
    BY <1>1
  <2> QED
    BY <2>1, ConcatProperties, LenProperties DEF Hpop
<1>5. \A i \in 1 .. mSize - 1 : queued'[i] \in Node /\ queued'[i] # head
  BY <1>1, <1>3, ElementOfSeq DEF Placed
<1>6. HTypeOK'
  BY <1>1, <1>2, <1>3, <1>4
<1>7. QueueLinked'
  <2>1. \A i \in 1 .. mSize - 1 : i < mSize - 1 => next'[queued'[i]] = queued'[i + 1]
    <3> SUFFICES ASSUME NEW i \in 1 .. mSize - 1, i < mSize - 1
                 PROVE  next'[queued'[i]] = queued'[i + 1]
      OBVIOUS
    <3>1. i + 1 \in 1 .. mSize /\ i + 1 < mSize /\ i + 1 \in 1 .. mSize - 1
      BY <1>1
    <3>2. next[queued[i + 1]] = queued[i + 1 + 1]
      BY <3>1 DEF QueueLinked
    <3> QED
      BY <1>2, <1>3, <1>5, <3>1, <3>2
  <2>2. mSize - 1 > 0 => head' = queued'[1] /\ tail' = queued'[mSize - 1]
    <3> SUFFICES ASSUME mSize - 1 > 0 PROVE head' = queued'[1] /\ tail' = queued'[mSize - 1]
      OBVIOUS
    <3>1. next[queued[1]] = queued[2] /\ tail = queued[mSize]
      BY DEF QueueLinked
    <3> QED
      BY <1>1, <1>2, <1>3, <3>1
  <2>3. \A i \in 1 .. mSize - 1 : data'[queued'[i]] \in Data
    BY <1>1, <1>2, <1>3, <1>5 DEF QueueLinked
  <2> QED
    BY <1>1, <1>3, <2>1, <2>2, <2>3 DEF QueueLinked
<1>8. PoolLinked'
  <2>1. pooled' # <<>>
    BY <1>4
  <2>2. \A i \in 1 .. Len(pooled) : pooled[i] \in Node /\ pooled[i] # head
    BY <1>1, ElementOfSeq DEF Placed
  <2>3. \A i \in 1 .. Len(pooled') :
          next'[pooled'[i]] = IF i < Len(pooled') THEN pooled'[i + 1] ELSE nullptr
    <3> SUFFICES ASSUME NEW i \in 1 .. Len(pooled')
                 PROVE  next'[pooled'[i]] = IF i < Len(pooled') THEN pooled'[i + 1] ELSE nullptr
      OBVIOUS
    <3>1. CASE i = 1
      <4>1. next'[head] = FreeList
        BY <1>1, <1>2
      <4>2. CASE pooled = <<>>
        <5>1. Len(pooled) = 0 /\ FreeList = nullptr
          BY <4>2 DEF PoolLinked
        <5> QED
          BY <1>4, <3>1, <4>1, <5>1
      <4>3. CASE pooled # <<>>
        <5>1. 1 \in 1 .. Len(pooled)
          BY <1>4, <4>3, EmptySeq
        <5> QED
          BY <1>4, <3>1, <4>1, <4>3, <5>1 DEF PoolLinked
      <4> QED
        BY <4>2, <4>3
    <3>2. CASE i # 1
      <4> DEFINE j == i - 1
      <4>1. j \in 1 .. Len(pooled) /\ pooled'[i] = pooled[j]
        BY <1>4, <3>2
      <4>2. next'[pooled[j]] = next[pooled[j]]
        BY <1>2, <2>2, <4>1
      <4>3. next[pooled[j]] = IF j < Len(pooled) THEN pooled[j + 1] ELSE nullptr
        BY <4>1 DEF PoolLinked
      <4>4. j < Len(pooled) => pooled'[i + 1] = pooled[j + 1]
        <5> SUFFICES ASSUME j < Len(pooled) PROVE pooled'[i + 1] = pooled[j + 1]
          OBVIOUS
        <5>1. j + 1 \in 1 .. Len(pooled) /\ i + 1 = (j + 1) + 1
          BY <1>4, <4>1
        <5> HIDE DEF j
        <5> QED
          BY <1>4, <5>1
      <4> QED
        BY <1>4, <4>1, <4>2, <4>3, <4>4
    <3> QED
      BY <3>1, <3>2
  <2> QED
    BY <1>2, <1>4, <2>1, <2>3 DEF PoolLinked
<1>9. Placed'
  <2>1. \A i, j \in 1 .. Len(queued') : queued'[i] = queued'[j] => i = j
    <3> SUFFICES ASSUME NEW i \in 1 .. Len(queued'), NEW j \in 1 .. Len(queued'),
                        queued'[i] = queued'[j]
                 PROVE  i = j
      OBVIOUS
    <3>1. /\ i + 1 \in 1 .. Len(queued) /\ j + 1 \in 1 .. Len(queued)
          /\ queued[i + 1] = queued[j + 1]
      BY <1>1, <1>3
    <3>2. i + 1 = j + 1
      BY <3>1 DEF Placed
    <3> QED
      BY <3>2
  <2>2. \A i \in 1 .. Len(pooled') :
          i # 1 => i - 1 \in 1 .. Len(pooled) /\ pooled'[i] = pooled[i - 1]
    <3> SUFFICES ASSUME NEW i \in 1 .. Len(pooled'), i # 1
                 PROVE  i - 1 \in 1 .. Len(pooled) /\ pooled'[i] = pooled[i - 1]
      OBVIOUS
    <3>1. i - 1 \in 1 .. Len(pooled) /\ i = (i - 1) + 1
      BY <1>4
    <3> QED
      BY <1>4, <3>1
  <2>3. \A i \in 1 .. Len(pooled) : pooled[i] # head
    BY <1>1 DEF Placed
  <2>4. \A i, j \in 1 .. Len(pooled') : pooled'[i] = pooled'[j] => i = j
    <3> SUFFICES ASSUME NEW i \in 1 .. Len(pooled'), NEW j \in 1 .. Len(pooled'),
                        pooled'[i] = pooled'[j]
                 PROVE  i = j
      OBVIOUS
    <3>1. CASE i = 1 \/ j = 1
      BY <1>4, <2>2, <2>3, <3>1
    <3>2. CASE i # 1 /\ j # 1
      <4>1. /\ i - 1 \in 1 .. Len(pooled) /\ j - 1 \in 1 .. Len(pooled)
            /\ pooled[i - 1] = pooled[j - 1]
        BY <2>2, <3>2
      <4>2. i - 1 = j - 1
        BY <4>1 DEF Placed
      <4> QED
        BY <4>2
    <3> QED
      BY <3>1, <3>2
  <2>5. \A i \in 1 .. Len(queued'), j \in 1 .. Len(pooled') : queued'[i] # pooled'[j]
    <3> SUFFICES ASSUME NEW i \in 1 .. Len(queued'), NEW j \in 1 .. Len(pooled')
                 PROVE  queued'[i] # pooled'[j]
      OBVIOUS
    <3>1. CASE j = 1
      BY <1>3, <1>4, <1>5, <3>1
    <3>2. CASE j # 1
      <4>1. j - 1 \in 1 .. Len(pooled) /\ pooled'[j] = pooled[j - 1]
        BY <2>2, <3>2
      <4>2. i + 1 \in 1 .. Len(queued) /\ queued'[i] = queued[i + 1]
        BY <1>1, <1>3
      <4>3. queued[i + 1] # pooled[j - 1]
        BY <4>1, <4>2 DEF Placed
      <4> QED
        BY <4>1, <4>2, <4>3
    <3> QED
      BY <3>1, <3>2
  <2> DEFINE Q  == {queued[i] : i \in 1 .. Len(queued)}
             Q1 == {queued'[i] : i \in 1 .. Len(queued')}
             P  == {pooled[i] : i \in 1 .. Len(pooled)}
             P1 == {pooled'[i] : i \in 1 .. Len(pooled')}
  <2>6. heap' = Q1 \cup P1
    <3>1. Q = {head} \cup Q1
      <4>1. \A i \in 1 .. Len(queued) :
              i # 1 => i - 1 \in 1 .. Len(queued') /\ queued[i] = queued'[i - 1]
        <5> SUFFICES ASSUME NEW i \in 1 .. Len(queued), i # 1
                     PROVE  i - 1 \in 1 .. Len(queued') /\ queued[i] = queued'[i - 1]
          OBVIOUS
        <5>1. i - 1 \in 1 .. mSize - 1 /\ i = (i - 1) + 1
          BY <1>1
        <5> QED
          BY <1>3, <5>1
      <4>2. \A i \in 1 .. Len(queued') : i + 1 \in 1 .. Len(queued) /\ queued'[i] = queued[i + 1]
        BY <1>1, <1>3
      <4>3. 1 \in 1 .. Len(queued)
        BY <1>1
      <4>4. ASSUME NEW n \in Q, n # head
            PROVE  n \in Q1
        <5>1. PICK i \in 1 .. Len(queued) : n = queued[i]
          BY <4>4
        <5>2. i # 1
          BY <1>1, <4>4, <5>1
        <5>3. i - 1 \in 1 .. Len(queued') /\ n = queued'[i - 1]
          BY <4>1, <5>1, <5>2
        <5> QED
          BY <5>3
      <4>5. ASSUME NEW n \in Q1
            PROVE  n \in Q
        BY <4>2
      <4>6. head \in Q
        BY <1>1, <4>3
      <4> HIDE DEF Q, Q1
      <4> QED
        BY <4>4, <4>5, <4>6
    <3>2. P1 = {head} \cup P
      <4>1. \A i \in 1 .. Len(pooled) : i + 1 \in 1 .. Len(pooled') /\ pooled'[i + 1] = pooled[i]
        BY <1>4
      <4>2. 1 \in 1 .. Len(pooled')
        BY <1>4
      <4>3. ASSUME NEW n \in P1, n # head
            PROVE  n \in P
        <5>1. PICK i \in 1 .. Len(pooled') : n = pooled'[i]
          BY <4>3
        <5>2. i # 1
          BY <1>4, <4>3, <5>1
        <5>3. i - 1 \in 1 .. Len(pooled) /\ n = pooled[i - 1]
          BY <2>2, <5>1, <5>2
        <5> QED
          BY <5>3
      <4>4. ASSUME NEW n \in P
            PROVE  n \in P1
        BY <4>1
      <4>5. head \in P1
        BY <1>4, <4>2
      <4> HIDE DEF P, P1
      <4> QED
        BY <4>3, <4>4, <4>5
    <3> QED
      BY <1>2, <3>1, <3>2 DEF Placed
  <2> QED
    BY <2>1, <2>4, <2>5, <2>6 DEF Placed
<1>10. Contents # <<>> /\ Contents' = Tail(Contents)
  <2>1. Contents \in Seq(Data) /\ Len(Contents) = mSize
    <3>1. \A i \in 1 .. Len(queued) : data[queued[i]] \in Data
      BY <1>1 DEF QueueLinked
    <3>2. Contents \in Seq(Data)
      BY <1>1, <3>1, SeqDef DEF Contents
    <3> QED
      BY <1>1, <3>2, LenProperties DEF Contents
  <2>2. Contents' \in Seq(Data) /\ Len(Contents') = mSize - 1
    <3>1. \A i \in 1 .. Len(queued') : data'[queued'[i]] \in Data
      BY <1>1, <1>3, <1>7 DEF QueueLinked
    <3>2. Contents' \in Seq(Data)
      BY <1>1, <1>3, <3>1, SeqDef DEF Contents
    <3> QED
      BY <1>1, <1>3, <3>2, LenProperties DEF Contents
  <2>3. Contents # <<>>
    BY <1>1, <2>1, EmptySeq
  <2>4. /\ Tail(Contents) \in Seq(Data) /\ Len(Tail(Contents)) = mSize - 1
        /\ \A i \in 1 .. mSize - 1 : Tail(Contents)[i] = data[queued[i + 1]]
    <3>1. /\ Tail(Contents) \in Seq(Data) /\ Len(Tail(Contents)) = mSize - 1
          /\ \A i \in 1 .. mSize - 1 : Tail(Contents)[i] = Contents[i + 1]
      BY <2>1, <2>3, HeadTailProperties
    <3>2. \A i \in 1 .. mSize - 1 : i + 1 \in 1 .. Len(queued)
      BY <1>1
    <3> QED
      BY <3>1, <3>2 DEF Contents
  <2>5. \A i \in 1 .. mSize - 1 : Contents'[i] = data[queued[i + 1]]
    BY <1>1, <1>2, <1>3, <1>5 DEF Contents
  <2> QED
    BY <2>2, <2>3, <2>4, <2>5, SeqEqual
<1> QED
  BY <1>6, <1>7, <1>8, <1>9, <1>10

\* The links of the queue and of the pool keep their shape until the
\* destructor starts.
LEMMA StepWellFormed == ListsWellFormed /\ [HNext]_hvars => ListsWellFormed'
<1> SUFFICES ASSUME ListsWellFormed, [HNext]_hvars PROVE ListsWellFormed'
  OBVIOUS
<1>1. CASE UNCHANGED hvars
  BY <1>1 DEF hvars, vars, links, ListsWellFormed, WellFormed, HTypeOK, QueueLinked,
              PoolLinked, Placed
<1>2. ASSUME NEW d \in Data, Hpush(d) PROVE ListsWellFormed'
  BY <1>2, PushStep DEF ListsWellFormed, Hpush, push
<1>3. CASE Hpop
  BY <1>3, PopStep DEF ListsWellFormed, Hpop, pop
<1>4. CASE Hdestroy
  BY <1>4 DEF ListsWellFormed, Hdestroy, Destroy, DeleteHead, DeleteFreeList
<1> QED
  BY <1>1, <1>2, <1>3, <1>4 DEF HNext

\* Every node is in the queue or in the pool, once, and a link that the next
\* push or pop follows was never left behind by the pool, although getNewNode
\* does not reset next (CustomQueue.hpp:106-120).
THEOREM QueueWellFormed == HSpec => []ListsWellFormed
<1>1. HInit => ListsWellFormed
  BY InitWellFormed DEF ListsWellFormed
<1> QED
  BY <1>1, StepWellFormed, PTL DEF HSpec

\* The linked queue implements the abstract one: what the code pushes comes
\* out once and in order, and front() is the oldest, until it is destroyed.
THEOREM QueueIsFifo == HSpec => ContentsAreFifo
<1>1. HInit => Fifo!Init
  BY DEF HInit, Init, Fifo!Init, Contents, Queue, Size
<1>2. ListsWellFormed /\ ListsWellFormed' /\ [HNext]_hvars => [Fifo!Next]_Fifo!vars
  <2> SUFFICES ASSUME ListsWellFormed, ListsWellFormed', [HNext]_hvars
               PROVE  [Fifo!Next]_Fifo!vars
    OBVIOUS
  <2>1. CASE UNCHANGED hvars
    BY <2>1 DEF hvars, vars, links, Fifo!vars, Contents, Queue, Size, front, empty
  <2>2. ASSUME life' = "alive" PROVE Fifo!Show(Queue')
    <3>1. mSize' = Len(Contents')
      BY <2>2, LenProperties DEF ListsWellFormed, WellFormed, HTypeOK, QueueLinked, Contents
    <3>2. ASSUME Contents' # <<>> PROVE front' = Head(Contents')
      <4>1. mSize' = Len(queued') /\ mSize' > 0 /\ head' = queued'[1]
        BY <2>2, <3>2, LenProperties
           DEF ListsWellFormed, WellFormed, HTypeOK, QueueLinked, Contents
      <4> QED
        BY <4>1 DEF front, empty, Contents
    <3> QED
      BY <2>2, <3>1, <3>2 DEF Fifo!Show, Queue, Size
  <2>3. ASSUME NEW d \in Data, Hpush(d) PROVE Fifo!push(d)
    <3>1. life = "alive" /\ life' = "alive" /\ WellFormed
      BY <2>3 DEF Hpush, push, ListsWellFormed
    <3>2. Queue' = Append(Queue, d)
      BY <2>3, <3>1, PushStep DEF Queue
    <3>3. Fifo!Show(Queue')
      BY <2>2, <3>1
    <3> QED
      BY <3>2, <3>3 DEF Fifo!push
  <2>4. CASE Hpop
    <3>1. life = "alive" /\ life' = "alive" /\ WellFormed
      BY <2>4 DEF Hpop, pop, ListsWellFormed
    <3>2. Queue # <<>> /\ Queue' = Tail(Queue)
      BY <2>4, <3>1, PopStep DEF Queue
    <3>3. Fifo!Show(Queue')
      BY <2>2, <3>1
    <3> QED
      BY <3>2, <3>3 DEF Fifo!pop, Fifo!Next
  <2>5. CASE Hdestroy
    <3>1. life' # "alive"
      BY <2>5 DEF Hdestroy, Destroy, DeleteHead, DeleteFreeList
    <3>2. Queue' = <<>> /\ Size' = 0 /\ Len(<<>>) = 0
      BY <3>1, EmptySeq DEF Queue, Size
    <3> QED
      BY <3>2 DEF Fifo!destroy, Fifo!Show, Fifo!Next
  <2> QED
    BY <2>1, <2>3, <2>4, <2>5 DEF HNext, Fifo!Next
<1> QED
  BY <1>1, <1>2, QueueWellFormed, PTL DEF HSpec, ContentsAreFifo, Fifo!Spec

-----------------------------------------------------------------------------
(* What the links alone say: the walks of EveryNodeHasAPlace.              *)

\* Every non-empty set of numbers has a least one.
LEMMA LeastElement ==
  ASSUME NEW T, T \subseteq Nat, T # {}
  PROVE  \E x \in T : \A y \in T : x <= y
<1> DEFINE R == {ss \in Nat \X Nat : ss[1] < ss[2]}
<1>1. IsWellFoundedOn(R, Nat)
  BY NatLessThanWellFounded, Zenon DEF OpToRel
<1> HIDE DEF R
<1>2. PICK x \in T : \A y \in T : <<y, x>> \notin R
  BY <1>1, WFMin
<1>3. \A y \in T : ~(y < x)
  BY <1>2 DEF R
<1> QED
  BY <1>3

\* Two functions on 1..n that follow the same links are equal.
LEMMA SameWalk ==
  ASSUME NEW n \in Nat, NEW f, NEW g, NEW link,
         \A i \in 1 .. n : i > 1 => f[i] = link[f[i - 1]] /\ g[i] = link[g[i - 1]],
         n > 0 => f[1] = g[1]
  PROVE  \A i \in 1 .. n : f[i] = g[i]
<1> DEFINE T == {i \in 1 .. n : f[i] # g[i]}
<1> SUFFICES ASSUME T # {} PROVE FALSE
  OBVIOUS
<1>1. T \subseteq Nat
  OBVIOUS
<1>2. PICK x \in T : \A y \in T : x <= y
  BY <1>1, LeastElement
<1>3. x > 1 /\ x - 1 \in 1 .. n /\ x - 1 \notin T
  BY <1>2
<1> QED
  BY <1>2, <1>3

\* The walk from Head that InQueue is meets the queued nodes.
LEMMA InQueueIsQueued ==
  ASSUME WellFormed
  PROVE  \A i \in 1 .. mSize : InQueue[i] = queued[i]
<1> DEFINE Walk(g) == [i \in 1 .. mSize |-> IF i = 1 THEN head ELSE next[g[i - 1]]]
           w == [i \in 1 .. mSize |-> queued[i]]
<1>0. mSize \in Nat
  BY DEF WellFormed, HTypeOK
<1>1. InQueue = CHOOSE g : g = Walk(g)
  BY DEF InQueue
<1>2. w = Walk(w)
  BY <1>0 DEF WellFormed, QueueLinked
<1>3. InQueue = Walk(InQueue)
  BY <1>1, <1>2, Zenon
<1>4. \A i \in 1 .. mSize : InQueue[i] = IF i = 1 THEN head ELSE next[InQueue[i - 1]]
  BY <1>3
<1>5. \A i \in 1 .. mSize : i > 1 => queued[i] = next[queued[i - 1]]
  BY <1>0 DEF WellFormed, QueueLinked
<1>6. mSize > 0 => InQueue[1] = queued[1]
  BY <1>0, <1>4 DEF WellFormed, QueueLinked
<1>7. \A i \in 1 .. mSize : i > 1 => InQueue[i] = next[InQueue[i - 1]]
  BY <1>0, <1>4
<1> QED
  BY <1>0, <1>5, <1>6, <1>7, SameWalk

\* There is room in the pool for every node once.
LEMMA PoolFits ==
  ASSUME WellFormed, IsFiniteSet(Node)
  PROVE  Cardinality(Node) \in Nat /\ Len(pooled) <= Cardinality(Node)
<1> DEFINE f == [i \in 1 .. Len(pooled) |-> pooled[i]]
<1>1. Len(pooled) \in Nat /\ f \in [1 .. Len(pooled) -> Node]
  BY LenProperties, ElementOfSeq DEF WellFormed, HTypeOK
<1>2. \A i, j \in 1 .. Len(pooled) : f[i] = f[j] => i = j
  BY DEF WellFormed, Placed
<1>3. f \in Injection(1 .. Len(pooled), Node)
  BY <1>1, <1>2 DEF Injection, IsInjective
<1> HIDE DEF f
<1>4. Cardinality(1 .. Len(pooled)) <= Cardinality(Node)
  BY <1>3, FS_Injection
<1>5. Cardinality(1 .. Len(pooled)) = Len(pooled)
  BY <1>1, FS_Interval
<1> QED
  BY <1>4, <1>5, FS_CardinalityType

\* The walk from FreeList meets the pooled nodes and then the end of the list.
LEMMA ChainIsPooled ==
  ASSUME WellFormed, IsFiniteSet(Node)
  PROVE  Chain(FreeList) = {pooled[i] : i \in 1 .. Len(pooled)}
<1> DEFINE K == Cardinality(Node)
           Walk(g) == [i \in 1 .. K |->
                         IF i = 1 THEN FreeList
                         ELSE IF g[i - 1] = nullptr THEN nullptr ELSE next[g[i - 1]]]
           w == [i \in 1 .. K |-> IF i <= Len(pooled) THEN pooled[i] ELSE nullptr]
           f == CHOOSE g : g = Walk(g)
<1>0. K \in Nat /\ Len(pooled) \in Nat /\ Len(pooled) <= K
  BY PoolFits, LenProperties DEF WellFormed, HTypeOK
<1>1. \A i \in 1 .. Len(pooled) : pooled[i] \in Node /\ pooled[i] # nullptr
  BY ElementOfSeq, NullAssumption DEF WellFormed, HTypeOK
<1>2. Chain(FreeList) = {f[i] : i \in 1 .. K} \ {nullptr}
  BY DEF Chain
<1>3. FreeList = IF 1 <= Len(pooled) THEN pooled[1] ELSE nullptr
  BY <1>0, EmptySeq DEF WellFormed, HTypeOK, PoolLinked
<1>4. w = Walk(w)
  <2> SUFFICES ASSUME NEW i \in 1 .. K PROVE w[i] = Walk(w)[i]
    OBVIOUS
  <2>1. CASE i = 1
    BY <1>3, <2>1
  <2>2. CASE i > 1 /\ i - 1 <= Len(pooled)
    <3>1. i - 1 \in 1 .. Len(pooled) /\ w[i - 1] = pooled[i - 1]
      BY <1>0, <2>2
    <3>2. next[pooled[i - 1]] = IF i - 1 < Len(pooled) THEN pooled[i - 1 + 1] ELSE nullptr
      BY <3>1 DEF WellFormed, PoolLinked
    <3> QED
      BY <1>0, <1>1, <2>2, <3>1, <3>2
  <2>3. CASE i > 1 /\ i - 1 > Len(pooled)
    BY <1>0, <2>3
  <2> QED
    BY <1>0, <2>1, <2>2, <2>3
<1>5. f = Walk(f)
  BY <1>4, Zenon
<1> HIDE DEF f
<1>6. \A i \in 1 .. K : f[i] = w[i]
  <2> DEFINE T == {i \in 1 .. K : f[i] # w[i]}
  <2> SUFFICES ASSUME T # {} PROVE FALSE
    OBVIOUS
  <2>1. T \subseteq Nat
    BY <1>0
  <2>2. PICK x \in T : \A y \in T : x <= y
    BY <2>1, LeastElement
  <2>3. f[x] = Walk(f)[x] /\ w[x] = Walk(w)[x]
    BY <1>4, <1>5
  <2>4. x # 1
    BY <1>0, <2>2, <2>3
  <2>5. x - 1 \in 1 .. K /\ x - 1 \notin T
    BY <1>0, <2>2, <2>4
  <2>6. f[x - 1] = w[x - 1]
    BY <2>5
  <2> HIDE DEF w
  <2>7. f[x] = w[x]
    BY <1>0, <2>2, <2>3, <2>4, <2>6
  <2> QED
    BY <2>7
<1> HIDE DEF w
<1>7. {f[i] : i \in 1 .. K} = {w[i] : i \in 1 .. K}
  BY <1>6
<1>8. {w[i] : i \in 1 .. K} \ {nullptr} = {pooled[i] : i \in 1 .. Len(pooled)}
  BY <1>0, <1>1 DEF w
<1> QED
  BY <1>2, <1>7, <1>8

\* The queued nodes are as many as mSize says.
LEMMA QueuedCounted ==
  ASSUME WellFormed
  PROVE  Cardinality({queued[i] : i \in 1 .. mSize}) = mSize
<1> DEFINE S == {queued[i] : i \in 1 .. mSize}
           f == [i \in 1 .. mSize |-> queued[i]]
<1>1. mSize \in Nat
  BY DEF WellFormed, HTypeOK
<1>2. \A i, j \in 1 .. mSize : f[i] = f[j] => i = j
  BY DEF WellFormed, Placed, QueueLinked
<1>3. f \in Bijection(1 .. mSize, S)
  BY <1>2 DEF Bijection, Injection, IsInjective, Surjection
<1> HIDE DEF f, S
<1>4. ExistsBijection(1 .. mSize, S)
  BY <1>3 DEF ExistsBijection
<1>5. Cardinality(S) = Cardinality(1 .. mSize)
  BY <1>1, <1>4, FS_Bijection, FS_Interval
<1> QED
  BY <1>1, <1>5, FS_Interval DEF S

\* No node is lost and none is in two places, which the links alone show: from
\* Head mSize nodes are met, from FreeList all others, and no node twice.
THEOREM NodesHavePlaces == IsFiniteSet(Node) => (HSpec => []EveryNodeHasAPlace)
<1> SUFFICES ASSUME IsFiniteSet(Node) PROVE HSpec => []EveryNodeHasAPlace
  OBVIOUS
<1>1. ListsWellFormed => EveryNodeHasAPlace
  <2> SUFFICES ASSUME ListsWellFormed, life = "alive" PROVE EveryNodeHasAPlace
    BY DEF EveryNodeHasAPlace
  <2> DEFINE Q == {queued[i] : i \in 1 .. mSize}
             P == {pooled[i] : i \in 1 .. Len(pooled)}
  <2>1. WellFormed
    BY DEF ListsWellFormed
  <2>2. {InQueue[i] : i \in 1 .. mSize} = Q
    BY <2>1, InQueueIsQueued
  <2>3. Cardinality(Q) = mSize /\ Chain(FreeList) = P
    BY <2>1, QueuedCounted, ChainIsPooled
  <2>4. Q \cap P = {} /\ Q \cup P = heap
    BY <2>1 DEF WellFormed, Placed, QueueLinked
  <2> HIDE DEF Q, P
  <2> QED
    BY <2>2, <2>3, <2>4 DEF EveryNodeHasAPlace
<1> QED
  BY <1>1, QueueWellFormed, PTL

-----------------------------------------------------------------------------
(* The destructor.                                                         *)

\* What the destructor has not deleted when it is at the a-th queued node, and
\* when it is at the a-th pooled node; it may stray from the first into the
\* pool, and then deletes more.
LeftAtQueued(a) ==
  /\ a <= Len(queued) => head = queued[a]
  /\ heap \subseteq {queued[i] : i \in a .. Len(queued)} \cup {pooled[i] : i \in 1 .. Len(pooled)}

LeftAtPooled(a) ==
  /\ FreeList = IF a <= Len(pooled) THEN pooled[a] ELSE nullptr
  /\ heap \subseteq {pooled[i] : i \in a .. Len(pooled)}

\* The lists are as they were, and each loop goes along one of them.
LinksKept ==
  /\ queued \in Seq(Node) /\ pooled \in Seq(Node)
  /\ \A i \in 1 .. Len(queued) : i < Len(queued) => next[queued[i]] = queued[i + 1]
  /\ \A i \in 1 .. Len(pooled) :
       next[pooled[i]] = IF i < Len(pooled) THEN pooled[i + 1] ELSE nullptr

HeadWalk ==
  /\ LinksKept
  /\ \E a \in 1 .. Len(queued) + 1 : LeftAtQueued(a)
  /\ FreeList = IF 1 <= Len(pooled) THEN pooled[1] ELSE nullptr

PoolWalk == LinksKept /\ \E a \in 1 .. Len(pooled) + 1 : LeftAtPooled(a)

DestructorInv ==
  /\ ListsWellFormed
  /\ life = "deleting Head" => HeadWalk
  /\ life = "deleting FreeList" => PoolWalk
  /\ life = "gone" => heap = {}
  /\ life \in {"alive", "deleting Head", "deleting FreeList", "gone", "undefined"}

\* The destructor starts at both heads with everything there is.
LEMMA DestroyKeeps ==
  ASSUME DestructorInv, Destroy, UNCHANGED <<queued, pooled>>
  PROVE  DestructorInv'
<1>1. WellFormed
  BY DEF DestructorInv, ListsWellFormed, Destroy
<1>2. /\ life' = "deleting Head"
      /\ UNCHANGED <<head, FreeList, next, heap>>
  BY DEF Destroy, links
<1>3. /\ Len(queued) = mSize /\ mSize \in Nat /\ Len(pooled) \in Nat
      /\ FreeList = IF 1 <= Len(pooled) THEN pooled[1] ELSE nullptr
  BY <1>1, EmptySeq, LenProperties DEF WellFormed, HTypeOK, QueueLinked, PoolLinked
<1>4. LinksKept'
  BY <1>1, <1>2, <1>3 DEF LinksKept, WellFormed, HTypeOK, QueueLinked, PoolLinked
<1>5. LeftAtQueued(1)'
  <2>1. 1 <= Len(queued) => head = queued[1]
    BY <1>1, <1>3 DEF WellFormed, QueueLinked
  <2>2. heap = {queued[i] : i \in 1 .. Len(queued)} \cup {pooled[i] : i \in 1 .. Len(pooled)}
    BY <1>1 DEF WellFormed, Placed
  <2> QED
    BY <1>2, <2>1, <2>2 DEF LeftAtQueued
<1>6. 1 \in 1 .. Len(queued') + 1
  BY <1>3
<1>7. HeadWalk'
  BY <1>2, <1>3, <1>4, <1>5, <1>6 DEF HeadWalk
<1> QED
  BY <1>2, <1>7 DEF DestructorInv, ListsWellFormed

\* Along Head it comes to the end of the queue, if not further.
LEMMA DeleteHeadKeeps ==
  ASSUME DestructorInv, DeleteHead, UNCHANGED <<queued, pooled>>
  PROVE  DestructorInv'
<1>1. life = "deleting Head" /\ UNCHANGED <<FreeList, next>>
  BY DEF DeleteHead, links
<1>2. HeadWalk
  BY <1>1 DEF DestructorInv
<1>3. /\ Len(queued) \in Nat /\ Len(pooled) \in Nat
      /\ \A i \in 1 .. Len(queued) : queued[i] # nullptr
  <2>1. queued \in Seq(Node) /\ pooled \in Seq(Node)
    BY <1>2 DEF HeadWalk, LinksKept
  <2> QED
    BY <2>1, LenProperties, ElementOfSeq, NullAssumption
<1>4. LinksKept'
  BY <1>1, <1>2 DEF HeadWalk, LinksKept
<1> PICK a \in 1 .. Len(queued) + 1 : LeftAtQueued(a)
  BY <1>2 DEF HeadWalk
<1>5. CASE head = nullptr /\ life' = "deleting FreeList" /\ UNCHANGED heap
  <2>1. ~(a <= Len(queued))
    <3> SUFFICES ASSUME a <= Len(queued) PROVE FALSE
      OBVIOUS
    <3>1. a \in 1 .. Len(queued) /\ head = queued[a]
      BY <1>3 DEF LeftAtQueued
    <3> QED
      BY <1>3, <1>5, <3>1
  <2>2. heap \subseteq {pooled[i] : i \in 1 .. Len(pooled)}
    BY <1>3, <2>1 DEF LeftAtQueued
  <2>3. FreeList = IF 1 <= Len(pooled) THEN pooled[1] ELSE nullptr
    BY <1>2 DEF HeadWalk
  <2>4. LeftAtPooled(1)'
    BY <1>1, <1>5, <2>2, <2>3 DEF LeftAtPooled
  <2>5. 1 \in 1 .. Len(pooled') + 1
    BY <1>3
  <2>6. PoolWalk'
    BY <1>4, <2>4, <2>5 DEF PoolWalk
  <2> QED
    BY <1>5, <2>6 DEF DestructorInv, ListsWellFormed
<1>6. CASE head \in heap /\ head' = next[head] /\ heap' = heap \ {head} /\ UNCHANGED life
  <2>0. ASSUME NEW b \in 1 .. Len(queued') + 1, LeftAtQueued(b)' PROVE DestructorInv'
    <3>1. HeadWalk'
      BY <1>1, <1>2, <1>4, <2>0 DEF HeadWalk
    <3> QED
      BY <1>1, <1>6, <3>1 DEF DestructorInv, ListsWellFormed
  <2>1. CASE a <= Len(queued)
    <3>1. head = queued[a]
      BY <2>1 DEF LeftAtQueued
    <3>2. a + 1 <= Len(queued) => head' = queued[a + 1]
      <4>1. a \in 1 .. Len(queued) /\ (a + 1 <= Len(queued) => a < Len(queued))
        BY <1>3, <2>1
      <4> QED
        BY <1>2, <1>6, <3>1, <4>1 DEF HeadWalk, LinksKept
    <3>3. \A n \in heap' : \/ \E i \in a + 1 .. Len(queued) : n = queued[i]
                          \/ \E i \in 1 .. Len(pooled) : n = pooled[i]
      <4> SUFFICES ASSUME NEW n \in heap' PROVE
                     \/ \E i \in a + 1 .. Len(queued) : n = queued[i]
                     \/ \E i \in 1 .. Len(pooled) : n = pooled[i]
        OBVIOUS
      <4>1. n \in heap /\ n # queued[a]
        BY <1>6, <3>1
      <4>2. \/ \E i \in a .. Len(queued) : n = queued[i]
            \/ \E i \in 1 .. Len(pooled) : n = pooled[i]
        BY <4>1 DEF LeftAtQueued
      <4>3. \A i \in a .. Len(queued) : i = a \/ i \in a + 1 .. Len(queued)
        BY <1>3
      <4> QED
        BY <4>1, <4>2, <4>3
    <3>4. LeftAtQueued(a + 1)'
      BY <3>2, <3>3 DEF LeftAtQueued
    <3>5. a + 1 \in 1 .. Len(queued') + 1
      BY <1>3, <2>1
    <3> QED
      BY <2>0, <3>4, <3>5
  <2>2. CASE ~(a <= Len(queued))
    <3>1. LeftAtQueued(a)'
      BY <1>6, <2>2 DEF LeftAtQueued
    <3> QED
      BY <2>0, <3>1
  <2> QED
    BY <2>1, <2>2
<1>7. CASE life' = "undefined"
  BY <1>7 DEF DestructorInv, ListsWellFormed
<1> QED
  BY <1>5, <1>6, <1>7 DEF DeleteHead

\* Along FreeList it comes to the end of the pool, or to a node it has deleted.
LEMMA DeleteFreeListKeeps ==
  ASSUME DestructorInv, DeleteFreeList, UNCHANGED <<queued, pooled>>
  PROVE  DestructorInv'
<1>1. life = "deleting FreeList" /\ UNCHANGED <<head, next>>
  BY DEF DeleteFreeList, links
<1>2. PoolWalk
  BY <1>1 DEF DestructorInv
<1>3. Len(pooled) \in Nat /\ \A i \in 1 .. Len(pooled) : pooled[i] # nullptr
  <2>1. pooled \in Seq(Node)
    BY <1>2 DEF PoolWalk, LinksKept
  <2> QED
    BY <2>1, LenProperties, ElementOfSeq, NullAssumption
<1>4. LinksKept'
  BY <1>1, <1>2 DEF PoolWalk, LinksKept
<1> PICK a \in 1 .. Len(pooled) + 1 : LeftAtPooled(a)
  BY <1>2 DEF PoolWalk
<1>5. CASE FreeList = nullptr /\ life' = "gone" /\ UNCHANGED heap
  <2>1. ~(a <= Len(pooled))
    BY <1>3, <1>5 DEF LeftAtPooled
  <2>2. heap' = {}
    BY <1>3, <1>5, <2>1 DEF LeftAtPooled
  <2> QED
    BY <1>5, <2>2 DEF DestructorInv, ListsWellFormed
<1>6. CASE FreeList \in heap /\ FreeList' = next[FreeList] /\ heap' = heap \ {FreeList}
           /\ UNCHANGED life
  <2>1. CASE a <= Len(pooled)
    <3>1. FreeList = pooled[a] /\ a \in 1 .. Len(pooled)
      BY <1>3, <2>1 DEF LeftAtPooled
    <3>2. FreeList' = IF a + 1 <= Len(pooled) THEN pooled[a + 1] ELSE nullptr
      <4>1. next[pooled[a]] = IF a < Len(pooled) THEN pooled[a + 1] ELSE nullptr
        BY <1>2, <3>1 DEF PoolWalk, LinksKept
      <4> QED
        BY <1>3, <1>6, <3>1, <4>1
    <3>3. heap' \subseteq {pooled[i] : i \in a + 1 .. Len(pooled)}
      <4> SUFFICES ASSUME NEW n \in heap'
                   PROVE  \E i \in a + 1 .. Len(pooled) : n = pooled[i]
        OBVIOUS
      <4>1. \E i \in a .. Len(pooled) : n = pooled[i]
        BY <1>6 DEF LeftAtPooled
      <4>2. \A i \in a .. Len(pooled) : i = a \/ i \in a + 1 .. Len(pooled)
        BY <1>3
      <4> QED
        BY <1>6, <3>1, <4>1, <4>2
    <3>4. LeftAtPooled(a + 1)' /\ a + 1 \in 1 .. Len(pooled') + 1
      BY <1>3, <2>1, <3>2, <3>3 DEF LeftAtPooled
    <3>5. PoolWalk'
      BY <1>4, <3>4 DEF PoolWalk
    <3> QED
      BY <1>1, <1>6, <3>5 DEF DestructorInv, ListsWellFormed
  <2>2. CASE ~(a <= Len(pooled))
    <3>1. heap = {}
      BY <1>3, <2>2 DEF LeftAtPooled
    <3> QED
      BY <1>6, <3>1
  <2> QED
    BY <2>1, <2>2
<1>7. CASE life' = "undefined"
  BY <1>7 DEF DestructorInv, ListsWellFormed
<1> QED
  BY <1>5, <1>6, <1>7 DEF DeleteFreeList

\* If the destructor comes to its end, every node is deleted: neither a node in
\* the queue nor one in the pool is left behind, wherever Head pointed.
THEOREM DestructorLeavesNothing == HSpec => []NothingLeaks
<1>1. HInit => DestructorInv
  BY InitWellFormed DEF HInit, Init, DestructorInv, ListsWellFormed
<1>2. DestructorInv /\ [HNext]_hvars => DestructorInv'
  <2> SUFFICES ASSUME DestructorInv, [HNext]_hvars PROVE DestructorInv'
    OBVIOUS
  <2>1. CASE Hpop \/ \E d \in Data : Hpush(d)
    <3>1. life' = "alive"
      BY <2>1 DEF Hpop, Hpush, pop, push
    <3>2. ListsWellFormed'
      BY StepWellFormed DEF DestructorInv
    <3> QED
      BY <3>1, <3>2 DEF DestructorInv
  <2>2. CASE Hdestroy
    BY <2>2, DestroyKeeps, DeleteHeadKeeps, DeleteFreeListKeeps DEF Hdestroy
  <2>3. CASE UNCHANGED hvars
    <3>1. ListsWellFormed'
      BY StepWellFormed DEF DestructorInv
    <3>2. UNCHANGED <<head, FreeList, next, heap, life, queued, pooled>>
      BY <2>3 DEF hvars, vars, links
    <3>3. LinksKept => LinksKept'
      BY <3>2 DEF LinksKept
    <3>4. HeadWalk => HeadWalk'
      BY <3>2, <3>3 DEF HeadWalk, LeftAtQueued
    <3>5. PoolWalk => PoolWalk'
      BY <3>2, <3>3 DEF PoolWalk, LeftAtPooled
    <3> QED
      BY <3>1, <3>2, <3>4, <3>5 DEF DestructorInv
  <2> QED
    BY <2>1, <2>2, <2>3 DEF HNext
<1>3. DestructorInv => NothingLeaks
  BY DEF DestructorInv, NothingLeaks
<1> QED
  BY <1>1, <1>2, <1>3, PTL DEF HSpec
=============================================================================
