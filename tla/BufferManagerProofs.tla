------------------------- MODULE BufferManagerProofs -------------------------
(***************************************************************************)
(* What holds of the buffer pool for any finite sets of transactions and   *)
(* blocks, any number of buffers and any number of pins, whether or not    *)
(* reads may throw.  The safety properties prove each other: the pool      *)
(* count needs the pins to be accounted for, a pin is only given to the    *)
(* right buffer because no block is in two buffers, and a pinned buffer    *)
(* stays because the pins counted in the lists keep it from being chosen.  *)
(* ListsOK adds what the buffer_list's two maps say of each other.         *)
(***************************************************************************)
EXTENDS BufferManager, FiniteSetTheorems, TLAPS

(* Outside unpin_all a buffer_list names a buffer only while it counts a   *)
(* pin, and a thread inside pin has room for one pin more.                 *)
ListsOK ==
  \A t \in Txs :
    /\ pc[t] = "pin" => myPins[t][want[t]] < MaxPins
    /\ pc[t] # "unpin_all" => \A b \in Blocks : myBuffers[t][b] # 0 => myPins[t][b] > 0

IInv == /\ TypeOK
        /\ ListsOK
        /\ AvailableCount
        /\ OneBufferPerBlock
        /\ PinsAccounted
        /\ PinnedBufferStays

-----------------------------------------------------------------------------
(* Counting pins.  RefsIn and FreeIn are Refs and the set counted by       *)
(* AvailableCount, as functions of the state they depend on.               *)

BufferMap == [Txs -> [Blocks -> Buffs \cup {0}]]
PinMap == [Txs -> [Blocks -> 0 .. MaxPins]]

AllRefs == Txs \X Blocks \X (1 .. MaxPins)

RefsIn(B, P, i) == {r \in AllRefs : B[r[1]][r[2]] = i /\ r[3] <= P[r[1]][r[2]]}

FreeIn(N) == {i \in Buffs : ~(N[i] > 0)}

Accounted(N, B, P) == \A i \in Buffs : N[i] = Cardinality(RefsIn(B, P, i))

(* There are finitely many references in all.                              *)
LEMMA RefsFinite ==
  ASSUME NEW B, NEW P, NEW i
  PROVE  IsFiniteSet(RefsIn(B, P, i)) /\ Cardinality(RefsIn(B, P, i)) \in Nat
<1> DEFINE Nested == (Txs \X Blocks) \X (1 .. MaxPins)
<1> DEFINE f == [r \in AllRefs |-> <<<<r[1], r[2]>>, r[3]>>]
<1>1. IsFiniteSet(Nested)
  <2>1. IsFiniteSet(1 .. MaxPins)
    BY FS_Interval, BufferAssumption
  <2>2. IsFiniteSet(Txs \X Blocks)
    BY FS_Product, BufferAssumption
  <2> QED BY <2>1, <2>2, FS_Product
<1>2. f \in Injection(AllRefs, Nested)
  <2>1. f \in [AllRefs -> Nested]
    BY DEF AllRefs
  <2>2. \A r, s \in AllRefs : f[r] = f[s] => r = s
    BY DEF AllRefs
  <2> QED BY <2>1, <2>2 DEF Injection, IsInjective
<1>3. IsFiniteSet(AllRefs)
  <2> HIDE DEF Nested, f
  <2> QED BY <1>1, <1>2, FS_Injection
<1>4. RefsIn(B, P, i) \subseteq AllRefs
  BY DEF RefsIn
<1>5. IsFiniteSet(RefsIn(B, P, i))
  BY <1>3, <1>4, FS_Subset
<1> QED BY <1>5, FS_CardinalityType

(* One element less.                                                       *)
LEMMA TakeOut ==
  ASSUME NEW S, IsFiniteSet(S), NEW e \in S
  PROVE  Cardinality(S \ {e}) = Cardinality(S) - 1
BY FS_RemoveElement

(* The unpinned buffers are finitely many, at most all of them.            *)
LEMMA FreeFinite ==
  ASSUME NEW N
  PROVE  /\ IsFiniteSet(FreeIn(N))
         /\ Cardinality(FreeIn(N)) \in 0 .. NumBuffs
<1>1. IsFiniteSet(Buffs) /\ Cardinality(Buffs) = NumBuffs
  BY FS_Interval, BufferAssumption DEF Buffs
<1>2. FreeIn(N) \subseteq Buffs
  BY DEF FreeIn
<1>3. IsFiniteSet(FreeIn(N)) /\ Cardinality(FreeIn(N)) <= NumBuffs
  BY <1>1, <1>2, FS_Subset
<1>4. Cardinality(FreeIn(N)) \in Nat
  BY <1>3, FS_CardinalityType
<1> QED BY <1>3, <1>4, BufferAssumption

(* A pin entered in a list and counted in the buffer it names.             *)
LEMMA AddPin ==
  ASSUME NEW B \in BufferMap, NEW P \in PinMap, NEW N \in [Buffs -> Nat],
         Accounted(N, B, P),
         NEW t \in Txs, NEW b \in Blocks, NEW i \in Buffs,
         P[t][b] < MaxPins, P[t][b] = 0 \/ B[t][b] = i
  PROVE  Accounted([N EXCEPT ![i] = N[i] + 1], [B EXCEPT ![t][b] = i],
                   [P EXCEPT ![t][b] = P[t][b] + 1])
<1> DEFINE B2 == [B EXCEPT ![t][b] = i]
<1> DEFINE P2 == [P EXCEPT ![t][b] = P[t][b] + 1]
<1> DEFINE N2 == [N EXCEPT ![i] = N[i] + 1]
<1> DEFINE new == <<t, b, P[t][b] + 1>>
<1>1. \A u \in Txs, c \in Blocks :
        B2[u][c] = IF u = t /\ c = b THEN i ELSE B[u][c]
  BY DEF BufferMap
<1>2. \A u \in Txs, c \in Blocks :
        P2[u][c] = IF u = t /\ c = b THEN P[t][b] + 1 ELSE P[u][c]
  BY DEF PinMap
<1>3. \A u \in Txs, c \in Blocks : P[u][c] \in 0 .. MaxPins
  BY DEF PinMap
<1>4. \A j \in Buffs : N2[j] = IF j = i THEN N[i] + 1 ELSE N[j]
  OBVIOUS
<1>5. new \in AllRefs
  BY <1>3, BufferAssumption DEF AllRefs
<1> HIDE DEF B2, P2, N2
<1>6. RefsIn(B2, P2, i) = RefsIn(B, P, i) \cup {new}
  BY <1>1, <1>2, <1>3, <1>5, BufferAssumption DEF RefsIn, AllRefs
<1>7. new \notin RefsIn(B, P, i)
  BY <1>3, BufferAssumption DEF RefsIn
<1>8. \A j \in Buffs : j # i => RefsIn(B2, P2, j) = RefsIn(B, P, j)
  BY <1>1, <1>2, <1>3, BufferAssumption DEF RefsIn, AllRefs
<1>9. Cardinality(RefsIn(B2, P2, i)) = N[i] + 1
  <2> HIDE DEF new
  <2>1. IsFiniteSet(RefsIn(B, P, i))
    BY RefsFinite
  <2>2. Cardinality(RefsIn(B2, P2, i)) = Cardinality(RefsIn(B, P, i)) + 1
    BY <2>1, <1>6, <1>7, FS_AddElement
  <2> QED BY <2>2 DEF Accounted
<1>10. Accounted(N2, B2, P2)
  BY <1>4, <1>8, <1>9 DEF Accounted
<1> QED BY <1>10 DEF B2, P2, N2

(* A pin taken out of a list and out of the buffer it names; the last pin  *)
(* may take the name of the buffer with it.                                *)
LEMMA DropPin ==
  ASSUME NEW B \in BufferMap, NEW P \in PinMap, NEW N \in [Buffs -> Nat],
         Accounted(N, B, P),
         NEW t \in Txs, NEW b \in Blocks, P[t][b] > 0, B[t][b] # 0,
         NEW x, x = B[t][b] \/ P[t][b] = 1
  PROVE  /\ N[B[t][b]] > 0
         /\ Accounted([N EXCEPT ![B[t][b]] = N[B[t][b]] - 1], [B EXCEPT ![t][b] = x],
                      [P EXCEPT ![t][b] = P[t][b] - 1])
<1> DEFINE i == B[t][b]
<1> DEFINE B2 == [B EXCEPT ![t][b] = x]
<1> DEFINE P2 == [P EXCEPT ![t][b] = P[t][b] - 1]
<1> DEFINE N2 == [N EXCEPT ![i] = N[i] - 1]
<1> DEFINE old == <<t, b, P[t][b]>>
<1>0. i \in Buffs
  BY DEF BufferMap
<1>1. \A u \in Txs, c \in Blocks :
        B2[u][c] = IF u = t /\ c = b THEN x ELSE B[u][c]
  BY DEF BufferMap
<1>2. \A u \in Txs, c \in Blocks :
        P2[u][c] = IF u = t /\ c = b THEN P[t][b] - 1 ELSE P[u][c]
  BY DEF PinMap
<1>3. \A u \in Txs, c \in Blocks : P[u][c] \in 0 .. MaxPins
  BY DEF PinMap
<1>4. \A j \in Buffs : N2[j] = IF j = i THEN N[i] - 1 ELSE N[j]
  BY <1>0
<1>5. old \in RefsIn(B, P, i)
  BY <1>3, BufferAssumption DEF RefsIn, AllRefs
<1>a. i = B[t][b]
  OBVIOUS
<1> HIDE DEF B2, P2, N2, i
<1>6. RefsIn(B2, P2, i) = RefsIn(B, P, i) \ {old}
  BY <1>1, <1>2, <1>3, <1>a, BufferAssumption DEF RefsIn, AllRefs
<1>8. \A j \in Buffs : j # i => RefsIn(B2, P2, j) = RefsIn(B, P, j)
  BY <1>1, <1>2, <1>3, <1>a, BufferAssumption DEF RefsIn, AllRefs
<1> HIDE DEF old
<1>9. Cardinality(RefsIn(B2, P2, i)) = N[i] - 1
  <2>1. IsFiniteSet(RefsIn(B, P, i))
    BY RefsFinite
  <2>2. Cardinality(RefsIn(B2, P2, i)) = Cardinality(RefsIn(B, P, i)) - 1
    <3>1. Cardinality(RefsIn(B, P, i) \ {old}) = Cardinality(RefsIn(B, P, i)) - 1
      BY <2>1, <1>5, TakeOut
    <3> QED BY <3>1, <1>6
  <2> QED BY <2>2, <1>0 DEF Accounted
<1>10. N[i] > 0
  BY <1>0, <1>9, RefsFinite
<1>11. Accounted(N2, B2, P2)
  BY <1>4, <1>8, <1>9 DEF Accounted
<1> QED BY <1>10, <1>11 DEF B2, P2, N2, i

(* One more pin on a buffer: one unpinned buffer less, if it was unpinned. *)
LEMMA FewerFree ==
  ASSUME NEW N \in [Buffs -> Nat], NEW i \in Buffs
  PROVE  Cardinality(FreeIn([N EXCEPT ![i] = N[i] + 1])) =
           IF N[i] > 0 THEN Cardinality(FreeIn(N)) ELSE Cardinality(FreeIn(N)) - 1
<1> DEFINE N2 == [N EXCEPT ![i] = N[i] + 1]
<1>1. FreeIn(N2) = FreeIn(N) \ {i}
  BY DEF FreeIn
<1>2. i \in FreeIn(N) <=> ~(N[i] > 0)
  BY DEF FreeIn
<1> HIDE DEF N2
<1>3. Cardinality(FreeIn(N2)) = IF N[i] > 0 THEN Cardinality(FreeIn(N))
                                            ELSE Cardinality(FreeIn(N)) - 1
  BY <1>1, <1>2, FreeFinite, FS_RemoveElement
<1> QED BY <1>3 DEF N2

(* One pin less: one unpinned buffer more, if it was the last pin.         *)
LEMMA MoreFree ==
  ASSUME NEW N \in [Buffs -> Nat], NEW i \in Buffs, N[i] > 0
  PROVE  Cardinality(FreeIn([N EXCEPT ![i] = N[i] - 1])) =
           IF N[i] - 1 > 0 THEN Cardinality(FreeIn(N)) ELSE Cardinality(FreeIn(N)) + 1
<1> DEFINE N2 == [N EXCEPT ![i] = N[i] - 1]
<1>1. N[i] - 1 > 0 => FreeIn(N2) = FreeIn(N)
  BY DEF FreeIn
<1>2. ~(N[i] - 1 > 0) => FreeIn(N2) = FreeIn(N) \cup {i}
  BY DEF FreeIn
<1>3. i \notin FreeIn(N)
  BY DEF FreeIn
<1> HIDE DEF N2
<1>4. Cardinality(FreeIn(N2)) = IF N[i] - 1 > 0 THEN Cardinality(FreeIn(N))
                                               ELSE Cardinality(FreeIn(N)) + 1
  BY <1>1, <1>2, <1>3, FreeFinite, FS_AddElement
<1> QED BY <1>4 DEF N2

-----------------------------------------------------------------------------
(* The counters across the steps of the manager.                           *)

CountOK == /\ pins \in [Buffs -> Nat]
           /\ numAvailable \in 0 .. NumBuffs
           /\ AvailableCount
           /\ PinsAccounted

(* The invariants in the terms of the lemmas above.                        *)
LEMMA CountingForm ==
  /\ AvailableCount <=> numAvailable = Cardinality(FreeIn(pins))
  /\ PinsAccounted <=> Accounted(pins, myBuffers, myPins)
  /\ (AvailableCount <=> numAvailable = Cardinality(FreeIn(pins)))'
  /\ (PinsAccounted <=> Accounted(pins, myBuffers, myPins))'
BY DEF AvailableCount, PinsAccounted, FreeIn, is_pinned, Accounted, Refs, RefsIn, AllRefs

(* A pin given to the right buffer keeps the counters right.               *)
LEMMA PinCounts ==
  ASSUME IInv, NEW t \in Txs, NEW i \in Buffs, Entering(t), PinBuffer(t, i),
         myPins[t][want[t]] = 0 \/ myBuffers[t][want[t]] = i
  PROVE  CountOK'
<1> DEFINE b == want[t]
<1>1. /\ myBuffers \in BufferMap /\ myPins \in PinMap
      /\ pins \in [Buffs -> Nat] /\ numAvailable \in 0 .. NumBuffs
      /\ b \in Blocks
  BY DEF IInv, TypeOK, Entering, BufferMap, PinMap
<1>2. myPins[t][b] < MaxPins
  BY DEF IInv, ListsOK, Entering
<1>3. /\ pins' = [pins EXCEPT ![i] = pins[i] + 1]
      /\ myBuffers' = [myBuffers EXCEPT ![t][b] = i]
      /\ myPins' = [myPins EXCEPT ![t][b] = myPins[t][b] + 1]
      /\ numAvailable' = IF pins[i] > 0 THEN numAvailable ELSE numAvailable - 1
  BY DEF PinBuffer, is_pinned
<1>4. myPins[t][b] = 0 \/ myBuffers[t][b] = i
  OBVIOUS
<1>5. /\ numAvailable = Cardinality(FreeIn(pins))
      /\ Accounted(pins, myBuffers, myPins)
  BY CountingForm DEF IInv
<1> HIDE DEF b
<1>6. Accounted(pins', myBuffers', myPins')
  BY <1>1, <1>2, <1>3, <1>4, <1>5, AddPin
<1>7. numAvailable' = Cardinality(FreeIn(pins'))
  BY <1>1, <1>3, <1>5, FewerFree
<1>8. numAvailable' \in 0 .. NumBuffs
  BY <1>7, FreeFinite
<1>9. pins' \in [Buffs -> Nat]
  BY <1>1, <1>3
<1> QED BY <1>6, <1>7, <1>8, <1>9, CountingForm DEF CountOK

(* So does a pin given back.                                               *)
LEMMA UnpinCounts ==
  ASSUME IInv, NEW t \in Txs, NEW b \in Blocks,
         myPins[t][b] > 0, UnpinBuffer(myBuffers[t][b]),
         myPins' = [myPins EXCEPT ![t][b] = @ - 1],
         NEW x, x = myBuffers[t][b] \/ myPins[t][b] = 1,
         myBuffers' = [myBuffers EXCEPT ![t][b] = x]
  PROVE  CountOK'
<1> DEFINE i == myBuffers[t][b]
<1>1. /\ myBuffers \in BufferMap /\ myPins \in PinMap
      /\ pins \in [Buffs -> Nat] /\ numAvailable \in 0 .. NumBuffs
  BY DEF IInv, TypeOK, BufferMap, PinMap
<1>2. i # 0
  BY DEF IInv, PinnedBufferStays
<1>3. i \in Buffs
  BY <1>1, <1>2 DEF BufferMap
<1>4. /\ pins' = [pins EXCEPT ![i] = pins[i] - 1]
      /\ myPins' = [myPins EXCEPT ![t][b] = myPins[t][b] - 1]
      /\ \/ pins'[i] > 0 /\ numAvailable' = numAvailable
         \/ pins'[i] <= 0 /\ numAvailable' = numAvailable + 1
  BY DEF UnpinBuffer
<1>5. /\ numAvailable = Cardinality(FreeIn(pins))
      /\ Accounted(pins, myBuffers, myPins)
  BY CountingForm DEF IInv
<1>6. pins[i] > 0 /\ Accounted(pins', myBuffers', myPins')
  <2>1. /\ pins[i] > 0
        /\ Accounted([pins EXCEPT ![i] = pins[i] - 1], [myBuffers EXCEPT ![t][b] = x],
                     [myPins EXCEPT ![t][b] = myPins[t][b] - 1])
    BY <1>1, <1>2, <1>5, DropPin
  <2> HIDE DEF i
  <2> QED BY <2>1, <1>4
<1> HIDE DEF i
<1>7. pins'[i] = pins[i] - 1 /\ pins[i] \in Nat
  BY <1>1, <1>3, <1>4
<1>8. pins' \in [Buffs -> Nat]
  BY <1>1, <1>3, <1>4, <1>6
<1>9. numAvailable' = Cardinality(FreeIn(pins'))
  <2>1. Cardinality(FreeIn(pins')) =
          IF pins[i] - 1 > 0 THEN numAvailable ELSE numAvailable + 1
    BY <1>1, <1>3, <1>4, <1>5, <1>6, MoreFree
  <2> QED BY <2>1, <1>4, <1>7
<1>10. numAvailable' \in 0 .. NumBuffs
  BY <1>9, FreeFinite
<1> QED BY <1>6, <1>8, <1>9, <1>10, CountingForm DEF CountOK

(* A buffer somebody has pinned is counted as pinned, so it is not chosen. *)
LEMMA ListedIsPinned ==
  ASSUME IInv, NEW t \in Txs, NEW b \in Blocks, myPins[t][b] > 0
  PROVE  myBuffers[t][b] \in Buffs /\ is_pinned(myBuffers[t][b])
<1> DEFINE i == myBuffers[t][b]
<1>1. i \in Buffs
  BY DEF IInv, TypeOK, PinnedBufferStays
<1>2. <<t, b, 1>> \in RefsIn(myBuffers, myPins, i)
  BY BufferAssumption DEF IInv, TypeOK, RefsIn, AllRefs
<1> HIDE DEF i
<1>3. Cardinality(RefsIn(myBuffers, myPins, i)) # 0
  BY <1>2, RefsFinite, FS_EmptySet
<1>4. pins[i] = Cardinality(RefsIn(myBuffers, myPins, i))
  BY <1>1, CountingForm DEF IInv, Accounted
<1>5. pins[i] > 0
  BY <1>3, <1>4, RefsFinite
<1> QED BY <1>1, <1>5 DEF i, is_pinned

(* The two ways a pin finds its buffer, with what the lists say of it.     *)
LEMMA PinnedForWanted ==
  ASSUME IInv, NEW t \in Txs, NEW i \in Buffs, Entering(t),
         \/ IsExisting(i, want[t])
         \/ ~Buffered(want[t]) /\ IsChosen(i)
  PROVE  myPins[t][want[t]] = 0 \/ myBuffers[t][want[t]] = i
<1>1. want[t] \in Blocks /\ myPins[t][want[t]] \in Nat /\ want[t] # None
  BY BufferAssumption DEF IInv, TypeOK, Entering
<1>2. SUFFICES ASSUME myPins[t][want[t]] > 0
               PROVE  myBuffers[t][want[t]] = i
  BY <1>1
<1>3. myBuffers[t][want[t]] \in Buffs /\ block[myBuffers[t][want[t]]] = want[t]
  BY <1>1, <1>2, ListedIsPinned DEF IInv, PinnedBufferStays
<1>4. Buffered(want[t])
  BY <1>3 DEF Buffered
<1>5. block[i] = want[t]
  BY <1>4 DEF IsExisting, IsFirst
<1> QED BY <1>1, <1>3, <1>5 DEF IInv, OneBufferPerBlock

(* Steps that touch neither the pins nor the lists.                        *)
LEMMA SameCounts ==
  ASSUME IInv, UNCHANGED <<pins, numAvailable, lists>>
  PROVE  CountOK'
<1>1. pins' = pins /\ numAvailable' = numAvailable /\ myBuffers' = myBuffers /\ myPins' = myPins
  BY DEF lists
<1>2. pins \in [Buffs -> Nat] /\ numAvailable \in 0 .. NumBuffs
  BY DEF IInv, TypeOK
<1>3. numAvailable = Cardinality(FreeIn(pins)) /\ Accounted(pins, myBuffers, myPins)
  BY CountingForm DEF IInv
<1>4. numAvailable' = Cardinality(FreeIn(pins')) /\ Accounted(pins', myBuffers', myPins')
  BY <1>1, <1>3
<1> QED BY <1>1, <1>2, <1>4, CountingForm DEF CountOK

(* The end of unpin_all forgets entries that count no pin.                 *)
LEMMA EndCounts ==
  ASSUME IInv, NEW t \in Txs, EndUnpinAll(t)
  PROVE  CountOK'
<1>1. /\ myBuffers \in BufferMap /\ myPins \in PinMap
      /\ pins \in [Buffs -> Nat] /\ numAvailable \in 0 .. NumBuffs
  BY DEF IInv, TypeOK, BufferMap, PinMap
<1>2. /\ pins' = pins /\ numAvailable' = numAvailable /\ myPins' = myPins
      /\ myBuffers' = [myBuffers EXCEPT ![t] = [b \in Blocks |-> 0]]
      /\ \A b \in Blocks : myPins[t][b] = 0
  BY DEF EndUnpinAll, pool
<1>3. numAvailable = Cardinality(FreeIn(pins)) /\ Accounted(pins, myBuffers, myPins)
  BY CountingForm DEF IInv
<1>4. \A i \in Buffs : RefsIn(myBuffers', myPins', i) = RefsIn(myBuffers, myPins, i)
  <2>1. \A u \in Txs, b \in Blocks :
          myBuffers'[u][b] = IF u = t THEN 0 ELSE myBuffers[u][b]
    BY <1>1, <1>2 DEF BufferMap
  <2>2. \A r \in AllRefs : r[1] \in Txs /\ r[2] \in Blocks /\ r[3] >= 1
    BY BufferAssumption DEF AllRefs
  <2>3. \A i \in Buffs : i # 0
    BY BufferAssumption DEF Buffs
  <2>4. ASSUME NEW r \in AllRefs, NEW i \in Buffs
        PROVE  (myBuffers'[r[1]][r[2]] = i /\ r[3] <= myPins'[r[1]][r[2]])
                 <=> (myBuffers[r[1]][r[2]] = i /\ r[3] <= myPins[r[1]][r[2]])
    <3>1. CASE r[1] = t
      <4>1. ~(r[3] <= myPins[r[1]][r[2]])
        BY <3>1, <2>2, <1>2, BufferAssumption DEF AllRefs
      <4> QED BY <4>1, <1>2
    <3>2. CASE r[1] # t
      BY <3>2, <2>1, <2>2, <1>2
    <3> QED BY <3>1, <3>2
  <2> QED BY <2>4 DEF RefsIn
<1>5. numAvailable' = Cardinality(FreeIn(pins')) /\ Accounted(pins', myBuffers', myPins')
  BY <1>2, <1>3, <1>4 DEF Accounted
<1> QED BY <1>1, <1>2, <1>5, CountingForm DEF CountOK

(* The counters stay right in every step.                                  *)
LEMMA CountStep == IInv /\ [Next]_vars => CountOK'
<1> SUFFICES ASSUME IInv, [Next]_vars PROVE CountOK'
  OBVIOUS
<1>1. ASSUME NEW t \in Txs, NEW b \in Blocks, CallPin(t, b) PROVE CountOK'
  BY <1>1, SameCounts DEF CallPin, pool
<1>2. ASSUME NEW t \in Txs, NEW b \in Blocks, unpin(t, b) PROVE CountOK'
  <2> DEFINE x == IF myPins'[t][b] = 0 THEN 0 ELSE myBuffers[t][b]
  <2>1. myPins[t][b] > 0 /\ myPins[t][b] \in Nat
    <3>1. pc[t] # "unpin_all" /\ myBuffers[t][b] # 0
      BY <1>2 DEF unpin
    <3>2. myPins[t][b] \in Nat
      BY BufferAssumption DEF IInv, TypeOK
    <3> QED BY <3>1, <3>2 DEF IInv, ListsOK
  <2>2. /\ UnpinBuffer(myBuffers[t][b])
        /\ myPins' = [myPins EXCEPT ![t][b] = @ - 1]
        /\ myBuffers' = [myBuffers EXCEPT ![t][b] = x]
    BY <1>2 DEF unpin
  <2>3. myPins'[t][b] = myPins[t][b] - 1
    BY <2>2 DEF IInv, TypeOK
  <2>4. x = myBuffers[t][b] \/ myPins[t][b] = 1
    BY <2>1, <2>3
  <2> HIDE DEF x
  <2> QED BY <2>1, <2>2, <2>4, UnpinCounts
<1>3. ASSUME NEW t \in Txs, NEW b \in Blocks, set_modified(t, b) PROVE CountOK'
  BY <1>3, SameCounts DEF set_modified
<1>4. ASSUME NEW t \in Txs, pin(t) PROVE CountOK'
  <2>1. CASE PinExisting(t)
    BY <2>1, PinnedForWanted, PinCounts DEF PinExisting
  <2>2. CASE PinChosen(t)
    BY <2>2, PinnedForWanted, PinCounts DEF PinChosen
  <2>3. CASE PinReadFails(t)
    BY <2>3, SameCounts DEF PinReadFails
  <2>4. CASE PinSleeps(t)
    BY <2>4, SameCounts DEF PinSleeps, pool
  <2>5. CASE PinRechecks(t)
    BY <2>5, SameCounts DEF PinRechecks, pool
  <2> QED BY <1>4, <2>1, <2>2, <2>3, <2>4, <2>5 DEF pin
<1>5. ASSUME NEW t \in Txs, StartUnpinAll(t) PROVE CountOK'
  BY <1>5, SameCounts DEF StartUnpinAll, pool
<1>6. ASSUME NEW t \in Txs, NEW b \in Blocks, UnpinNext(t, b) PROVE CountOK'
  <2>1. myBuffers' = [myBuffers EXCEPT ![t][b] = myBuffers[t][b]]
    BY <1>6 DEF UnpinNext, IInv, TypeOK
  <2> QED BY <1>6, <2>1, UnpinCounts DEF UnpinNext
<1>7. ASSUME NEW t \in Txs, EndUnpinAll(t) PROVE CountOK'
  BY <1>7, EndCounts
<1>8. ASSUME NEW t \in Txs, flush_all(t) PROVE CountOK'
  BY <1>8, SameCounts DEF flush_all
<1>9. ASSUME NEW t \in Txs, TimePasses(t) \/ WaitTimesOut(t) \/ SpuriousWakeup(t)
      PROVE  CountOK'
  BY <1>9, SameCounts DEF TimePasses, WaitTimesOut, SpuriousWakeup, pool
<1>10. CASE UNCHANGED vars
  BY <1>10, SameCounts DEF vars, pool
<1> QED BY <1>1, <1>2, <1>3, <1>4, <1>5, <1>6, <1>7, <1>8, <1>9, <1>10
        DEF Next, unpin_all

-----------------------------------------------------------------------------
(* Blocks and buffers                                                      *)

(* A block that is in no buffer can be given to any one of them.           *)
LEMMA AssignOnce ==
  ASSUME IInv, NEW b \in Blocks, ~Buffered(b), NEW i \in Buffs,
         block' = [block EXCEPT ![i] = b]
  PROVE  OneBufferPerBlock'
<1>1. \A j \in Buffs : block'[j] = IF j = i THEN b ELSE block[j]
  BY DEF IInv, TypeOK
<1>2. \A j \in Buffs : block[j] # b
  BY DEF Buffered
<1> QED BY <1>1, <1>2 DEF IInv, OneBufferPerBlock

LEMMA OneBufferStep == IInv /\ [Next]_vars => OneBufferPerBlock'
<1> SUFFICES ASSUME IInv, [Next]_vars PROVE OneBufferPerBlock'
  OBVIOUS
<1>1. CASE block' = block
  BY <1>1 DEF IInv, OneBufferPerBlock
<1>2. ASSUME NEW t \in Txs, PinChosen(t) PROVE OneBufferPerBlock'
  <2>1. want[t] \in Blocks
    BY <1>2 DEF PinChosen, Entering, IInv, TypeOK
  <2> QED BY <1>2, <2>1, AssignOnce DEF PinChosen, assign_to_block
<1>3. ASSUME NEW t \in Txs, PinReadFails(t) PROVE OneBufferPerBlock'
  <2>1. want[t] \in Blocks
    BY <1>3 DEF PinReadFails, Entering, IInv, TypeOK
  <2> QED BY <1>3, <2>1, AssignOnce DEF PinReadFails, assign_fails
<1>4. ASSUME NEW t \in Txs, pin(t) PROVE OneBufferPerBlock'
  <2>1. CASE PinExisting(t) \/ PinSleeps(t) \/ PinRechecks(t)
    BY <2>1, <1>1 DEF PinExisting, PinSleeps, PinRechecks, pool
  <2> QED BY <2>1, <1>2, <1>3, <1>4 DEF pin
<1>5. \/ block' = block
      \/ \E t \in Txs : pin(t)
  <2>1. ASSUME NEW t \in Txs, NEW b \in Blocks,
               CallPin(t, b) \/ unpin(t, b) \/ set_modified(t, b) \/ UnpinNext(t, b)
        PROVE  block' = block
    BY <2>1 DEF CallPin, unpin, set_modified, UnpinNext, UnpinBuffer, pool
  <2>2. ASSUME NEW t \in Txs,
               StartUnpinAll(t) \/ EndUnpinAll(t) \/ flush_all(t)
        PROVE  block' = block
    BY <2>2 DEF StartUnpinAll, EndUnpinAll, flush_all, pool
  <2>3. ASSUME NEW t \in Txs, TimePasses(t) \/ WaitTimesOut(t) \/ SpuriousWakeup(t)
        PROVE  block' = block
    BY <2>3 DEF TimePasses, WaitTimesOut, SpuriousWakeup, pool
  <2>4. UNCHANGED vars => block' = block
    BY DEF vars, pool
  <2> QED BY <2>1, <2>2, <2>3, <2>4 DEF Next, unpin_all
<1> QED BY <1>1, <1>4, <1>5

(* A pin recorded in the list for the buffer that holds the block.         *)
LEMMA RecordedPinStays ==
  ASSUME IInv, NEW t \in Txs, NEW i \in Buffs, Entering(t), PinBuffer(t, i),
         block'[i] = want[t],
         \A j \in Buffs : is_pinned(j) => block'[j] = block[j]
  PROVE  PinnedBufferStays'
<1> SUFFICES ASSUME NEW u \in Txs, NEW b \in Blocks, myPins'[u][b] > 0
             PROVE  myBuffers'[u][b] # 0 /\ block'[myBuffers'[u][b]] = b
  BY DEF PinnedBufferStays
<1>1. want[t] \in Blocks
  BY DEF Entering, IInv, TypeOK
<1>2. i # 0
  BY BufferAssumption DEF Buffs
<1>3. CASE u = t /\ b = want[t]
  <2>1. myBuffers'[u][b] = i
    BY <1>1, <1>3 DEF PinBuffer, IInv, TypeOK
  <2> QED BY <2>1, <1>2, <1>3
<1>4. CASE ~(u = t /\ b = want[t])
  <2>1. myBuffers'[u][b] = myBuffers[u][b] /\ myPins'[u][b] = myPins[u][b]
    BY <1>1, <1>4 DEF PinBuffer, IInv, TypeOK
  <2>2. myBuffers[u][b] \in Buffs /\ is_pinned(myBuffers[u][b])
    BY <2>1, ListedIsPinned
  <2>3. myBuffers[u][b] # 0 /\ block[myBuffers[u][b]] = b
    BY <2>1 DEF IInv, PinnedBufferStays
  <2> QED BY <2>1, <2>2, <2>3
<1> QED BY <1>3, <1>4

(* A pin taken back leaves the other entries as they are.                  *)
LEMMA DroppedPinStays ==
  ASSUME IInv, NEW t \in Txs, NEW b \in Blocks, NEW x,
         block' = block,
         myPins' = [myPins EXCEPT ![t][b] = @ - 1],
         myBuffers' = [myBuffers EXCEPT ![t][b] = x],
         x = myBuffers[t][b] \/ myPins[t][b] = 1
  PROVE  PinnedBufferStays'
<1> SUFFICES ASSUME NEW u \in Txs, NEW c \in Blocks, myPins'[u][c] > 0
             PROVE  myBuffers'[u][c] # 0 /\ block'[myBuffers'[u][c]] = c
  BY DEF PinnedBufferStays
<1>1. myPins[u][c] \in Nat
  BY BufferAssumption DEF IInv, TypeOK
<1>2. myPins'[u][c] = IF u = t /\ c = b THEN myPins[u][c] - 1 ELSE myPins[u][c]
  BY DEF IInv, TypeOK
<1>3. myBuffers'[u][c] = IF u = t /\ c = b THEN x ELSE myBuffers[u][c]
  BY DEF IInv, TypeOK
<1>4. myPins[u][c] > 0 /\ myBuffers'[u][c] = myBuffers[u][c]
  BY <1>1, <1>2, <1>3
<1> QED BY <1>4 DEF IInv, PinnedBufferStays

LEMMA PinnedStaysStep == IInv /\ [Next]_vars => PinnedBufferStays'
<1> SUFFICES ASSUME IInv, [Next]_vars PROVE PinnedBufferStays'
  OBVIOUS
<1>1. CASE block' = block /\ UNCHANGED lists
  BY <1>1 DEF lists, IInv, PinnedBufferStays
<1>2. ASSUME NEW t \in Txs, NEW b \in Blocks, unpin(t, b) PROVE PinnedBufferStays'
  <2> DEFINE x == IF myPins'[t][b] = 0 THEN 0 ELSE myBuffers[t][b]
  <2>1. /\ myPins' = [myPins EXCEPT ![t][b] = @ - 1]
        /\ myBuffers' = [myBuffers EXCEPT ![t][b] = x]
        /\ block' = block
    BY <1>2 DEF unpin, UnpinBuffer
  <2>2. myPins'[t][b] = myPins[t][b] - 1 /\ myPins[t][b] \in Int
    BY <2>1, BufferAssumption DEF IInv, TypeOK
  <2>3. x = myBuffers[t][b] \/ myPins[t][b] = 1
    BY <2>2
  <2> HIDE DEF x
  <2> QED BY <2>1, <2>3, DroppedPinStays
<1>3. ASSUME NEW t \in Txs, PinExisting(t) PROVE PinnedBufferStays'
  <2>1. PICK i \in Buffs : IsExisting(i, want[t]) /\ PinBuffer(t, i)
    BY <1>3 DEF PinExisting
  <2>2. Entering(t) /\ block' = block
    BY <1>3 DEF PinExisting
  <2>3. block'[i] = want[t]
    BY <2>1, <2>2 DEF IsExisting, IsFirst
  <2> QED BY <2>1, <2>2, <2>3, RecordedPinStays
<1>4. ASSUME NEW t \in Txs, PinChosen(t) PROVE PinnedBufferStays'
  <2>1. PICK i \in Buffs : /\ IsChosen(i) /\ assign_to_block(i, want[t])
                           /\ PinBuffer(t, i)
    BY <1>4 DEF PinChosen
  <2>2. Entering(t)
    BY <1>4 DEF PinChosen
  <2>3. block' = [block EXCEPT ![i] = want[t]] /\ ~is_pinned(i)
    BY <2>1 DEF assign_to_block, IsChosen, IsFirst
  <2>4. \A j \in Buffs : block'[j] = IF j = i THEN want[t] ELSE block[j]
    BY <2>3 DEF IInv, TypeOK
  <2> QED BY <2>1, <2>2, <2>3, <2>4, RecordedPinStays
<1>5. ASSUME NEW t \in Txs, PinReadFails(t) PROVE PinnedBufferStays'
  <2>1. PICK i \in Buffs : IsChosen(i) /\ assign_fails(i, want[t])
    BY <1>5 DEF PinReadFails
  <2>2. block' = [block EXCEPT ![i] = want[t]] /\ ~is_pinned(i)
    BY <2>1 DEF assign_fails, IsChosen, IsFirst
  <2>3. \A j \in Buffs : block'[j] = IF j = i THEN want[t] ELSE block[j]
    BY <2>2 DEF IInv, TypeOK
  <2>4. myPins' = myPins /\ myBuffers' = myBuffers
    BY <1>5 DEF PinReadFails, lists
  <2>5. ASSUME NEW u \in Txs, NEW b \in Blocks, myPins[u][b] > 0
        PROVE  myBuffers[u][b] # 0 /\ block'[myBuffers[u][b]] = b
    <3>1. myBuffers[u][b] \in Buffs /\ myBuffers[u][b] # i
      BY <2>2, <2>5, ListedIsPinned
    <3> QED BY <2>3, <2>5, <3>1 DEF IInv, PinnedBufferStays
  <2> QED BY <2>4, <2>5 DEF PinnedBufferStays
<1>6. ASSUME NEW t \in Txs, NEW b \in Blocks, UnpinNext(t, b) PROVE PinnedBufferStays'
  <2>1. myBuffers' = [myBuffers EXCEPT ![t][b] = myBuffers[t][b]]
    BY <1>6 DEF UnpinNext, IInv, TypeOK
  <2>2. block' = block /\ myPins' = [myPins EXCEPT ![t][b] = @ - 1]
    BY <1>6 DEF UnpinNext, UnpinBuffer
  <2> QED BY <2>1, <2>2, DroppedPinStays
<1>7. ASSUME NEW t \in Txs, EndUnpinAll(t) PROVE PinnedBufferStays'
  <2>1. /\ block' = block /\ myPins' = myPins
        /\ \A b \in Blocks : ~(myPins[t][b] > 0)
        /\ \A u \in Txs : u # t => myBuffers'[u] = myBuffers[u]
    BY <1>7 DEF EndUnpinAll, pool, IInv, TypeOK
  <2> QED BY <2>1 DEF IInv, PinnedBufferStays
<1>8. ASSUME NEW t \in Txs, pin(t) PROVE PinnedBufferStays'
  <2>1. CASE PinSleeps(t) \/ PinRechecks(t)
    BY <2>1, <1>1 DEF PinSleeps, PinRechecks, pool
  <2> QED BY <2>1, <1>3, <1>4, <1>5, <1>8 DEF pin
<1>9. ASSUME NEW t \in Txs, NEW b \in Blocks, CallPin(t, b) \/ set_modified(t, b)
      PROVE  PinnedBufferStays'
  BY <1>9, <1>1 DEF CallPin, set_modified, pool
<1>10. ASSUME NEW t \in Txs, StartUnpinAll(t) \/ flush_all(t) PROVE PinnedBufferStays'
  BY <1>10, <1>1 DEF StartUnpinAll, flush_all, pool
<1>11. ASSUME NEW t \in Txs, TimePasses(t) \/ WaitTimesOut(t) \/ SpuriousWakeup(t)
       PROVE  PinnedBufferStays'
  BY <1>11, <1>1 DEF TimePasses, WaitTimesOut, SpuriousWakeup, pool
<1>12. CASE UNCHANGED vars
  BY <1>12, <1>1 DEF vars, pool
<1> QED BY <1>2, <1>6, <1>7, <1>8, <1>9, <1>10, <1>11, <1>12 DEF Next, unpin_all

-----------------------------------------------------------------------------
(* The lists and the types                                                 *)

LEMMA ListsStep == IInv /\ [Next]_vars => ListsOK'
<1> SUFFICES ASSUME IInv, [Next]_vars PROVE ListsOK'
  OBVIOUS
<1>0. /\ myBuffers \in BufferMap /\ myPins \in PinMap
      /\ pc \in [Txs -> {"idle", "pin", "unpin_all"}]
      /\ want \in [Txs -> Blocks \cup {None}]
      /\ \A t \in Txs : pc[t] = "pin" => want[t] \in Blocks
      /\ \A t \in Txs, b \in Blocks : myPins[t][b] \in Nat
  BY BufferAssumption DEF IInv, TypeOK, BufferMap, PinMap
<1>a. ListsOK
  BY DEF IInv
<1>1. CASE UNCHANGED <<lists, pc, want>>
  BY <1>1, <1>a DEF lists, ListsOK
<1>2. ASSUME NEW t \in Txs, NEW b \in Blocks, CallPin(t, b) PROVE ListsOK'
  BY <1>2, <1>0, <1>a DEF CallPin, lists, ListsOK
<1>3. ASSUME NEW t \in Txs, NEW i \in Buffs, Entering(t), PinBuffer(t, i) PROVE ListsOK'
  <2>1. \A u \in Txs, c \in Blocks :
          /\ myBuffers'[u][c] = IF u = t /\ c = want[t] THEN i ELSE myBuffers[u][c]
          /\ myPins'[u][c] = IF u = t /\ c = want[t] THEN myPins[t][want[t]] + 1
                                                     ELSE myPins[u][c]
    BY <1>3, <1>0 DEF PinBuffer, Entering, BufferMap, PinMap
  <2>2. \A u \in Txs : /\ pc'[u] = IF u = t THEN "idle" ELSE pc[u]
                       /\ want'[u] = IF u = t THEN None ELSE want[u]
    BY <1>3, <1>0 DEF PinBuffer, Return
  <2>3. pc[t] = "pin" /\ want[t] \in Blocks
    BY <1>3, <1>0 DEF Entering
  <2> QED BY <2>1, <2>2, <2>3, <1>0, <1>a DEF ListsOK
<1>4. ASSUME NEW t \in Txs, UNCHANGED lists, Return(t), pc[t] = "pin" PROVE ListsOK'
  BY <1>4, <1>0, <1>a DEF Return, lists, ListsOK
<1>5. ASSUME NEW t \in Txs, NEW b \in Blocks, unpin(t, b) PROVE ListsOK'
  <2>1. \A u \in Txs, c \in Blocks :
          /\ myPins'[u][c] = IF u = t /\ c = b THEN myPins[t][b] - 1 ELSE myPins[u][c]
          /\ myBuffers'[u][c] = IF u = t /\ c = b /\ myPins'[t][b] = 0 THEN 0
                                ELSE myBuffers[u][c]
    BY <1>5, <1>0 DEF unpin, BufferMap, PinMap
  <2>2. pc[t] = "idle" /\ pc' = pc /\ want' = want /\ myBuffers[t][b] # 0
    BY <1>5 DEF unpin
  <2>3. myPins[t][b] > 0
    BY <2>2, <1>a DEF ListsOK
  <2> QED BY <2>1, <2>2, <2>3, <1>0, <1>a DEF ListsOK
<1>6. ASSUME NEW t \in Txs, StartUnpinAll(t) PROVE ListsOK'
  BY <1>6, <1>0, <1>a DEF StartUnpinAll, lists, ListsOK
<1>7. ASSUME NEW t \in Txs, NEW b \in Blocks, UnpinNext(t, b) PROVE ListsOK'
  <2>1. \A u \in Txs : u # t => myPins'[u] = myPins[u]
    BY <1>7, <1>0 DEF UnpinNext, PinMap
  <2>2. pc[t] = "unpin_all" /\ pc' = pc /\ want' = want /\ myBuffers' = myBuffers
    BY <1>7 DEF UnpinNext
  <2> QED BY <2>1, <2>2, <1>0, <1>a DEF ListsOK
<1>8. ASSUME NEW t \in Txs, EndUnpinAll(t) PROVE ListsOK'
  <2>1. \A u \in Txs, c \in Blocks :
          myBuffers'[u][c] = IF u = t THEN 0 ELSE myBuffers[u][c]
    BY <1>8, <1>0 DEF EndUnpinAll, BufferMap
  <2>2. /\ \A u \in Txs : pc'[u] = IF u = t THEN "idle" ELSE pc[u]
        /\ myPins' = myPins /\ want' = want
    BY <1>8, <1>0 DEF EndUnpinAll
  <2> QED BY <2>1, <2>2, <1>0, <1>a DEF ListsOK
<1>9. ASSUME NEW t \in Txs, pin(t) PROVE ListsOK'
  <2>1. CASE PinExisting(t) \/ PinChosen(t)
    BY <2>1, <1>3 DEF PinExisting, PinChosen
  <2>2. CASE PinReadFails(t)
    BY <2>2, <1>4 DEF PinReadFails, Entering
  <2>3. CASE PinSleeps(t)
    BY <2>3, <1>1 DEF PinSleeps
  <2>4. CASE PinRechecks(t)
    BY <2>4, <1>1, <1>4 DEF PinRechecks
  <2> QED BY <1>9, <2>1, <2>2, <2>3, <2>4 DEF pin
<1>10. ASSUME NEW t \in Txs, NEW b \in Blocks, set_modified(t, b) PROVE ListsOK'
  BY <1>10, <1>1 DEF set_modified, thread
<1>11. ASSUME NEW t \in Txs, flush_all(t) PROVE ListsOK'
  BY <1>11, <1>1 DEF flush_all, thread
<1>12. ASSUME NEW t \in Txs, TimePasses(t) \/ WaitTimesOut(t) \/ SpuriousWakeup(t)
       PROVE  ListsOK'
  BY <1>12, <1>1 DEF TimePasses, WaitTimesOut, SpuriousWakeup
<1>13. CASE UNCHANGED vars
  BY <1>13, <1>1 DEF vars, thread
<1> QED BY <1>2, <1>5, <1>6, <1>7, <1>8, <1>9, <1>10, <1>11, <1>12, <1>13
        DEF Next, unpin_all

(* The page data in the pool and on disk.                                  *)
PagesOK == /\ block \in [Buffs -> Blocks \cup {None}]
           /\ contents \in [Buffs -> AllData]
           /\ modifyingTx \in [Buffs -> Txs \cup {None}]
           /\ disk \in [Blocks -> AllData]

LEMMA FlushedType ==
  ASSUME TypeOK, NEW i \in Buffs
  PROVE  Flushed(i) \in [Blocks -> AllData]
BY DEF TypeOK, Flushed

LEMMA PagesStep == IInv /\ [Next]_vars => PagesOK'
<1> SUFFICES ASSUME IInv, [Next]_vars PROVE PagesOK'
  OBVIOUS
<1>0. TypeOK /\ PagesOK
  BY DEF IInv, TypeOK, PagesOK
<1>1. CASE UNCHANGED <<block, contents, modifyingTx, disk>>
  BY <1>0, <1>1 DEF PagesOK
<1>2. ASSUME NEW i \in Buffs, NEW b \in Blocks,
             assign_to_block(i, b) \/ assign_fails(i, b)
      PROVE  PagesOK'
  <2>2. disk' \in [Blocks -> AllData]
    BY <1>0, <1>2, FlushedType DEF assign_to_block, assign_fails
  <2>3. contents' = contents \/ contents' = [contents EXCEPT ![i] = disk'[b]]
    BY <1>2 DEF assign_to_block, assign_fails
  <2>4. contents' \in [Buffs -> AllData]
    BY <1>0, <2>2, <2>3 DEF PagesOK
  <2>5. /\ block' = [block EXCEPT ![i] = b]
        /\ modifyingTx' = [modifyingTx EXCEPT ![i] = None]
    BY <1>2 DEF assign_to_block, assign_fails
  <2> QED BY <1>0, <2>2, <2>4, <2>5 DEF PagesOK
<1>3. ASSUME NEW t \in Txs, NEW b \in Blocks, set_modified(t, b) PROVE PagesOK'
  <2> DEFINE i == myBuffers[t][b]
  <2>1. i \in Buffs
    BY <1>0, <1>3 DEF set_modified, TypeOK
  <2>2. /\ contents' = [contents EXCEPT ![i].bit = 1 - @]
        /\ modifyingTx' = [modifyingTx EXCEPT ![i] = t]
        /\ block' = block /\ disk' = disk
    BY <1>3 DEF set_modified
  <2> HIDE DEF i
  <2>3. contents' \in [Buffs -> AllData]
    <3>1. [contents[i] EXCEPT !.bit = 1 - @] \in AllData
      BY <1>0, <2>1 DEF PagesOK, AllData
    <3> QED BY <1>0, <2>1, <2>2, <3>1 DEF PagesOK
  <2> QED BY <1>0, <2>1, <2>2, <2>3 DEF PagesOK
<1>4. ASSUME NEW t \in Txs, flush_all(t) PROVE PagesOK'
  <2> DEFINE mine == {i \in Buffs : modifyingTx[i] = t}
  <2>1. \A b \in Blocks : (\E i \in mine : block[i] = b) =>
                         (CHOOSE i \in mine : block[i] = b) \in Buffs
    OBVIOUS
  <2>2. disk' = [b \in Blocks |-> IF \E i \in mine : block[i] = b
                                 THEN contents[CHOOSE i \in mine : block[i] = b]
                                 ELSE disk[b]]
    BY <1>4 DEF flush_all
  <2>3. modifyingTx' = [i \in Buffs |-> IF i \in mine THEN None ELSE modifyingTx[i]]
    BY <1>4 DEF flush_all
  <2>4. block' = block /\ contents' = contents
    BY <1>4 DEF flush_all
  <2>5. modifyingTx' \in [Buffs -> Txs \cup {None}]
    BY <1>0, <2>3 DEF PagesOK
  <2>6. disk' \in [Blocks -> AllData]
    <3> HIDE DEF mine
    <3> QED BY <1>0, <2>1, <2>2 DEF PagesOK
  <2> QED BY <1>0, <2>4, <2>5, <2>6 DEF PagesOK
<1>5. ASSUME NEW t \in Txs, pin(t) PROVE PagesOK'
  <2>1. Entering(t) => want[t] \in Blocks
    BY <1>0 DEF TypeOK, Entering
  <2>2. CASE PinChosen(t)
    BY <2>1, <2>2, <1>2 DEF PinChosen
  <2>3. CASE PinReadFails(t)
    BY <2>1, <2>3, <1>2 DEF PinReadFails
  <2>4. CASE PinExisting(t) \/ PinSleeps(t) \/ PinRechecks(t)
    BY <2>4, <1>1 DEF PinExisting, PinSleeps, PinRechecks, pool
  <2> QED BY <1>5, <2>2, <2>3, <2>4 DEF pin
<1> QED BY <1>1, <1>3, <1>4, <1>5
        DEF Next, vars, pool, CallPin, unpin, UnpinBuffer, StartUnpinAll, unpin_all, UnpinNext,
            EndUnpinAll, TimePasses, WaitTimesOut, SpuriousWakeup

(* The buffer_lists.                                                       *)
LEMMA ListTypesStep == IInv /\ [Next]_vars => myBuffers' \in BufferMap /\ myPins' \in PinMap
<1> SUFFICES ASSUME IInv, [Next]_vars PROVE myBuffers' \in BufferMap /\ myPins' \in PinMap
  OBVIOUS
<1>0. myBuffers \in BufferMap /\ myPins \in PinMap
  BY DEF IInv, TypeOK, BufferMap, PinMap
<1>1. CASE UNCHANGED lists
  BY <1>0, <1>1 DEF lists
<1>2. ASSUME NEW t \in Txs, NEW i \in Buffs, Entering(t), PinBuffer(t, i)
      PROVE  myBuffers' \in BufferMap /\ myPins' \in PinMap
  <2>1. want[t] \in Blocks /\ myPins[t][want[t]] < MaxPins
    BY <1>2 DEF Entering, IInv, TypeOK, ListsOK
  <2>2. myPins[t][want[t]] + 1 \in 0 .. MaxPins
    BY <1>0, <2>1, BufferAssumption DEF PinMap
  <2>3. /\ myBuffers' = [myBuffers EXCEPT ![t][want[t]] = i]
        /\ myPins' = [myPins EXCEPT ![t][want[t]] = myPins[t][want[t]] + 1]
    BY <1>2 DEF PinBuffer
  <2> QED BY <1>0, <2>1, <2>2, <2>3 DEF BufferMap, PinMap
<1>3. ASSUME NEW t \in Txs, NEW b \in Blocks, unpin(t, b) \/ UnpinNext(t, b)
      PROVE  myBuffers' \in BufferMap /\ myPins' \in PinMap
  <2>1. myPins[t][b] > 0
    BY <1>3 DEF unpin, UnpinNext, IInv, ListsOK
  <2>2. myPins[t][b] - 1 \in 0 .. MaxPins
    BY <1>0, <2>1, BufferAssumption DEF PinMap
  <2>3. myPins' = [myPins EXCEPT ![t][b] = myPins[t][b] - 1]
    BY <1>3 DEF unpin, UnpinNext
  <2>4. \/ myBuffers' = myBuffers
        \/ myBuffers' = [myBuffers EXCEPT ![t][b] = IF myPins'[t][b] = 0 THEN 0 ELSE @]
    BY <1>3 DEF unpin, UnpinNext
  <2>5. myPins' \in PinMap
    BY <1>0, <2>2, <2>3 DEF PinMap
  <2>6. myBuffers' \in BufferMap
    BY <1>0, <2>4 DEF BufferMap
  <2> QED BY <2>5, <2>6
<1>4. ASSUME NEW t \in Txs, EndUnpinAll(t)
      PROVE  myBuffers' \in BufferMap /\ myPins' \in PinMap
  BY <1>0, <1>4 DEF EndUnpinAll, BufferMap, PinMap
<1>5. \/ UNCHANGED lists
      \/ \E t \in Txs : \/ \E i \in Buffs : Entering(t) /\ PinBuffer(t, i)
                        \/ \E b \in Blocks : unpin(t, b) \/ UnpinNext(t, b)
                        \/ EndUnpinAll(t)
  BY DEF Next, vars, CallPin, set_modified, pin, PinExisting, PinChosen, PinReadFails,
         PinSleeps, PinRechecks, StartUnpinAll, unpin_all, flush_all, TimePasses,
         WaitTimesOut, SpuriousWakeup
<1> QED BY <1>1, <1>2, <1>3, <1>4, <1>5

(* The threads.                                                            *)
ThreadsOK ==
  /\ pc \in [Txs -> {"idle", "pin", "unpin_all"}]
  /\ want \in [Txs -> Blocks \cup {None}]
  /\ wait \in [Txs -> {"no", "asleep", "woken"}]
  /\ elapsed \in [Txs -> {"under", "limit", "over"}]
  /\ \A t \in Txs : /\ pc[t] = "pin" <=> want[t] \in Blocks
                    /\ wait[t] # "no" => pc[t] = "pin"

LEMMA ThreadsStep == ThreadsOK /\ [Next]_vars => ThreadsOK'
<1> SUFFICES ASSUME ThreadsOK, [Next]_vars PROVE ThreadsOK'
  OBVIOUS
<1> USE BufferAssumption DEF ThreadsOK
<1>1. CASE UNCHANGED thread
  BY <1>1 DEF thread
<1>2. ASSUME NEW t \in Txs, NEW b \in Blocks, CallPin(t, b) PROVE ThreadsOK'
  BY <1>2 DEF CallPin
<1>3. ASSUME NEW t \in Txs, NEW i \in Buffs, UnpinBuffer(i), UNCHANGED <<pc, want, elapsed>>
      PROVE  ThreadsOK'
  BY <1>3 DEF UnpinBuffer
<1>4. ASSUME NEW t \in Txs, Return(t) PROVE ThreadsOK'
  BY <1>4 DEF Return
<1>5. ASSUME NEW t \in Txs, pin(t) PROVE ThreadsOK'
  <2>1. CASE PinSleeps(t)
    BY <2>1 DEF PinSleeps, Entering
  <2>2. CASE PinRechecks(t)
    BY <2>2, <1>4 DEF PinRechecks
  <2> QED BY <1>4, <1>5, <2>1, <2>2 DEF pin, PinExisting, PinChosen, PinReadFails, PinBuffer
<1>6. ASSUME NEW t \in Txs, StartUnpinAll(t) \/ EndUnpinAll(t) PROVE ThreadsOK'
  BY <1>6 DEF StartUnpinAll, EndUnpinAll
<1>7. ASSUME NEW t \in Txs, TimePasses(t) \/ WaitTimesOut(t) \/ SpuriousWakeup(t)
      PROVE  ThreadsOK'
  BY <1>7 DEF TimePasses, WaitTimesOut, SpuriousWakeup
<1>8. ASSUME NEW t \in Txs, NEW b \in Blocks, unpin(t, b) \/ UnpinNext(t, b)
      PROVE  ThreadsOK'
  BY <1>8 DEF unpin, UnpinNext, UnpinBuffer
<1> QED BY <1>1, <1>2, <1>5, <1>6, <1>7, <1>8
        DEF Next, vars, set_modified, unpin_all, flush_all

LEMMA TypeStep == IInv /\ [Next]_vars => TypeOK'
<1> SUFFICES ASSUME IInv, [Next]_vars PROVE TypeOK'
  OBVIOUS
<1>1. ThreadsOK
  BY DEF IInv, TypeOK, ThreadsOK
<1>2. ThreadsOK'
  BY <1>1, ThreadsStep
<1>3. PagesOK' /\ CountOK' /\ myBuffers' \in BufferMap /\ myPins' \in PinMap
  BY PagesStep, CountStep, ListTypesStep
<1> QED BY <1>2, <1>3 DEF TypeOK, ThreadsOK, PagesOK, CountOK, BufferMap, PinMap

-----------------------------------------------------------------------------
(* The data in the buffers.  Coherent is inductive once the file is known  *)
(* to hold, for each block, data of that block.                            *)

DiskLabelled == ~ReadsMayFail => \A b \in Blocks : disk[b].of = b

DataInv == Coherent /\ DiskLabelled

(* A flush followed by a read into the buffer that was flushed.            *)
LEMMA AssignIsCoherent ==
  ASSUME IInv, DataInv, ~ReadsMayFail, NEW i \in Buffs, NEW b \in Blocks, ~Buffered(b),
         assign_to_block(i, b)
  PROVE  DataInv'
<1>0. PagesOK /\ None \notin Blocks
  BY BufferAssumption DEF IInv, TypeOK, PagesOK
<1>1. \A c \in Blocks :
        disk'[c] = IF modifyingTx[i] # None /\ c = block[i] THEN contents[i] ELSE disk[c]
  BY <1>0 DEF assign_to_block, Flushed, PagesOK
<1>2. \A j \in Buffs :
        /\ block'[j] = IF j = i THEN b ELSE block[j]
        /\ modifyingTx'[j] = IF j = i THEN None ELSE modifyingTx[j]
        /\ contents'[j] = IF j = i THEN disk'[b] ELSE contents[j]
  BY <1>0 DEF assign_to_block, PagesOK
<1>3. \A c \in Blocks : disk'[c].of = c
  BY <1>1 DEF DataInv, Coherent, DiskLabelled
<1>4. \A j \in Buffs : block[j] # None => block[j] \in Blocks
  BY <1>0 DEF PagesOK
<1>5. ASSUME NEW j \in Buffs
      PROVE  /\ block'[j] # None => contents'[j].of = block'[j]
             /\ modifyingTx'[j] # None => block'[j] # None
             /\ block'[j] # None /\ modifyingTx'[j] = None => contents'[j] = disk'[block'[j]]
  <2>1. CASE j = i
    BY <2>1, <1>2, <1>3
  <2>2. CASE j # i
    <3>1. block[j] # None => block[j] # block[i]
      BY <2>2 DEF IInv, OneBufferPerBlock
    <3>2. block[j] # None => disk'[block[j]] = disk[block[j]]
      BY <3>1, <1>1, <1>4
    <3> QED BY <2>2, <3>2, <1>2 DEF DataInv, Coherent
  <2> QED BY <2>1, <2>2
<1> QED BY <1>3, <1>5 DEF DataInv, Coherent, DiskLabelled

(* A modification made through a buffer_list.                              *)
LEMMA ModifyIsCoherent ==
  ASSUME IInv, DataInv, ~ReadsMayFail, NEW t \in Txs, NEW b \in Blocks, set_modified(t, b)
  PROVE  DataInv'
<1> DEFINE i == myBuffers[t][b]
<1>0. PagesOK /\ None \notin Blocks /\ t # None
  BY BufferAssumption DEF IInv, TypeOK, PagesOK
<1>1. pc[t] = "idle" /\ i # 0
  BY DEF set_modified
<1>2. myPins[t][b] > 0
  BY <1>1 DEF IInv, ListsOK
<1>3. i \in Buffs /\ block[i] = b
  BY <1>2, ListedIsPinned DEF IInv, PinnedBufferStays
<1>4. /\ contents' = [contents EXCEPT ![i].bit = 1 - @]
      /\ modifyingTx' = [modifyingTx EXCEPT ![i] = t]
      /\ block' = block /\ disk' = disk
  BY DEF set_modified
<1> HIDE DEF i
<1>5. \A j \in Buffs : /\ contents'[j].of = contents[j].of
                      /\ j # i => contents'[j] = contents[j] /\ modifyingTx'[j] = modifyingTx[j]
  BY <1>0, <1>3, <1>4 DEF PagesOK, AllData
<1>6. modifyingTx'[i] = t
  BY <1>0, <1>3, <1>4 DEF PagesOK
<1>7. ASSUME NEW j \in Buffs
      PROVE  /\ block'[j] # None => contents'[j].of = block'[j]
             /\ modifyingTx'[j] # None => block'[j] # None
             /\ block'[j] # None /\ modifyingTx'[j] = None => contents'[j] = disk'[block'[j]]
  BY <1>0, <1>3, <1>4, <1>5, <1>6 DEF DataInv, Coherent
<1> QED BY <1>4, <1>7 DEF DataInv, Coherent, DiskLabelled

(* flush_all writes each of its buffers over the block of that buffer.     *)
LEMMA FlushIsCoherent ==
  ASSUME IInv, DataInv, ~ReadsMayFail, NEW t \in Txs, flush_all(t)
  PROVE  DataInv'
<1> DEFINE mine == {i \in Buffs : modifyingTx[i] = t}
<1>0. PagesOK /\ None \notin Blocks /\ t # None
  BY BufferAssumption DEF IInv, TypeOK, PagesOK
<1>1. /\ disk' = [b \in Blocks |-> IF \E i \in mine : block[i] = b
                                 THEN contents[CHOOSE i \in mine : block[i] = b]
                                 ELSE disk[b]]
      /\ modifyingTx' = [i \in Buffs |-> IF i \in mine THEN None ELSE modifyingTx[i]]
      /\ block' = block /\ contents' = contents
  BY DEF flush_all
<1>2. \A i \in mine : i \in Buffs /\ block[i] # None /\ block[i] \in Blocks
  BY <1>0 DEF DataInv, Coherent, PagesOK
<1>3. mine \subseteq Buffs
  OBVIOUS
<1>4. \A j \in Buffs : j \notin mine /\ modifyingTx'[j] # None => modifyingTx[j] # None
  BY <1>1
<1>5. \A j \in Buffs : modifyingTx'[j] = IF j \in mine THEN None ELSE modifyingTx[j]
  BY <1>1
<1> HIDE DEF mine
<1>6. ASSUME NEW i \in mine PROVE disk'[block[i]] = contents[i]
  <2>1. block[i] \in Blocks /\ block[i] # None
    BY <1>2
  <2>2. (CHOOSE j \in mine : block[j] = block[i]) = i
    <3> DEFINE c == CHOOSE j \in mine : block[j] = block[i]
    <3>1. c \in mine /\ block[c] = block[i]
      OBVIOUS
    <3> HIDE DEF c
    <3>2. c = i
      BY <3>1, <2>1, <1>3 DEF IInv, OneBufferPerBlock
    <3> QED BY <3>2 DEF c
  <2> QED BY <1>1, <2>1, <2>2
<1>7. \A b \in Blocks : (\A i \in mine : block[i] # b) => disk'[b] = disk[b]
  BY <1>1
<1>8. ASSUME NEW b \in Blocks PROVE disk'[b].of = b
  <2>1. CASE \E i \in mine : block[i] = b
    BY <2>1, <1>2, <1>6 DEF DataInv, Coherent
  <2>2. CASE \A i \in mine : block[i] # b
    BY <2>2, <1>7 DEF DataInv, DiskLabelled
  <2> QED BY <2>1, <2>2
<1>9. ASSUME NEW j \in Buffs
      PROVE  /\ block'[j] # None => contents'[j].of = block'[j]
             /\ modifyingTx'[j] # None => block'[j] # None
             /\ block'[j] # None /\ modifyingTx'[j] = None => contents'[j] = disk'[block'[j]]
  <2>1. CASE j \in mine
    BY <2>1, <1>1, <1>2, <1>5, <1>6 DEF DataInv, Coherent
  <2>2. CASE j \notin mine
    <3>1. block[j] # None => block[j] \in Blocks
      BY <1>0 DEF PagesOK
    <3>2. block[j] # None => \A i \in mine : block[i] # block[j]
      BY <2>2, <1>2 DEF IInv, OneBufferPerBlock
    <3>3. block[j] # None => disk'[block[j]] = disk[block[j]]
      BY <3>1, <3>2, <1>7
    <3> QED BY <2>2, <3>3, <1>1, <1>5 DEF DataInv, Coherent
  <2> QED BY <2>1, <2>2
<1> QED BY <1>8, <1>9 DEF DataInv, Coherent, DiskLabelled

LEMMA DataStep == IInv /\ DataInv /\ [Next]_vars => DataInv'
<1> SUFFICES ASSUME IInv, DataInv, [Next]_vars PROVE DataInv'
  OBVIOUS
<1>1. CASE ReadsMayFail
  BY <1>1 DEF DataInv, Coherent, DiskLabelled
<1>2. CASE ~ReadsMayFail
  <2>1. CASE UNCHANGED <<block, contents, modifyingTx, disk>>
    BY <2>1 DEF DataInv, Coherent, DiskLabelled
  <2>2. ASSUME NEW t \in Txs, pin(t) PROVE DataInv'
    <3>1. CASE PinChosen(t)
      <4>1. want[t] \in Blocks
        BY <3>1 DEF PinChosen, Entering, IInv, TypeOK
      <4> QED BY <3>1, <4>1, <1>2, AssignIsCoherent DEF PinChosen
    <3>2. CASE PinExisting(t) \/ PinSleeps(t) \/ PinRechecks(t)
      BY <3>2, <2>1 DEF PinExisting, PinSleeps, PinRechecks, pool
    <3> QED BY <1>2, <2>2, <3>1, <3>2 DEF pin, PinReadFails
  <2>3. ASSUME NEW t \in Txs, NEW b \in Blocks, set_modified(t, b) PROVE DataInv'
    BY <2>3, <1>2, ModifyIsCoherent
  <2>4. ASSUME NEW t \in Txs, flush_all(t) PROVE DataInv'
    BY <2>4, <1>2, FlushIsCoherent
  <2> QED BY <2>1, <2>2, <2>3, <2>4
          DEF Next, vars, pool, CallPin, unpin, UnpinBuffer, StartUnpinAll, unpin_all,
              UnpinNext, EndUnpinAll, TimePasses, WaitTimesOut, SpuriousWakeup
<1> QED BY <1>1, <1>2

(* What a block shows when another buffer, or none, is assigned to it.     *)
LEMMA AssignShowsSame ==
  ASSUME IInv, DataInv, ~ReadsMayFail, NEW i \in Buffs, NEW c \in Blocks, ~Buffered(c),
         assign_to_block(i, c), NEW b \in Blocks
  PROVE  Shown(b)' = Shown(b)
<1>0. PagesOK /\ None \notin Blocks
  BY BufferAssumption DEF IInv, TypeOK, PagesOK
<1>1. \A d \in Blocks :
        disk'[d] = IF modifyingTx[i] # None /\ d = block[i] THEN contents[i] ELSE disk[d]
  BY <1>0 DEF assign_to_block, Flushed, PagesOK
<1>2. \A j \in Buffs :
        /\ block'[j] = IF j = i THEN c ELSE block[j]
        /\ contents'[j] = IF j = i THEN disk'[c] ELSE contents[j]
  BY <1>0 DEF assign_to_block, PagesOK
<1>3. \A j \in Buffs : block[j] # c
  BY DEF Buffered
<1>4. CASE b = c
  <2>1. Shown(b) = {disk[b]}
    BY <1>4 DEF Shown
  <2>2. {j \in Buffs : block'[j] = b} = {i}
    BY <1>2, <1>3, <1>4
  <2>3. disk'[b] = disk[b]
    BY <1>1, <1>3, <1>4
  <2>4. contents'[i] = disk[b]
    BY <1>2, <2>3, <1>4
  <2>5. \E j \in Buffs : block'[j] = b
    BY <2>2
  <2>6. Shown(b)' = {contents'[j] : j \in {j \in Buffs : block'[j] = b}}
    BY <2>5 DEF Shown, Buffered
  <2>7. Shown(b)' = {disk[b]}
    BY <2>2, <2>4, <2>6
  <2> QED BY <2>1, <2>7
<1>5. CASE b # c /\ block[i] = b
  <2>1. {j \in Buffs : block[j] = b} = {i}
    BY <1>0, <1>5 DEF IInv, OneBufferPerBlock
  <2>2. Shown(b) = {contents[i]}
    <3>1. Buffered(b)
      BY <1>5 DEF Buffered
    <3>2. Shown(b) = {contents[j] : j \in {j \in Buffs : block[j] = b}}
      BY <3>1 DEF Shown
    <3> QED BY <2>1, <3>2
  <2>3. ~\E j \in Buffs : block'[j] = b
    BY <1>2, <1>5, <2>1
  <2>4. Shown(b)' = {disk'[b]}
    BY <2>3 DEF Shown, Buffered
  <2>5. disk'[b] = contents[i]
    BY <1>0, <1>1, <1>5 DEF DataInv, Coherent
  <2> QED BY <2>2, <2>4, <2>5
<1>6. CASE b # c /\ block[i] # b
  <2>1. \A j \in Buffs : block'[j] = b <=> block[j] = b
    BY <1>2, <1>6
  <2>2. \A j \in Buffs : block[j] = b => contents'[j] = contents[j]
    BY <1>2, <1>6
  <2>3. disk'[b] = disk[b]
    BY <1>1, <1>6
  <2>4. (\E j \in Buffs : block'[j] = b) <=> (\E j \in Buffs : block[j] = b)
    BY <2>1
  <2>5. {contents'[j] : j \in {j \in Buffs : block'[j] = b}} =
          {contents[j] : j \in {j \in Buffs : block[j] = b}}
    BY <2>1, <2>2
  <2> QED BY <2>3, <2>4, <2>5 DEF Shown, Buffered
<1> QED BY <1>4, <1>5, <1>6

(* What a block shows when the buffers keep their blocks and those of this *)
(* block their contents.                                                   *)
LEMMA SameShows ==
  ASSUME NEW b \in Blocks, block' = block,
         \A j \in Buffs : block[j] = b => contents'[j] = contents[j],
         ~Buffered(b) => disk'[b] = disk[b]
  PROVE  Shown(b)' = Shown(b)
<1>1. {contents'[j] : j \in {j \in Buffs : block'[j] = b}} =
        {contents[j] : j \in {j \in Buffs : block[j] = b}}
  OBVIOUS
<1> QED BY <1>1 DEF Shown, Buffered

LEMMA ShownStep ==
  ASSUME IInv, DataInv, ~ReadsMayFail, [Next]_vars, NEW b \in Blocks
  PROVE  Shown(b)' = Shown(b) \/ \E t \in Txs : set_modified(t, b)
<1>1. ASSUME NEW t \in Txs, pin(t) PROVE Shown(b)' = Shown(b)
  <2>1. CASE PinChosen(t)
    <3>1. want[t] \in Blocks
      BY <2>1 DEF PinChosen, Entering, IInv, TypeOK
    <3> QED BY <2>1, <3>1, AssignShowsSame DEF PinChosen
  <2>2. CASE PinExisting(t) \/ PinSleeps(t) \/ PinRechecks(t)
    <3>1. UNCHANGED <<block, contents, disk>>
      BY <2>2 DEF PinExisting, PinSleeps, PinRechecks, pool
    <3> QED BY <3>1, SameShows
  <2> QED BY <1>1, <2>1, <2>2 DEF pin, PinReadFails
<1>2. ASSUME NEW t \in Txs, NEW c \in Blocks, set_modified(t, c), c # b
      PROVE  Shown(b)' = Shown(b)
  <2> DEFINE i == myBuffers[t][c]
  <2>1. i \in Buffs /\ block[i] = c
    <3>1. pc[t] = "idle" /\ i # 0
      BY <1>2 DEF set_modified
    <3>2. myPins[t][c] > 0
      BY <3>1 DEF IInv, ListsOK
    <3> QED BY <3>2, ListedIsPinned DEF IInv, PinnedBufferStays
  <2>2. contents' = [contents EXCEPT ![i].bit = 1 - @] /\ block' = block /\ disk' = disk
    BY <1>2 DEF set_modified
  <2>3. contents \in [Buffs -> AllData]
    BY DEF IInv, TypeOK
  <2> HIDE DEF i
  <2>4. \A j \in Buffs : block[j] = b => contents'[j] = contents[j]
    BY <1>2, <2>1, <2>2, <2>3
  <2> QED BY <2>2, <2>4, SameShows
<1>3. ASSUME NEW t \in Txs, flush_all(t) PROVE Shown(b)' = Shown(b)
  <2>1. block' = block /\ contents' = contents
    BY <1>3 DEF flush_all
  <2>2. ~Buffered(b) => disk'[b] = disk[b]
    BY <1>3 DEF flush_all, Buffered
  <2> QED BY <2>1, <2>2, SameShows
<1>4. ASSUME NEW t \in Txs, NEW c \in Blocks, CallPin(t, c) \/ unpin(t, c) \/ UnpinNext(t, c)
      PROVE  Shown(b)' = Shown(b)
  BY <1>4, SameShows DEF CallPin, unpin, UnpinNext, UnpinBuffer, pool
<1>5. ASSUME NEW t \in Txs, StartUnpinAll(t) \/ EndUnpinAll(t)
      PROVE  Shown(b)' = Shown(b)
  BY <1>5, SameShows DEF StartUnpinAll, EndUnpinAll, pool
<1>6. ASSUME NEW t \in Txs, TimePasses(t) \/ WaitTimesOut(t) \/ SpuriousWakeup(t)
      PROVE  Shown(b)' = Shown(b)
  BY <1>6, SameShows DEF TimePasses, WaitTimesOut, SpuriousWakeup, pool
<1>7. CASE UNCHANGED vars
  BY <1>7, SameShows DEF vars, pool
<1> QED BY <1>1, <1>2, <1>3, <1>4, <1>5, <1>6, <1>7 DEF Next, unpin_all

-----------------------------------------------------------------------------
(* The theorems                                                            *)

LEMMA InitIInv == Init => IInv
<1> SUFFICES ASSUME Init PROVE IInv
  OBVIOUS
<1>1. TypeOK
  BY BufferAssumption DEF Init, TypeOK, AllData
<1>2. ListsOK
  BY DEF Init, ListsOK
<1>3. OneBufferPerBlock /\ PinnedBufferStays
  BY DEF Init, OneBufferPerBlock, PinnedBufferStays
<1>4. AvailableCount
  <2>1. {i \in Buffs : ~is_pinned(i)} = 1 .. NumBuffs
    BY DEF Init, is_pinned, Buffs
  <2>2. Cardinality(1 .. NumBuffs) = NumBuffs
    BY FS_Interval, BufferAssumption
  <2> QED BY <2>1, <2>2 DEF Init, AvailableCount
<1>5. PinsAccounted
  <2>1. ASSUME NEW i \in Buffs PROVE Refs(i) = {}
    BY <2>1, BufferAssumption DEF Init, Refs
  <2> QED BY <2>1, FS_EmptySet DEF Init, PinsAccounted
<1> QED BY <1>1, <1>2, <1>3, <1>4, <1>5 DEF IInv

(* The inductive invariant holds in every reachable state.                 *)
THEOREM Invariance == Spec => []IInv
<1>1. IInv /\ [Next]_vars => IInv'
  BY TypeStep, ListsStep, CountStep, OneBufferStep, PinnedStaysStep DEF IInv, CountOK
<1> QED BY InitIInv, <1>1, PTL DEF Spec

(* Type correctness: no counter of pins ever goes below zero, and          *)
(* mNumAvailable stays between zero and the size of the pool.              *)
THEOREM TypeCorrect == Spec => []TypeOK
<1>1. IInv => TypeOK
  BY DEF IInv
<1> QED BY Invariance, <1>1, PTL

(* mNumAvailable is the number of unpinned buffers, after every pin, unpin *)
(* and failed pin.                                                         *)
THEOREM CountCorrect == Spec => []AvailableCount
<1>1. IInv => AvailableCount
  BY DEF IInv
<1> QED BY Invariance, <1>1, PTL

(* try_to_pin never brings a block into a second buffer.                   *)
THEOREM NoDuplicateBlock == Spec => []OneBufferPerBlock
<1>1. IInv => OneBufferPerBlock
  BY DEF IInv
<1> QED BY Invariance, <1>1, PTL

(* The pins counted in the pool are those the buffer_lists can give back.  *)
THEOREM NoPinLeaks == Spec => []PinsAccounted
<1>1. IInv => PinsAccounted
  BY DEF IInv
<1> QED BY Invariance, <1>1, PTL

(* choose_unpinned_buffer never takes a block away from a transaction that *)
(* has it pinned.                                                          *)
THEOREM PinnedIsSafe == Spec => []PinnedBufferStays
<1>1. IInv => PinnedBufferStays
  BY DEF IInv
<1> QED BY Invariance, <1>1, PTL

(* As long as reads do not throw, a buffer shows its own block's data, and *)
(* a clean one shows what the file holds.                                  *)
THEOREM DataCoherent == Spec => []Coherent
<1>1. Init => DataInv
  BY DEF Init, DataInv, Coherent, DiskLabelled
<1>2. DataInv => Coherent
  BY DEF DataInv
<1> QED BY <1>1, <1>2, InitIInv, Invariance, DataStep, PTL DEF Spec

(* Replacing buffers loses no modification and brings none back.           *)
THEOREM ModificationsSurvive == Spec => NoLostModification
<1>1. Init => DataInv
  BY DEF Init, DataInv, Coherent, DiskLabelled
<1>2. IInv /\ DataInv /\ [Next]_vars =>
        [~ReadsMayFail => \A b \in Blocks :
           Shown(b)' # Shown(b) => \E t \in Txs : set_modified(t, b)]_vars
  BY ShownStep
<1> QED BY <1>1, <1>2, InitIInv, Invariance, DataStep, PTL DEF Spec, NoLostModification

=============================================================================
