--------------------------- MODULE LockTableProofs ---------------------------
(***************************************************************************)
(* What holds of the lock table for any finite set of transactions and any *)
(* set of blocks.  The inductive invariant adds to the safety properties   *)
(* what a thread's position says of its own locks (CallOK): it is what     *)
(* makes the upgrade in lock_table::xlock find the caller's shared lock    *)
(* among those counted.                                                    *)
(***************************************************************************)
EXTENDS LockTable, FiniteSetTheorems, TLAPS

CallOK ==
  \A t \in Txs :
    /\ pc[t] = "slock" => held[t][req[t].blk] = "none" /\ req[t].mode \in {"S", "X"}
    /\ pc[t] = "xlock" => held[t][req[t].blk] = "S" /\ req[t].mode = "X"
    /\ pc[t] = "release" => \A b \in toUnlock[t] : held[t][b] # "none"
    /\ pc[t] # "release" => toUnlock[t] = {}

IInv == TypeOK /\ CallOK /\ Exclusion /\ TableMatchesHolders

-----------------------------------------------------------------------------
(* Type correctness: every step keeps every variable in its type.          *)
THEOREM TypeCorrect == Spec => []TypeOK
<1> USE LockAssumption DEF TypeOK, Modes
<1>1. Init => TypeOK
  BY DEF Init, NoReq, NoLocks
<1>2. TypeOK /\ [Next]_vars => TypeOK'
  <2> SUFFICES ASSUME TypeOK, [Next]_vars PROVE TypeOK'
    OBVIOUS
  <2> USE DEF NoReq, NoLocks
  <2>1. ASSUME NEW t \in Txs, NEW b \in Blocks, CallSLock(t, b) PROVE TypeOK'
    BY <2>1 DEF CallSLock
  <2>2. ASSUME NEW t \in Txs, NEW b \in Blocks, CallXLock(t, b) PROVE TypeOK'
    BY <2>2 DEF CallXLock
  <2>3. ASSUME NEW t \in Txs, slock(t) PROVE TypeOK'
    <3>1. req[t].blk \in Blocks
      BY <2>3 DEF slock, CanCheck
    <3>2. CASE Sleep(t)
      BY <2>3, <3>2 DEF slock, CanCheck, Sleep
    <3>3. CASE Throw(t)
      BY <2>3, <3>3 DEF slock, CanCheck, Throw
    <3>4. CASE Grant(t, lockVal[req[t].blk] + 1, "S",
                     IF req[t].mode = "X" THEN "xlock" ELSE "idle")
      <4>0. lockVal[req[t].blk] + 1 \in Int
        <5>1. \A b \in Blocks : lockVal[b] \in Int
          OBVIOUS
        <5>2. lockVal[req[t].blk] \in Int
          BY <3>1, <5>1
        <5> HIDE DEF TypeOK
        <5> QED BY <5>2
      <4>1. lockVal' \in [Blocks -> Int]
        BY <3>4, <4>0 DEF Grant
      <4>2. held' \in [Txs -> [Blocks -> {"none", "S", "X"}]]
        BY <3>1, <3>4 DEF Grant
      <4>3. req' \in [Txs -> [blk : Blocks \cup {-1}, mode : {"none", "S", "X"}]]
        BY <3>4 DEF Grant
      <4>4. pc' \in [Txs -> {"idle", "slock", "xlock", "release"}]
        BY <3>4 DEF Grant
      <4>5. \A u \in Txs : /\ pc'[u] \in {"slock", "xlock"} <=> req'[u].blk \in Blocks
                          /\ wait'[u] # "no" => pc'[u] \in {"slock", "xlock"}
        BY <2>3, <3>1, <3>4 DEF Grant, slock, CanCheck
      <4> QED BY <3>4, <4>1, <4>2, <4>3, <4>4, <4>5 DEF Grant
    <3> QED BY <2>3, <3>2, <3>3, <3>4 DEF slock
  <2>4. ASSUME NEW t \in Txs, xlock(t) PROVE TypeOK'
    <3>1. req[t].blk \in Blocks
      BY <2>4 DEF xlock, CanCheck
    <3>2. CASE Sleep(t)
      BY <2>4, <3>2 DEF xlock, CanCheck, Sleep
    <3>3. CASE Throw(t)
      BY <2>4, <3>3 DEF xlock, CanCheck, Throw
    <3>4. CASE Grant(t, -1, "X", "idle")
      BY <2>4, <3>1, <3>4 DEF xlock, CanCheck, Grant
    <3> QED BY <2>4, <3>2, <3>3, <3>4 DEF xlock
  <2>5. ASSUME NEW t \in Txs, StartRelease(t) PROVE TypeOK'
    BY <2>5 DEF StartRelease
  <2>6. ASSUME NEW t \in Txs, NEW b \in Blocks, unlock(t, b) PROVE TypeOK'
    BY <2>6 DEF unlock, notify_all
  <2>7. ASSUME NEW t \in Txs, EndRelease(t) PROVE TypeOK'
    BY <2>7 DEF EndRelease
  <2>8. ASSUME NEW t \in Txs, TimePasses(t) PROVE TypeOK'
    BY <2>8 DEF TimePasses
  <2>9. ASSUME NEW t \in Txs, WaitTimesOut(t) \/ SpuriousWakeup(t) PROVE TypeOK'
    BY <2>9 DEF WaitTimesOut, SpuriousWakeup
  <2>10. CASE UNCHANGED vars
    BY <2>10 DEF vars
  <2> QED
    BY <2>1, <2>2, <2>3, <2>4, <2>5, <2>6, <2>7, <2>8, <2>9, <2>10
       DEF Next, Step, Release
<1> QED BY <1>1, <1>2, PTL DEF Spec

-----------------------------------------------------------------------------
(* The counting argument, apart from the code: L is who holds what, V the  *)
(* numbers of the table.                                                   *)

LockMap == [Txs -> [Blocks -> Modes]]

Excl(L) == \A b \in Blocks, t, u \in Txs :
             t # u /\ L[t][b] = "X" => L[u][b] = "none"

HoldersIn(L, b) == {t \in Txs : L[t][b] # "none"}

Match(V, L) == \A b \in Blocks :
  V[b] = IF \E t \in Txs : L[t][b] = "X" THEN -1 ELSE Cardinality(HoldersIn(L, b))

(* The sets of holders are finite.                                         *)
LEMMA HoldersFinite ==
  ASSUME NEW L, NEW b
  PROVE  IsFiniteSet(HoldersIn(L, b)) /\ Cardinality(HoldersIn(L, b)) \in Nat
<1>1. HoldersIn(L, b) \subseteq Txs
  BY DEF HoldersIn
<1>2. IsFiniteSet(HoldersIn(L, b))
  BY <1>1, FS_Subset, LockAssumption
<1> QED BY <1>2, FS_CardinalityType

(* A shared lock counted on a block nobody has exclusively.                *)
LEMMA AddShared ==
  ASSUME NEW L \in LockMap, NEW V \in [Blocks -> Int], Excl(L), Match(V, L),
         NEW t \in Txs, NEW b \in Blocks, L[t][b] = "none", ~(V[b] < 0)
  PROVE  LET L2 == [L EXCEPT ![t][b] = "S"]
             V2 == [V EXCEPT ![b] = V[b] + 1]
         IN  Excl(L2) /\ Match(V2, L2)
<1> DEFINE L2 == [L EXCEPT ![t][b] = "S"]
<1> DEFINE V2 == [V EXCEPT ![b] = V[b] + 1]
<1>1. \A u \in Txs, c \in Blocks :
        L2[u][c] = IF u = t /\ c = b THEN "S" ELSE L[u][c]
  BY DEF LockMap
<1>2. \A c \in Blocks : V2[c] = IF c = b THEN V[b] + 1 ELSE V[c]
  OBVIOUS
<1> HIDE DEF L2, V2
<1>3. ~\E u \in Txs : L[u][b] = "X"
  BY DEF Match
<1>4. V[b] = Cardinality(HoldersIn(L, b))
  BY <1>3 DEF Match
<1>5. HoldersIn(L2, b) = HoldersIn(L, b) \cup {t}
  BY <1>1 DEF HoldersIn
<1>6. t \notin HoldersIn(L, b)
  BY DEF HoldersIn
<1>7. Cardinality(HoldersIn(L2, b)) = V[b] + 1
  BY <1>4, <1>5, <1>6, HoldersFinite, FS_AddElement
<1>8. ~\E u \in Txs : L2[u][b] = "X"
  BY <1>1, <1>3
<1>9. ASSUME NEW c \in Blocks, c # b
      PROVE  /\ HoldersIn(L2, c) = HoldersIn(L, c)
             /\ V2[c] = V[c]
             /\ (\E u \in Txs : L2[u][c] = "X") <=> (\E u \in Txs : L[u][c] = "X")
  BY <1>1, <1>2, <1>9 DEF HoldersIn
<1>10. Match(V2, L2)
  <2> SUFFICES ASSUME NEW c \in Blocks
               PROVE  V2[c] = IF \E u \in Txs : L2[u][c] = "X" THEN -1
                              ELSE Cardinality(HoldersIn(L2, c))
    BY DEF Match
  <2>1. CASE c = b
    BY <2>1, <1>2, <1>7, <1>8
  <2>2. CASE c # b
    BY <2>2, <1>9 DEF Match
  <2> QED BY <2>1, <2>2
<1>11. Excl(L2)
  BY <1>1, <1>3 DEF Excl
<1> QED BY <1>10, <1>11 DEF L2, V2

(* An upgrade made when the table counts at most one holder: that holder   *)
(* is the transaction that upgrades.                                       *)
LEMMA AddExclusive ==
  ASSUME NEW L \in LockMap, NEW V \in [Blocks -> Int], Excl(L), Match(V, L),
         NEW t \in Txs, NEW b \in Blocks, L[t][b] = "S", ~(V[b] > 1)
  PROVE  LET L2 == [L EXCEPT ![t][b] = "X"]
             V2 == [V EXCEPT ![b] = -1]
         IN  /\ \A u \in Txs \ {t} : L[u][b] = "none"
             /\ Excl(L2) /\ Match(V2, L2)
<1> DEFINE L2 == [L EXCEPT ![t][b] = "X"]
<1> DEFINE V2 == [V EXCEPT ![b] = -1]
<1>1. \A u \in Txs, c \in Blocks :
        L2[u][c] = IF u = t /\ c = b THEN "X" ELSE L[u][c]
  BY DEF LockMap
<1>2. \A c \in Blocks : V2[c] = IF c = b THEN -1 ELSE V[c]
  OBVIOUS
<1> HIDE DEF L2, V2
<1>3. ~\E u \in Txs : L[u][b] = "X"
  BY DEF Excl
<1>4. Cardinality(HoldersIn(L, b)) <= 1
  BY <1>3, HoldersFinite DEF Match
<1>5. t \in HoldersIn(L, b)
  BY DEF HoldersIn
<1>6. HoldersIn(L, b) = {t}
  <2>1. Cardinality(HoldersIn(L, b)) # 0
    BY <1>5, HoldersFinite, FS_EmptySet
  <2>2. Cardinality(HoldersIn(L, b)) = 1
    BY <2>1, <1>4, HoldersFinite
  <2> QED BY <2>2, <1>5, HoldersFinite, FS_Singleton
<1>7. \A u \in Txs \ {t} : L[u][b] = "none"
  BY <1>6 DEF HoldersIn
<1>8. ASSUME NEW c \in Blocks, c # b
      PROVE  /\ HoldersIn(L2, c) = HoldersIn(L, c)
             /\ V2[c] = V[c]
             /\ (\E u \in Txs : L2[u][c] = "X") <=> (\E u \in Txs : L[u][c] = "X")
  BY <1>1, <1>2, <1>8 DEF HoldersIn
<1>9. Match(V2, L2)
  <2> SUFFICES ASSUME NEW c \in Blocks
               PROVE  V2[c] = IF \E u \in Txs : L2[u][c] = "X" THEN -1
                              ELSE Cardinality(HoldersIn(L2, c))
    BY DEF Match
  <2>1. CASE c = b
    BY <2>1, <1>1, <1>2
  <2>2. CASE c # b
    BY <2>2, <1>8 DEF Match
  <2> QED BY <2>1, <2>2
<1>10. Excl(L2)
  BY <1>1, <1>7 DEF Excl
<1> QED BY <1>7, <1>9, <1>10 DEF L2, V2

(* A lock given back: one less, or the entry erased.                       *)
LEMMA RemoveLock ==
  ASSUME NEW L \in LockMap, NEW V \in [Blocks -> Int], Excl(L), Match(V, L),
         NEW t \in Txs, NEW b \in Blocks, L[t][b] # "none"
  PROVE  LET L2 == [L EXCEPT ![t][b] = "none"]
             V2 == [V EXCEPT ![b] = IF V[b] > 1 THEN V[b] - 1 ELSE 0]
         IN  Excl(L2) /\ Match(V2, L2)
<1> DEFINE L2 == [L EXCEPT ![t][b] = "none"]
<1> DEFINE V2 == [V EXCEPT ![b] = IF V[b] > 1 THEN V[b] - 1 ELSE 0]
<1>1. \A u \in Txs, c \in Blocks :
        L2[u][c] = IF u = t /\ c = b THEN "none" ELSE L[u][c]
  BY DEF LockMap
<1>2. \A c \in Blocks : V2[c] = IF c = b THEN IF V[b] > 1 THEN V[b] - 1 ELSE 0 ELSE V[c]
  OBVIOUS
<1> HIDE DEF L2, V2
<1>3. t \in HoldersIn(L, b)
  BY DEF HoldersIn
<1>4. HoldersIn(L2, b) = HoldersIn(L, b) \ {t}
  BY <1>1 DEF HoldersIn
<1>5. Cardinality(HoldersIn(L2, b)) = Cardinality(HoldersIn(L, b)) - 1
  <2>1. IsFiniteSet(HoldersIn(L, b))
    BY HoldersFinite
  <2> QED BY <2>1, <1>3, <1>4, FS_RemoveElement
<1>6. V2[b] = Cardinality(HoldersIn(L2, b)) /\ ~\E u \in Txs : L2[u][b] = "X"
  <2>1. CASE \E u \in Txs : L[u][b] = "X"
    <3>1. \A u \in Txs \ {t} : L[u][b] = "none"
      BY <2>1 DEF Excl
    <3>2. HoldersIn(L2, b) = {}
      BY <3>1, <1>1 DEF HoldersIn
    <3>3. V[b] = -1
      BY <2>1 DEF Match
    <3> QED BY <1>1, <1>2, <3>1, <3>2, <3>3, FS_EmptySet
  <2>2. CASE ~\E u \in Txs : L[u][b] = "X"
    <3>1. V[b] = Cardinality(HoldersIn(L, b))
      BY <2>2 DEF Match
    <3>2. Cardinality(HoldersIn(L, b)) \in Nat /\ Cardinality(HoldersIn(L2, b)) \in Nat
      BY HoldersFinite
    <3> QED BY <2>2, <1>1, <1>2, <1>5, <3>1, <3>2
  <2> QED BY <2>1, <2>2
<1>7. ASSUME NEW c \in Blocks, c # b
      PROVE  /\ HoldersIn(L2, c) = HoldersIn(L, c)
             /\ V2[c] = V[c]
             /\ (\E u \in Txs : L2[u][c] = "X") <=> (\E u \in Txs : L[u][c] = "X")
  BY <1>1, <1>2, <1>7 DEF HoldersIn
<1>8. Match(V2, L2)
  <2> SUFFICES ASSUME NEW c \in Blocks
               PROVE  V2[c] = IF \E u \in Txs : L2[u][c] = "X" THEN -1
                              ELSE Cardinality(HoldersIn(L2, c))
    BY DEF Match
  <2>1. CASE c = b
    BY <2>1, <1>6
  <2>2. CASE c # b
    BY <2>2, <1>7 DEF Match
  <2> QED BY <2>1, <2>2
<1>9. Excl(L2)
  BY <1>1 DEF Excl
<1> QED BY <1>8, <1>9 DEF L2, V2

-----------------------------------------------------------------------------
(* What each action does to who holds what.                                *)

(* The counting argument's predicates are the properties of LockTable.     *)
LEMMA PropertiesAreCounting ==
  /\ Exclusion <=> Excl(Locks)
  /\ TableMatchesHolders <=> Match(lockVal, Locks)
<1>1. \A t \in Txs, b \in Blocks : Locks[t][b] = Lock(t, b)
  BY DEF Locks
<1>2. \A b \in Blocks : HoldersIn(Locks, b) = Holders(b)
  BY <1>1 DEF HoldersIn, Holders
<1> QED BY <1>1, <1>2 DEF Exclusion, Excl, TableMatchesHolders, Match

LEMMA LocksType == TypeOK => Locks \in LockMap
<1> SUFFICES ASSUME TypeOK, NEW t \in Txs, NEW b \in Blocks
             PROVE  Lock(t, b) \in Modes
  BY DEF Locks, LockMap
<1>1. held[t][b] \in Modes
  BY DEF TypeOK
<1> QED BY <1>1 DEF Lock, Modes

(* A grant gives the lock asked for and touches no other lock.             *)
LEMMA GrantLocks ==
  ASSUME TypeOK, CallOK, NEW t \in Txs, pc[t] \in {"slock", "xlock"},
         NEW val, NEW m, NEW next \in {"idle", "xlock"}, Grant(t, val, m, next)
  PROVE  /\ Locks' = [Locks EXCEPT ![t][req[t].blk] = m]
         /\ Phases' = Phases
         /\ req[t].blk \in Blocks
         /\ Locks[t][req[t].blk] = held[t][req[t].blk]
<1> DEFINE b == req[t].blk
<1>1. b \in Blocks
  BY DEF TypeOK
<1>2. \A u \in Txs, c \in Blocks :
        held'[u][c] = IF u = t /\ c = b THEN m ELSE held[u][c]
  BY <1>1 DEF TypeOK, Grant
<1>3. \A u \in Txs : (pc'[u] = "release") <=> (pc[u] = "release")
  BY DEF TypeOK, Grant
<1>4. toUnlock' = toUnlock
  BY DEF Grant
<1> HIDE DEF b
<1>5. \A u \in Txs, c \in Blocks :
        Lock(u, c)' = IF u = t /\ c = b THEN m ELSE Lock(u, c)
  BY <1>2, <1>3, <1>4 DEF Lock
<1>6. Locks' = [Locks EXCEPT ![t][b] = m]
  BY <1>1, <1>5 DEF Locks
<1>7. Phases' = Phases
  BY <1>3 DEF Phases
<1> QED BY <1>1, <1>6, <1>7 DEF Locks, Lock, b

(* Asking, waiting, failing and starting or ending a release change no     *)
(* lock.                                                                   *)
LEMMA OtherLocks ==
  ASSUME TypeOK, CallOK, NEW t \in Txs,
         \/ \E b \in Blocks : CallSLock(t, b) \/ CallXLock(t, b)
         \/ pc[t] \in {"slock", "xlock"} /\ (Sleep(t) \/ Throw(t))
         \/ StartRelease(t)
         \/ EndRelease(t)
         \/ TimePasses(t) \/ WaitTimesOut(t) \/ SpuriousWakeup(t)
  PROVE  Locks' = Locks /\ lockVal' = lockVal
<1>1. SUFFICES \A u \in Txs, c \in Blocks : Lock(u, c)' = Lock(u, c)
  BY DEF Locks, CallSLock, CallXLock, Sleep, Throw, StartRelease, EndRelease,
         TimePasses, WaitTimesOut, SpuriousWakeup
<1>2. CASE \E b \in Blocks : CallSLock(t, b) \/ CallXLock(t, b)
  BY <1>2 DEF CallSLock, CallXLock, Lock, TypeOK
<1>3. CASE pc[t] \in {"slock", "xlock"} /\ (Sleep(t) \/ Throw(t))
  BY <1>3 DEF Sleep, Throw, Lock, TypeOK
<1>4. CASE StartRelease(t)
  <2> SUFFICES ASSUME NEW u \in Txs, NEW c \in Blocks PROVE Lock(u, c)' = Lock(u, c)
    OBVIOUS
  <2>1. CASE u = t
    BY <1>4, <2>1 DEF StartRelease, Lock, TypeOK
  <2>2. CASE u # t
    BY <1>4, <2>2 DEF StartRelease, Lock, TypeOK
  <2> QED BY <2>1, <2>2
<1>5. CASE EndRelease(t)
  <2> SUFFICES ASSUME NEW u \in Txs, NEW c \in Blocks PROVE Lock(u, c)' = Lock(u, c)
    OBVIOUS
  <2>1. CASE u = t
    BY <1>5, <2>1 DEF EndRelease, Lock, TypeOK, NoLocks
  <2>2. CASE u # t
    BY <1>5, <2>2 DEF EndRelease, Lock, TypeOK
  <2> QED BY <2>1, <2>2
<1>6. CASE TimePasses(t) \/ WaitTimesOut(t) \/ SpuriousWakeup(t)
  BY <1>6 DEF TimePasses, WaitTimesOut, SpuriousWakeup, Lock
<1> QED BY <1>2, <1>3, <1>4, <1>5, <1>6

(* unlock takes one lock away and counts it off.                           *)
LEMMA UnlockLocks ==
  ASSUME TypeOK, CallOK, NEW t \in Txs, NEW b \in Blocks, unlock(t, b)
  PROVE  /\ Locks[t][b] # "none"
         /\ Locks' = [Locks EXCEPT ![t][b] = "none"]
         /\ lockVal' = [lockVal EXCEPT ![b] = IF lockVal[b] > 1 THEN lockVal[b] - 1 ELSE 0]
         /\ Phases' = Phases /\ Phases[t] = "shrinking"
<1>1. pc[t] = "release" /\ b \in toUnlock[t] /\ held[t][b] # "none"
  BY DEF unlock, CallOK
<1>2. held' = held /\ pc' = pc
  BY DEF unlock
<1>3. \A u \in Txs : toUnlock'[u] = IF u = t THEN toUnlock[t] \ {b} ELSE toUnlock[u]
  BY DEF unlock, TypeOK
<1>4. \A u \in Txs, c \in Blocks :
        Lock(u, c)' = IF u = t /\ c = b THEN "none" ELSE Lock(u, c)
  BY <1>1, <1>2, <1>3 DEF Lock
<1>5. Locks' = [Locks EXCEPT ![t][b] = "none"]
  BY <1>4 DEF Locks
<1>6. lockVal' = [lockVal EXCEPT ![b] = IF lockVal[b] > 1 THEN lockVal[b] - 1 ELSE 0]
  <2>1. lockVal[b] \in Int
    BY DEF TypeOK
  <2>2. CASE lockVal[b] > 1
    <3>1. lockVal' = [lockVal EXCEPT ![b] = lockVal[b] - 1]
      BY <2>1, <2>2 DEF unlock
    <3> QED BY <2>2, <3>1
  <2>3. CASE ~(lockVal[b] > 1)
    <3>1. lockVal' = [lockVal EXCEPT ![b] = 0]
      BY <2>1, <2>3 DEF unlock
    <3> QED BY <2>3, <3>1
  <2> QED BY <2>1, <2>2, <2>3
<1> QED BY <1>1, <1>2, <1>5, <1>6 DEF Locks, Lock, Phases

-----------------------------------------------------------------------------
(* A thread's position says which of its own locks it has.                 *)
LEMMA CallOKStep == TypeOK /\ CallOK /\ [Next]_vars => CallOK'
<1> SUFFICES ASSUME TypeOK, CallOK, [Next]_vars PROVE CallOK'
  OBVIOUS
<1>1. ASSUME NEW t \in Txs, NEW b \in Blocks, CallSLock(t, b) PROVE CallOK'
  BY <1>1 DEF CallSLock, CallOK, TypeOK
<1>2. ASSUME NEW t \in Txs, NEW b \in Blocks, CallXLock(t, b) PROVE CallOK'
  <2>1. held[t][b] \in {"none", "S"}
    BY <1>2 DEF CallXLock, TypeOK, Modes
  <2> QED BY <1>2, <2>1 DEF CallXLock, CallOK, TypeOK
<1>3. ASSUME NEW t \in Txs, Sleep(t) \/ Throw(t), pc[t] \in {"slock", "xlock"}
      PROVE CallOK'
  BY <1>3 DEF Sleep, Throw, CallOK, TypeOK
<1>4. ASSUME NEW t \in Txs, NEW val, NEW m, NEW next, Grant(t, val, m, next),
             pc[t] \in {"slock", "xlock"},
             \/ next = "idle"
             \/ next = "xlock" /\ m = "S" /\ req[t].mode = "X"
      PROVE CallOK'
  <2>1. req[t].blk \in Blocks
    BY <1>4 DEF TypeOK
  <2>2. \A u \in Txs \ {t} : held'[u] = held[u] /\ pc'[u] = pc[u] /\ req'[u] = req[u]
    BY <1>4 DEF Grant, TypeOK
  <2>3. toUnlock' = toUnlock /\ pc'[t] = next
    BY <1>4 DEF Grant, TypeOK
  <2>4. next = "xlock" => req'[t] = req[t] /\ held'[t][req[t].blk] = "S"
    BY <1>4, <2>1 DEF Grant, TypeOK
  <2> QED BY <1>4, <2>2, <2>3, <2>4 DEF CallOK
<1>5. ASSUME NEW t \in Txs, StartRelease(t) PROVE CallOK'
  BY <1>5 DEF StartRelease, CallOK, TypeOK
<1>6. ASSUME NEW t \in Txs, NEW b \in Blocks, unlock(t, b) PROVE CallOK'
  BY <1>6 DEF unlock, CallOK, TypeOK
<1>7. ASSUME NEW t \in Txs, EndRelease(t) PROVE CallOK'
  BY <1>7 DEF EndRelease, CallOK, TypeOK
<1>8. ASSUME NEW t \in Txs, TimePasses(t) \/ WaitTimesOut(t) \/ SpuriousWakeup(t)
      PROVE CallOK'
  BY <1>8 DEF TimePasses, WaitTimesOut, SpuriousWakeup, CallOK
<1>9. CASE UNCHANGED vars
  BY <1>9 DEF vars, CallOK
<1>10. ASSUME NEW t \in Txs, slock(t) PROVE CallOK'
  <2>1. CASE req[t].mode = "X"
    BY <1>3, <1>4, <1>10, <2>1 DEF slock, CanCheck
  <2>2. CASE req[t].mode # "X"
    BY <1>3, <1>4, <1>10, <2>2 DEF slock, CanCheck
  <2> QED BY <2>1, <2>2
<1>11. ASSUME NEW t \in Txs, xlock(t) PROVE CallOK'
  BY <1>3, <1>4, <1>11 DEF xlock, CanCheck
<1> QED
  BY <1>1, <1>2, <1>5, <1>6, <1>7, <1>8, <1>9, <1>10, <1>11 DEF Next, Step, Release

-----------------------------------------------------------------------------
(* One step of the code is one step of the abstract lock, or none; the     *)
(* counting properties go along.                                           *)
LEMMA LockStep ==
  ASSUME TypeOK, CallOK, Exclusion, TableMatchesHolders, [Next]_vars
  PROVE  /\ Exclusion' /\ TableMatchesHolders'
         /\ [Abstract!Next]_(Abstract!vars)
<1> DEFINE Same == Locks' = Locks /\ lockVal' = lockVal
<1> DEFINE Abs == [Abstract!Next]_(Abstract!vars)
<1> DEFINE Good == Excl(Locks') /\ Match(lockVal', Locks') /\ Abs
<1>1. SUFFICES Good
  <2>1. Exclusion' <=> Excl(Locks')
    BY DEF Exclusion, Excl, Locks
  <2>2. TableMatchesHolders' <=> Match(lockVal', Locks')
    BY DEF TableMatchesHolders, Match, Locks, Holders, HoldersIn
  <2> QED BY <2>1, <2>2
<1>2. /\ Locks \in LockMap /\ lockVal \in [Blocks -> Int]
      /\ Excl(Locks) /\ Match(lockVal, Locks)
  BY LocksType, PropertiesAreCounting DEF TypeOK
<1>3. ASSUME Same, UNCHANGED Phases PROVE Good
  BY <1>2, <1>3 DEF Abstract!vars
<1>4. ASSUME NEW t \in Txs, NEW b \in Blocks, CallSLock(t, b) \/ CallXLock(t, b) PROVE Good
  <2>1. Same
    BY <1>4, OtherLocks
  <2>2. UNCHANGED Phases
    BY <1>4 DEF Phases, CallSLock, CallXLock, TypeOK
  <2> QED BY <1>3, <2>1, <2>2
<1>5. ASSUME NEW t \in Txs, pc[t] \in {"slock", "xlock"}, Sleep(t) \/ Throw(t) PROVE Good
  <2>1. Same
    BY <1>5, OtherLocks
  <2>2. UNCHANGED Phases
    BY <1>5 DEF Phases, Sleep, Throw, TypeOK
  <2> QED BY <1>3, <2>1, <2>2
<1>6. ASSUME NEW t \in Txs, slock(t) PROVE Good
  <2> DEFINE b == req[t].blk
  <2>1. CASE Sleep(t) \/ Throw(t)
    BY <1>5, <1>6, <2>1 DEF slock, CanCheck
  <2>2. CASE ~(Sleep(t) \/ Throw(t))
    <3>1. PICK next \in {"idle", "xlock"} : Grant(t, lockVal[b] + 1, "S", next)
      BY <1>6, <2>2 DEF slock
    <3>2. pc[t] = "slock" /\ ~(lockVal[b] < 0)
      BY <1>6, <2>2 DEF slock, CanCheck, has_xlock
    <3>3. /\ Locks' = [Locks EXCEPT ![t][b] = "S"]
          /\ Phases' = Phases /\ b \in Blocks /\ Locks[t][b] = "none"
      BY <3>1, <3>2, GrantLocks DEF CallOK
    <3>4. lockVal' = [lockVal EXCEPT ![b] = lockVal[b] + 1]
      BY <3>1 DEF Grant
    <3> HIDE DEF b
    <3>5. Excl(Locks') /\ Match(lockVal', Locks')
      BY <1>2, <3>2, <3>3, <3>4, AddShared
    <3>6. \A u \in Txs : Locks[u][b] # "X"
      BY <1>2, <3>2, <3>3 DEF Match
    <3>7. Phases[t] = "growing"
      BY <3>2 DEF Phases
    <3>8. Abstract!AcquireS(t, b)
      BY <3>3, <3>6, <3>7 DEF Abstract!AcquireS
    <3> QED BY <3>3, <3>5, <3>8 DEF Abstract!Next
  <2> QED BY <2>1, <2>2
<1>7. ASSUME NEW t \in Txs, xlock(t) PROVE Good
  <2> DEFINE b == req[t].blk
  <2>1. CASE Sleep(t) \/ Throw(t)
    BY <1>5, <1>7, <2>1 DEF xlock, CanCheck
  <2>2. CASE ~(Sleep(t) \/ Throw(t))
    <3>1. Grant(t, -1, "X", "idle")
      BY <1>7, <2>2 DEF xlock
    <3>2. pc[t] = "xlock" /\ ~(lockVal[b] > 1)
      BY <1>7, <2>2 DEF xlock, CanCheck, has_other_slocks
    <3>3. /\ Locks' = [Locks EXCEPT ![t][b] = "X"]
          /\ Phases' = Phases /\ b \in Blocks /\ Locks[t][b] = "S"
      BY <3>1, <3>2, GrantLocks DEF CallOK
    <3>4. lockVal' = [lockVal EXCEPT ![b] = -1]
      BY <3>1 DEF Grant
    <3> HIDE DEF b
    <3>5. /\ Excl(Locks') /\ Match(lockVal', Locks')
          /\ \A u \in Txs \ {t} : Locks[u][b] = "none"
      BY <1>2, <3>2, <3>3, <3>4, AddExclusive
    <3>6. Phases[t] = "growing"
      BY <3>2 DEF Phases
    <3>7. Abstract!UpgradeX(t, b)
      BY <3>3, <3>5, <3>6 DEF Abstract!UpgradeX
    <3> QED BY <3>3, <3>5, <3>7 DEF Abstract!Next
  <2> QED BY <2>1, <2>2
<1>8. ASSUME NEW t \in Txs, StartRelease(t) PROVE Good
  <2>1. Same
    BY <1>8, OtherLocks
  <2>2. Phases[t] = "growing" /\ Phases' = [Phases EXCEPT ![t] = "shrinking"]
    BY <1>8 DEF Phases, StartRelease, TypeOK
  <2>3. Abstract!StartRelease(t)
    BY <2>1, <2>2 DEF Abstract!StartRelease
  <2> QED BY <1>2, <2>1, <2>3 DEF Abstract!Next
<1>9. ASSUME NEW t \in Txs, NEW b \in Blocks, unlock(t, b) PROVE Good
  <2>1. Excl(Locks') /\ Match(lockVal', Locks')
    BY <1>2, <1>9, UnlockLocks, RemoveLock
  <2>2. Abstract!Release(t, b)
    BY <1>9, UnlockLocks DEF Abstract!Release
  <2> QED BY <2>1, <2>2 DEF Abstract!Next
<1>10. ASSUME NEW t \in Txs, EndRelease(t) PROVE Good
  <2>1. Same
    BY <1>10, OtherLocks
  <2>2. Phases[t] = "shrinking" /\ Phases' = [Phases EXCEPT ![t] = "growing"]
    BY <1>10 DEF Phases, EndRelease, TypeOK
  <2>3. \A b \in Blocks : Locks[t][b] = "none"
    BY <1>10 DEF Locks, Lock, EndRelease
  <2>4. Abstract!EndRelease(t)
    BY <2>1, <2>2, <2>3 DEF Abstract!EndRelease
  <2> QED BY <1>2, <2>1, <2>4 DEF Abstract!Next
<1>11. ASSUME NEW t \in Txs, TimePasses(t) \/ WaitTimesOut(t) \/ SpuriousWakeup(t)
       PROVE Good
  <2>1. Same
    BY <1>11, OtherLocks
  <2>2. UNCHANGED Phases
    BY <1>11 DEF Phases, TimePasses, WaitTimesOut, SpuriousWakeup
  <2> QED BY <1>3, <2>1, <2>2
<1>12. CASE UNCHANGED vars
  <2>1. Same /\ UNCHANGED Phases
    BY <1>12 DEF vars, Locks, Lock, Phases
  <2> QED BY <1>3, <2>1
<1> HIDE DEF Good
<1> QED
  BY <1>4, <1>6, <1>7, <1>8, <1>9, <1>10, <1>11, <1>12 DEF Next, Step, Release

(* At the start nobody holds anything.                                     *)
LEMMA InitLocks == Init => CallOK /\ Exclusion /\ TableMatchesHolders /\ Abstract!Init
<1> SUFFICES ASSUME Init PROVE CallOK /\ Exclusion /\ TableMatchesHolders /\ Abstract!Init
  OBVIOUS
<1>1. \A t \in Txs, b \in Blocks : Lock(t, b) = "none"
  BY DEF Init, Lock, NoLocks
<1>2. \A b \in Blocks : Holders(b) = {}
  BY <1>1 DEF Holders
<1>3. TableMatchesHolders
  BY <1>1, <1>2, FS_EmptySet DEF TableMatchesHolders, Init
<1>4. Abstract!Init
  BY <1>1 DEF Abstract!Init, Locks, Phases, Init
<1> QED BY <1>1, <1>3, <1>4 DEF CallOK, Exclusion, Init

(* The inductive invariant.                                                *)
THEOREM Invariance == Spec => []IInv
<1>1. Init => CallOK /\ Exclusion /\ TableMatchesHolders
  BY InitLocks
<1>2. TypeOK /\ CallOK /\ Exclusion /\ TableMatchesHolders /\ [Next]_vars
        => CallOK' /\ Exclusion' /\ TableMatchesHolders'
  BY CallOKStep, LockStep
<1> QED BY <1>1, <1>2, TypeCorrect, PTL DEF Spec, IInv

(* A block locked exclusively is locked by nobody else.                    *)
THEOREM MutualExclusion == Spec => []Exclusion
BY Invariance, PTL DEF IInv

(* The number the table keeps is what the transactions hold.               *)
THEOREM TableCorrect == Spec => []TableMatchesHolders
BY Invariance, PTL DEF IInv

(* The lock table and the concurrency managers implement strict two-phase  *)
(* locking.                                                                *)
THEOREM ImplementsTwoPhaseLocking == Spec => StrictTwoPhase
<1>1. Init => Abstract!Init
  BY InitLocks
<1>2. IInv /\ [Next]_vars => [Abstract!Next]_(Abstract!vars)
  BY LockStep DEF IInv
<1> QED BY <1>1, <1>2, Invariance, PTL DEF Spec, StrictTwoPhase, Abstract!Spec

(* unlock never loses the wake-up of a shared request.                     *)
THEOREM SharedWaitersBlocked == Spec => []SharedWaiterBlocked
<1>1. Init => SharedWaiterBlocked
  BY DEF Init, SharedWaiterBlocked
<1>2. TypeOK /\ SharedWaiterBlocked /\ [Next]_vars => SharedWaiterBlocked'
  <2> SUFFICES ASSUME TypeOK, SharedWaiterBlocked, [Next]_vars,
                      NEW u \in Txs, pc'[u] = "slock", wait'[u] = "asleep"
               PROVE  lockVal'[req'[u].blk] < 0
    BY DEF SharedWaiterBlocked, has_xlock
  <2> USE DEF SharedWaiterBlocked, has_xlock
  <2>1. ASSUME NEW t \in Txs, NEW b \in Blocks, CallSLock(t, b) \/ CallXLock(t, b)
        PROVE  lockVal'[req'[u].blk] < 0
    BY <2>1 DEF CallSLock, CallXLock, TypeOK
  <2>2. ASSUME NEW t \in Txs, Sleep(t), pc[t] = "slock" => has_xlock(req[t].blk)
        PROVE  lockVal'[req'[u].blk] < 0
    BY <2>2 DEF Sleep, TypeOK
  <2>3. ASSUME NEW t \in Txs, Throw(t) PROVE lockVal'[req'[u].blk] < 0
    BY <2>3 DEF Throw, TypeOK
  <2>4. ASSUME NEW t \in Txs, NEW val, NEW m, NEW next, Grant(t, val, m, next),
               val < 0 \/ ~has_xlock(req[t].blk), pc[t] \in {"slock", "xlock"}
        PROVE  lockVal'[req'[u].blk] < 0
    <3>1. u # t
      BY <2>4 DEF Grant, TypeOK
    <3>2. pc[u] = "slock" /\ wait[u] = "asleep" /\ req'[u] = req[u]
      BY <2>4, <3>1 DEF Grant, TypeOK
    <3>3. lockVal[req[u].blk] < 0 /\ req[u].blk \in Blocks
      BY <3>2 DEF TypeOK
    <3>4. CASE req[u].blk = req[t].blk
      BY <2>4, <3>2, <3>3, <3>4 DEF Grant, TypeOK
    <3>5. CASE req[u].blk # req[t].blk
      BY <2>4, <3>2, <3>3, <3>5 DEF Grant, TypeOK
    <3> QED BY <3>4, <3>5
  <2>5. ASSUME NEW t \in Txs, StartRelease(t) \/ EndRelease(t)
        PROVE  lockVal'[req'[u].blk] < 0
    BY <2>5 DEF StartRelease, EndRelease, TypeOK
  <2>6. ASSUME NEW t \in Txs, NEW b \in Blocks, unlock(t, b)
        PROVE  lockVal'[req'[u].blk] < 0
    <3>0. pc' = pc /\ req' = req /\ lockVal \in [Blocks -> Int] /\ lockVal[b] \in Int
      BY <2>6 DEF unlock, TypeOK
    <3>1. CASE lockVal[b] > 1
      <4>1. wait' = wait /\ \A c \in Blocks \ {b} : lockVal'[c] = lockVal[c]
        BY <2>6, <3>0, <3>1 DEF unlock
      <4>2. req[u].blk \in Blocks /\ lockVal[req[u].blk] < 0
        BY <3>0, <4>1 DEF TypeOK
      <4>3. req[u].blk # b
        BY <3>0, <3>1, <4>2
      <4> QED BY <3>0, <4>1, <4>2, <4>3
    <3>2. CASE ~(lockVal[b] > 1)
      BY <2>6, <3>2 DEF unlock, notify_all, TypeOK
    <3> QED BY <3>1, <3>2
  <2>7. ASSUME NEW t \in Txs, TimePasses(t) \/ WaitTimesOut(t) \/ SpuriousWakeup(t)
        PROVE  lockVal'[req'[u].blk] < 0
    BY <2>7 DEF TimePasses, WaitTimesOut, SpuriousWakeup, TypeOK
  <2>8. CASE UNCHANGED vars
    BY <2>8 DEF vars
  <2>9. ASSUME NEW t \in Txs, slock(t) PROVE lockVal'[req'[u].blk] < 0
    BY <2>2, <2>3, <2>4, <2>9 DEF slock, CanCheck
  <2>10. ASSUME NEW t \in Txs, xlock(t) PROVE lockVal'[req'[u].blk] < 0
    BY <2>2, <2>3, <2>4, <2>10 DEF xlock, CanCheck
  <2> QED
    BY <2>1, <2>5, <2>6, <2>7, <2>8, <2>9, <2>10 DEF Next, Step, Release
<1> QED BY <1>1, <1>2, TypeCorrect, PTL DEF Spec

(* The only step that ends a call without a new lock is a throw of that    *)
(* call, made while the lock is refused.                                   *)
LEMMA AbortStep ==
  ASSUME TypeOK, CallOK, Next, NEW t \in Txs,
         pc[t] \in {"slock", "xlock"}, pc'[t] = "idle", held'[t] = held[t]
  PROVE  \/ pc[t] = "slock" /\ has_xlock(req[t].blk)
         \/ pc[t] = "xlock" /\ has_other_slocks(req[t].blk)
<1>1. req[t].blk \in Blocks
  BY DEF TypeOK
<1>2. ASSUME NEW u \in Txs, u # t,
             \/ \E b \in Blocks : CallSLock(u, b) \/ CallXLock(u, b)
             \/ slock(u) \/ xlock(u)
      PROVE  pc'[t] = pc[t]
  BY <1>2 DEF CallSLock, CallXLock, slock, xlock, Sleep, Throw, Grant, TypeOK
<1>3. ASSUME NEW u \in Txs,
             \/ StartRelease(u) \/ Release(u)
             \/ TimePasses(u) \/ WaitTimesOut(u) \/ SpuriousWakeup(u)
      PROVE  pc'[t] = pc[t]
  BY <1>3 DEF StartRelease, Release, unlock, EndRelease, TimePasses, WaitTimesOut,
              SpuriousWakeup, TypeOK
<1>4. ~\E b \in Blocks : CallSLock(t, b) \/ CallXLock(t, b)
  BY DEF CallSLock, CallXLock
<1>5. slock(t) \/ xlock(t)
  BY <1>2, <1>3, <1>4 DEF Next, Step
<1>6. ASSUME NEW val, NEW m, NEW next, m # held[t][req[t].blk]
      PROVE  ~Grant(t, val, m, next)
  BY <1>1, <1>6 DEF Grant, TypeOK
<1>7. CASE slock(t)
  BY <1>6, <1>7 DEF slock, CanCheck, CallOK
<1>8. CASE xlock(t)
  BY <1>6, <1>8 DEF xlock, CanCheck, CallOK
<1> QED BY <1>5, <1>7, <1>8

(* A lock abort names a rival: slock throws only if another transaction    *)
(* has the block exclusively, xlock only if another one shares it; no      *)
(* transaction is aborted by its own locks.                                *)
THEOREM AbortsHaveRivals == Spec => AbortHasRival
<1> DEFINE Aborts(t) == pc'[t] = "idle" /\ held'[t] = held[t]
           Named(t) == /\ pc[t] = "slock" => Rival(t, "X")
                       /\ pc[t] = "xlock" => Rival(t, "S")
<1>1. ASSUME IInv, Next, NEW t \in Txs, Aborts(t) PROVE Named(t)
  <2> DEFINE b == req[t].blk
  <2> SUFFICES ASSUME pc[t] \in {"slock", "xlock"} PROVE Named(t)
    OBVIOUS
  <2>1. b \in Blocks
    BY <1>1 DEF IInv, TypeOK
  <2>2. \/ pc[t] = "slock" /\ has_xlock(b)
        \/ pc[t] = "xlock" /\ has_other_slocks(b)
    BY <1>1, AbortStep DEF IInv
  <2>3. /\ Locks \in LockMap /\ Excl(Locks) /\ Match(lockVal, Locks)
        /\ Locks[t][b] = held[t][b]
        /\ \A u \in Txs : Locks[u][b] = Lock(u, b)
    BY <1>1, <2>1, <2>2, LocksType, PropertiesAreCounting DEF IInv, Locks, Lock
  <2>4. CASE pc[t] = "slock"
    <3>1. held[t][b] = "none"
      BY <1>1, <2>4 DEF IInv, CallOK
    <3>2. \E u \in Txs : Locks[u][b] = "X"
      BY <2>1, <2>2, <2>3, <2>4, HoldersFinite DEF Match, has_xlock
    <3> QED BY <2>3, <2>4, <3>1, <3>2 DEF Rival
  <2>5. CASE pc[t] = "xlock"
    <3>1. held[t][b] = "S"
      BY <1>1, <2>5 DEF IInv, CallOK
    <3>2. Cardinality(HoldersIn(Locks, b)) > 1
      BY <2>1, <2>2, <2>3, <2>5, HoldersFinite DEF Match, has_other_slocks
    <3>3. HoldersIn(Locks, b) # {t}
      BY <3>2, FS_Singleton
    <3>4. t \in HoldersIn(Locks, b)
      BY <2>3, <3>1 DEF HoldersIn
    <3>5. PICK u \in Txs : u # t /\ Locks[u][b] # "none"
      BY <3>3, <3>4 DEF HoldersIn
    <3>6. Locks[u][b] = "S"
      BY <2>1, <2>3, <3>1, <3>5 DEF Excl, LockMap, Modes
    <3> QED BY <2>3, <2>5, <3>5, <3>6 DEF Rival
  <2> QED BY <2>4, <2>5
<1>2. IInv /\ [Next]_vars => [\A t \in Txs : Aborts(t) => Named(t)]_vars
  BY <1>1
<1> QED BY <1>2, Invariance, PTL DEF Spec, AbortHasRival
=============================================================================
