--------------------------- MODULE LockCond_proofs ---------------------------
(***************************************************************************)
(* Theorems about locks and condition variables, for any threads, any      *)
(* priorities and any number of conditions: mutual exclusion, and that     *)
(* they are a Mesa monitor.                                                *)
(***************************************************************************)
EXTENDS LockCond, KernelList_proofs

LEMMA KeyType == Key \in [Thread -> Int]
BY LockCondAssumption DEF Key

LEMMA AppendFacts ==
  ASSUME NEW S, NEW s \in Seq(S), NEW e \in S
  PROVE  /\ Append(s, e) \in Seq(S)
         /\ ToSet(Append(s, e)) = ToSet(s) \cup {e}
         /\ IsInjective(s) /\ e \notin ToSet(s) => IsInjective(Append(s, e))
<1> DEFINE r == Append(s, e)
           n == Len(s)
<1>1. /\ n \in Nat /\ DOMAIN s = 1 .. n /\ DOMAIN r = 1 .. n + 1
      /\ r \in Seq(S) /\ r[n + 1] = e
      /\ \A i \in 1 .. n : r[i] = s[i]
  OBVIOUS
<1> HIDE DEF r, n
<1>2. ToSet(r) = ToSet(s) \cup {e}
  <2>1. ASSUME NEW x \in ToSet(r) PROVE x \in ToSet(s) \cup {e}
    <3>1. PICK i \in 1 .. n + 1 : x = r[i]
      BY <1>1 DEF ToSet
    <3>2. CASE i = n + 1
      BY <1>1, <3>1, <3>2
    <3>3. CASE i \in 1 .. n
      BY <1>1, <3>1, <3>3 DEF ToSet
    <3> QED
      BY <1>1, <3>2, <3>3
  <2>2. ASSUME NEW x \in ToSet(s) PROVE x \in ToSet(r)
    <3>1. PICK i \in 1 .. n : x = s[i]
      BY <1>1 DEF ToSet
    <3>2. i \in 1 .. n + 1 /\ r[i] = x
      BY <1>1, <3>1
    <3> QED
      BY <1>1, <3>2 DEF ToSet
  <2>3. e \in ToSet(r)
    <3>1. n + 1 \in 1 .. n + 1
      BY <1>1
    <3> QED
      BY <1>1, <3>1 DEF ToSet
  <2> QED
    BY <2>1, <2>2, <2>3
<1>3. ASSUME IsInjective(s), e \notin ToSet(s) PROVE IsInjective(r)
  <2>1. \A i \in 1 .. n : s[i] # e
    BY <1>1, <1>3 DEF ToSet
  <2>2. \A i, j \in 1 .. n : s[i] = s[j] => i = j
    BY <1>1, <1>3 DEF IsInjective
  <2> QED
    BY <1>1, <2>1, <2>2 DEF IsInjective
<1> QED
  BY <1>1, <1>2, <1>3 DEF r

-----------------------------------------------------------------------------
(* The inductive invariant *)

LEMMA InitInv ==
  ASSUME Init PROVE LockCondInv
<1> USE LockCondAssumption DEF Init
<1>1. TypeOK
  BY DEF TypeOK, Location
<1>2. OneInside /\ HolderInside
  BY DEF OneInside, HolderInside, InLock
<1>3. ToSet(<<>>) = {} /\ IsInjective(<<>>) /\ Ordered(<<>>, Key)
  BY DEF ToSet, IsInjective, Ordered
<1>4. LockQueue /\ CondQueues
  BY <1>3 DEF LockQueue, CondQueues
<1>5. Calls /\ SleeperKept
  BY DEF Calls, SleeperKept
<1> QED
  BY <1>1, <1>2, <1>4, <1>5 DEF LockCondInv

LEMMA LockAcquireInv ==
  ASSUME LockCondInv, NEW t \in Thread, LockAcquire(t)
  PROVE  LockCondInv'
<1> USE LockCondAssumption DEF LockCondInv, LockAcquire, Goto, lockVars, condVars, TypeOK
<1>1. TypeOK'
  BY DEF Location
<1>2. OneInside' /\ HolderInside'
  BY DEF OneInside, HolderInside, InLock
<1>3. LockQueue'
  BY DEF LockQueue
<1>4. CondQueues'
  BY DEF CondQueues
<1>5. Calls'
  BY DEF Calls
<1>6. SleeperKept'
  BY DEF SleeperKept, Waits
<1> QED
  BY <1>1, <1>2, <1>3, <1>4, <1>5, <1>6

LEMMA LockTryAcquireInv ==
  ASSUME LockCondInv, NEW t \in Thread, LockTryAcquire(t)
  PROVE  LockCondInv'
<1> USE LockCondAssumption DEF LockCondInv, LockTryAcquire, Goto, lockVars, condVars, TypeOK
<1>1. TypeOK'
  BY DEF Location
<1>2. value = 1 /\ value' = 0
  OBVIOUS
<1>3. OneInside' /\ HolderInside'
  BY <1>2 DEF OneInside, HolderInside, InLock
<1>4. LockQueue'
  BY <1>2 DEF LockQueue
<1>5. CondQueues'
  BY DEF CondQueues
<1>6. Calls'
  BY DEF Calls
<1>7. SleeperKept'
  BY DEF SleeperKept, Waits
<1> QED
  BY <1>1, <1>3, <1>4, <1>5, <1>6, <1>7

LEMMA SemaDownInv ==
  ASSUME LockCondInv, NEW t \in Thread, SemaDown(t)
  PROVE  LockCondInv'
<1> USE LockCondAssumption DEF LockCondInv, Goto, lockVars, condVars, TypeOK
<1>1. /\ pc[t] = "down" /\ t \notin blocked
      /\ UNCHANGED <<holder, cond_waiters, sem, on, target, all>>
  BY DEF SemaDown
<1>2. CASE /\ value = 0
           /\ waiters' = ListInsertOrdered(waiters, t, Key) /\ blocked' = blocked \cup {t}
           /\ UNCHANGED <<value, pc>>
  <2>1. /\ waiters' \in Seq(Thread) /\ ToSet(waiters') = ToSet(waiters) \cup {t}
        /\ IsInjective(waiters) /\ t \notin ToSet(waiters) => IsInjective(waiters')
        /\ Ordered(waiters, Key) => Ordered(waiters', Key)
    <3> DEFINE r == ListInsertOrdered(waiters, t, Key)
    <3>1. waiters \in Seq(Thread) /\ t \in Thread
      OBVIOUS
    <3>2. /\ r \in Seq(Thread)
          /\ r # <<>>
          /\ ToSet(r) = ToSet(waiters) \cup {t}
          /\ IsInjective(waiters) /\ t \notin ToSet(waiters) => IsInjective(r)
          /\ Ordered(waiters, Key) => Ordered(r, Key)
      BY ONLY <3>1, InsertOrdered, KeyType
    <3>3. waiters' = r
      BY <1>2
    <3> HIDE DEF r
    <3> QED
      BY ONLY <3>2, <3>3
  <2>2. TypeOK'
    BY <1>1, <1>2, <2>1
  <2>3. OneInside' /\ HolderInside'
    BY <1>1, <1>2 DEF OneInside, HolderInside, InLock
  <2>4. LockQueue'
    <3>1. IsInjective(waiters) /\ Ordered(waiters, Key) /\ t \notin ToSet(waiters)
      BY <1>1 DEF LockQueue
    <3>2. \A u \in ToSet(waiters') : pc'[u] = "down" /\ u \in blocked'
      BY <1>1, <1>2, <2>1 DEF LockQueue
    <3>3. Key' = Key
      BY DEF Key
    <3>4. value' # 1
      BY <1>2
    <3> QED
      BY ONLY <2>1, <3>1, <3>2, <3>3, <3>4 DEF LockQueue
  <2>5. CondQueues'
    BY <1>1, <1>2 DEF CondQueues
  <2>6. Calls'
    BY <1>1, <1>2 DEF Calls
  <2>7. SleeperKept'
    BY <1>1, <1>2 DEF SleeperKept, Waits
  <2> QED
    BY <2>2, <2>3, <2>4, <2>5, <2>6, <2>7
<1>3. CASE /\ value > 0
           /\ value' = value - 1 /\ Goto(t, "own") /\ UNCHANGED <<waiters, blocked>>
  <2>1. value = 1 /\ value' = 0
    BY <1>3
  <2>2. TypeOK'
    BY <1>1, <1>3 DEF Location
  <2>3. OneInside' /\ HolderInside'
    BY <1>1, <1>3, <2>1 DEF OneInside, HolderInside, InLock
  <2>4. LockQueue'
    BY <1>1, <1>3, <2>1 DEF LockQueue
  <2>5. CondQueues'
    BY <1>1, <1>3 DEF CondQueues
  <2>6. Calls'
    BY <1>1, <1>3 DEF Calls
  <2>7. SleeperKept'
    BY <1>1, <1>3 DEF SleeperKept, Waits
  <2> QED
    BY <2>2, <2>3, <2>4, <2>5, <2>6, <2>7
<1> QED
  BY <1>2, <1>3 DEF SemaDown

LEMMA SetHolderInv ==
  ASSUME LockCondInv, NEW t \in Thread, SetHolder(t)
  PROVE  LockCondInv'
<1> USE LockCondAssumption DEF LockCondInv, SetHolder, Goto, lockVars, condVars, TypeOK
<1>1. TypeOK'
  BY DEF Location
<1>2. OneInside'
  BY DEF OneInside, InLock
<1>3. HolderInside'
  BY DEF OneInside, HolderInside, InLock
<1>4. LockQueue'
  BY DEF LockQueue
<1>5. CondQueues'
  BY DEF CondQueues
<1>6. Calls'
  BY DEF Calls
<1>7. SleeperKept'
  BY DEF SleeperKept, Waits
<1> QED
  BY <1>1, <1>2, <1>3, <1>4, <1>5, <1>6, <1>7

LEMMA LockReleaseInv ==
  ASSUME LockCondInv, NEW t \in Thread, LockRelease(t)
  PROVE  LockCondInv'
<1> USE LockCondAssumption DEF LockCondInv, LockRelease, Goto, lockVars, condVars, TypeOK
<1>1. TypeOK'
  BY DEF Location
<1>2. OneInside'
  BY DEF OneInside, InLock
<1>3. HolderInside'
  BY DEF OneInside, HolderInside, InLock
<1>4. LockQueue'
  BY DEF LockQueue
<1>5. CondQueues'
  BY DEF CondQueues
<1>6. Calls'
  BY DEF Calls
<1>7. SleeperKept'
  BY DEF SleeperKept, Waits
<1> QED
  BY <1>1, <1>2, <1>3, <1>4, <1>5, <1>6, <1>7

LEMMA SemaUpInv ==
  ASSUME LockCondInv, NEW t \in Thread, SemaUp(t)
  PROVE  LockCondInv'
<1> USE LockCondAssumption DEF LockCondInv, Goto, lockVars, condVars, TypeOK
<1>1. /\ pc[t] = "drop" /\ value' = value + 1
      /\ pc' = [pc EXCEPT ![t] = IF on[t] = NoCond THEN "out" ELSE "sleep"]
      /\ UNCHANGED <<holder, cond_waiters, sem, on, target, all>>
  BY DEF SemaUp
<1>2. value = 0
  BY <1>1 DEF OneInside, InLock
<1>3. /\ waiters' \in Seq(Thread) /\ blocked' \subseteq blocked
      /\ IsInjective(waiters') /\ Ordered(waiters', Key)
      /\ \A u \in ToSet(waiters') : pc[u] = "down" /\ u \in blocked'
      /\ waiters' # <<>> => \E u \in Thread : pc[u] = "down" /\ u \notin blocked'
      /\ \A u \in Thread : pc[u] # "down" /\ u \in blocked => u \in blocked'
  <2>1. CASE waiters = <<>>
    BY <2>1 DEF SemaUp, LockQueue
  <2>2. CASE waiters # <<>>
    <3>1. waiters' = Tail(waiters) /\ blocked' = blocked \ {Head(waiters)}
      BY <2>2 DEF SemaUp
    <3>2. /\ Head(waiters) \in Thread /\ Head(waiters) \in ToSet(waiters)
          /\ Tail(waiters) \in Seq(Thread)
          /\ ToSet(waiters) = ToSet(Tail(waiters)) \cup {Head(waiters)}
          /\ IsInjective(Tail(waiters)) /\ Head(waiters) \notin ToSet(Tail(waiters))
          /\ Ordered(Tail(waiters), Key)
      BY <2>2, PopFront, KeyType DEF LockQueue
    <3> QED
      BY <3>1, <3>2 DEF LockQueue
  <2> QED
    BY <2>1, <2>2
<1>4. TypeOK'
  BY <1>1, <1>2, <1>3 DEF Location
<1>5. OneInside'
  BY <1>1, <1>2 DEF OneInside, InLock
<1>6. HolderInside'
  BY <1>1 DEF HolderInside
<1>7. LockQueue'
  <2>1. Key' = Key
    BY DEF Key
  <2>2. \A u \in Thread : pc[u] = "down" => pc'[u] = "down"
    BY <1>1
  <2>3. \A u \in ToSet(waiters') : u \in Thread
    BY <1>3 DEF ToSet
  <2> QED
    BY <1>3, <2>1, <2>2, <2>3 DEF LockQueue
<1>8. CondQueues'
  BY <1>1 DEF CondQueues
<1>9. Calls'
  BY <1>1, <1>3 DEF Calls
<1>10. SleeperKept'
  <2>1. \A u \in Thread : Waits(u)' <=> Waits(u)
    BY <1>1 DEF Waits
  <2>2. \A u \in Thread : (pc'[u] = "signal" <=> pc[u] = "signal")
                          /\ (u # t => pc'[u] = pc[u])
    BY <1>1
  <2>3. on[t] # NoCond => Waits(t)
    BY <1>1 DEF Waits, Calls
  <2>4. ASSUME NEW u \in Thread, pc'[u] = "signal"
        PROVE  /\ target'[u] \in Thread /\ pc'[target'[u]] = "sleep"
               /\ ~Waits(target[u])' /\ sem'[target'[u]] = 0 /\ target'[u] = target[u]
    <3>0. pc[u] = "signal"
      BY <2>2, <2>4
    <3>1. /\ target[u] \in Thread /\ pc[target[u]] = "sleep"
          /\ ~Waits(target[u]) /\ sem[target[u]] = 0
      BY <3>0 DEF SleeperKept
    <3>2. target[u] # t
      BY <1>1, <3>1
    <3> QED
      BY <1>1, <2>1, <2>2, <3>1, <3>2
  <2>5. ASSUME NEW u \in Thread, pc'[u] = "sleep"
        PROVE  Waits(u)' \/ sem'[u] = 1 \/ \E v \in Thread : pc'[v] = "signal" /\ target'[v] = u
    <3>1. CASE u = t
      <4>1. on[t] # NoCond
        BY <1>1, <2>5, <3>1
      <4> QED
        BY <2>1, <2>3, <3>1, <4>1
    <3>2. CASE u # t
      BY <1>1, <2>1, <2>2, <2>5, <3>2 DEF SleeperKept
    <3> QED
      BY <3>1, <3>2
  <2> QED
    BY <2>4, <2>5, <1>1 DEF SleeperKept
<1> QED
  BY <1>4, <1>5, <1>6, <1>7, <1>8, <1>9, <1>10

LEMMA CondWaitInv ==
  ASSUME LockCondInv, NEW t \in Thread, NEW c \in Cond, CondWait(t, c)
  PROVE  LockCondInv'
<1> USE LockCondAssumption DEF LockCondInv, CondWait, Goto, lockVars, condVars, TypeOK
<1>1. /\ \A d \in Cond : t \notin ToSet(cond_waiters[d])
      /\ \A u \in Thread : pc[u] \in InLock => u = t
  BY DEF CondQueues, OneInside, InLock
<1>2. /\ cond_waiters' \in [Cond -> Seq(Thread)]
      /\ ToSet(cond_waiters'[c]) = ToSet(cond_waiters[c]) \cup {t}
      /\ IsInjective(cond_waiters'[c])
      /\ \A d \in Cond \ {c} : cond_waiters'[d] = cond_waiters[d]
  <2>1. cond_waiters[c] \in Seq(Thread) /\ cond_waiters'[c] = Append(cond_waiters[c], t)
    OBVIOUS
  <2>2. IsInjective(cond_waiters[c]) /\ t \notin ToSet(cond_waiters[c])
    BY <1>1 DEF CondQueues
  <2>3. /\ cond_waiters'[c] \in Seq(Thread)
        /\ ToSet(cond_waiters'[c]) = ToSet(cond_waiters[c]) \cup {t}
        /\ IsInjective(cond_waiters'[c])
    BY ONLY <2>1, <2>2, t \in Thread, AppendFacts
  <2> QED
    BY <2>3
<1>3. TypeOK'
  BY <1>2 DEF Location
<1>4. OneInside'
  BY DEF OneInside, InLock
<1>5. HolderInside'
  BY <1>1 DEF HolderInside, InLock
<1>6. LockQueue'
  BY DEF LockQueue
<1>7. CondQueues'
  BY <1>1, <1>2 DEF CondQueues
<1>8. Calls'
  BY <1>1, <1>2 DEF Calls, InLock
<1>9. SleeperKept'
  <2>1. \A u \in Thread : u # t => (Waits(u)' <=> Waits(u))
    BY <1>2 DEF Waits
  <2>2. \A u \in Thread : pc'[u] # "signal" /\ pc[u] # "signal"
    BY <1>1 DEF InLock
  <2>3. \A u \in Thread : pc'[u] = "sleep" => u # t /\ pc[u] = "sleep" /\ sem'[u] = sem[u]
    OBVIOUS
  <2> QED
    BY <2>1, <2>2, <2>3 DEF SleeperKept
<1> QED
  BY <1>3, <1>4, <1>5, <1>6, <1>7, <1>8, <1>9

LEMMA SleepDownInv ==
  ASSUME LockCondInv, NEW t \in Thread, SleepDown(t)
  PROVE  LockCondInv'
<1> USE LockCondAssumption DEF LockCondInv, Goto, lockVars, condVars, TypeOK
<1>1. /\ pc[t] = "sleep" /\ t \notin blocked
      /\ UNCHANGED <<holder, value, waiters, cond_waiters, on, target, all>>
  BY DEF SleepDown
<1>2. CASE sem[t] = 0 /\ blocked' = blocked \cup {t} /\ UNCHANGED <<sem, pc>>
  <2>1. TypeOK' /\ OneInside' /\ HolderInside'
    BY <1>1, <1>2 DEF OneInside, HolderInside, InLock
  <2>2. LockQueue'
    <3>1. Key' = Key
      BY DEF Key
    <3> QED
      BY <1>1, <1>2, <3>1 DEF LockQueue
  <2>3. CondQueues'
    BY <1>1, <1>2 DEF CondQueues
  <2>4. Calls'
    BY <1>1, <1>2 DEF Calls
  <2>5. SleeperKept'
    BY <1>1, <1>2 DEF SleeperKept, Waits
  <2> QED
    BY <2>1, <2>2, <2>3, <2>4, <2>5
<1>3. CASE /\ sem[t] > 0 /\ sem' = [sem EXCEPT ![t] = @ - 1]
           /\ Goto(t, "down") /\ UNCHANGED blocked
  <2>0. sem[t] \in {0, 1}
    OBVIOUS
  <2>1. sem[t] = 1 /\ sem' = [sem EXCEPT ![t] = 0]
    <3>1. sem[t] = 1
      BY <1>3, <2>0
    <3>2. sem[t] - 1 = 0
      BY <3>1
    <3>3. sem' = [sem EXCEPT ![t] = sem[t] - 1]
      BY <1>3
    <3> QED
      BY ONLY <3>1, <3>2, <3>3
  <2>2. TypeOK'
    BY <1>1, <1>3, <2>1 DEF Location
  <2>3. OneInside' /\ HolderInside'
    BY <1>1, <1>3 DEF OneInside, HolderInside, InLock
  <2>4. LockQueue'
    <3>1. Key' = Key
      BY DEF Key
    <3>2. t \notin ToSet(waiters)
      BY <1>1 DEF LockQueue
    <3>3. \A u \in Thread : pc[u] = "down" => pc'[u] = "down"
      BY <1>3
    <3>4. \A u \in ToSet(waiters) : u \in Thread
      BY DEF ToSet
    <3> QED
      BY <1>1, <1>3, <3>1, <3>2, <3>3, <3>4 DEF LockQueue
  <2>5. \A d \in Cond : t \notin ToSet(cond_waiters[d])
    BY <2>1 DEF CondQueues
  <2>6. CondQueues'
    BY <1>1, <1>3, <2>1, <2>5 DEF CondQueues
  <2>7. Calls'
    BY <1>1, <1>3, <2>1 DEF Calls
  <2>8. SleeperKept'
    <3>1. \A u \in Thread : Waits(u)' <=> Waits(u)
      BY <1>1 DEF Waits
    <3>2. \A u \in Thread : pc'[u] = "signal" => pc[u] = "signal" /\ target[u] # t
      BY <1>1, <1>3, <2>1 DEF SleeperKept
    <3>3. \A u \in Thread : u # t => pc'[u] = pc[u] /\ sem'[u] = sem[u]
      BY <1>3, <2>1
    <3>4. pc'[t] = "down"
      BY <1>3
    <3>5. ASSUME NEW u \in Thread, pc'[u] = "signal"
          PROVE  /\ target'[u] \in Thread /\ pc'[target'[u]] = "sleep"
                 /\ ~Waits(target[u])' /\ sem'[target'[u]] = 0 /\ target'[u] = target[u]
      <4>1. pc[u] = "signal" /\ target[u] # t
        BY <3>2, <3>5
      <4>2. /\ target[u] \in Thread /\ pc[target[u]] = "sleep"
            /\ ~Waits(target[u]) /\ sem[target[u]] = 0
        BY <4>1 DEF SleeperKept
      <4> QED
        BY <1>1, <3>1, <3>3, <4>1, <4>2
    <3>6. ASSUME NEW u \in Thread, pc'[u] = "sleep"
          PROVE  Waits(u)' \/ sem'[u] = 1 \/ \E v \in Thread : pc'[v] = "signal" /\ target'[v] = u
      <4>1. u # t /\ pc[u] = "sleep"
        BY <3>3, <3>4, <3>6
      <4>2. \A v \in Thread : pc[v] = "signal" => pc'[v] = "signal"
        BY <1>1, <3>3
      <4> QED
        BY <1>1, <3>1, <3>3, <4>1, <4>2 DEF SleeperKept
    <3> QED
      BY <1>1, <3>5, <3>6 DEF SleeperKept
  <2> QED
    BY <2>2, <2>3, <2>4, <2>6, <2>7, <2>8
<1> QED
  BY <1>2, <1>3 DEF SleepDown

\* What list_pop_front() of a condition does: its thread is asleep, or will be,
\* with its semaphore down, and it is on no list any more.
LEMMA PopWaiterFacts ==
  ASSUME LockCondInv, NEW t \in Thread, NEW c \in Cond,
         pc[t] \in {"in", "broadcast"}, PopWaiter(t, c)
  PROVE  LET h == Head(cond_waiters[c])
         IN  /\ h \in Thread /\ h # t /\ pc[h] = "sleep" /\ on[h] = c /\ sem[h] = 0
             /\ cond_waiters' \in [Cond -> Seq(Thread)]
             /\ ToSet(cond_waiters[c]) = ToSet(cond_waiters'[c]) \cup {h}
             /\ IsInjective(cond_waiters'[c])
             /\ \A d \in Cond \ {c} : cond_waiters'[d] = cond_waiters[d]
             /\ \A d \in Cond : h \notin ToSet(cond_waiters'[d])
             /\ \A u \in Thread : Waits(u)' <=> Waits(u) /\ u # h
<1> USE DEF LockCondInv, TypeOK
<1> DEFINE h == Head(cond_waiters[c])
<1>1. /\ cond_waiters[c] # <<>> /\ cond_waiters[c] \in Seq(Thread)
      /\ cond_waiters' = [cond_waiters EXCEPT ![c] = Tail(cond_waiters[c])]
  BY DEF PopWaiter
<1>2. /\ h \in Thread /\ h \in ToSet(cond_waiters[c])
      /\ Tail(cond_waiters[c]) \in Seq(Thread)
      /\ ToSet(cond_waiters[c]) = ToSet(Tail(cond_waiters[c])) \cup {h}
      /\ IsInjective(cond_waiters[c]) =>
           IsInjective(Tail(cond_waiters[c])) /\ h \notin ToSet(Tail(cond_waiters[c]))
  BY ONLY <1>1, PopFront, KeyType
<1> HIDE DEF h
<1>3. /\ cond_waiters' \in [Cond -> Seq(Thread)]
      /\ cond_waiters'[c] = Tail(cond_waiters[c])
      /\ \A d \in Cond \ {c} : cond_waiters'[d] = cond_waiters[d]
  BY <1>1, <1>2
<1>4. on[h] = c /\ pc[h] \in {"drop", "sleep"} /\ sem[h] = 0
  BY <1>2 DEF CondQueues
<1>5. h # t /\ pc[h] = "sleep"
  BY <1>2, <1>4 DEF OneInside, InLock
<1>6. IsInjective(cond_waiters'[c]) /\ h \notin ToSet(cond_waiters'[c])
  BY <1>2, <1>3 DEF CondQueues
<1>7. \A d \in Cond : h \notin ToSet(cond_waiters'[d])
  BY <1>3, <1>4, <1>6 DEF CondQueues
<1>8. ASSUME NEW u \in Thread PROVE Waits(u)' <=> Waits(u) /\ u # h
  <2>1. \A d \in Cond : u \in ToSet(cond_waiters'[d]) <=> u \in ToSet(cond_waiters[d]) /\ u # h
    BY <1>2, <1>3, <1>7
  <2> QED
    BY <2>1 DEF Waits
<1> QED
  BY <1>2, <1>3, <1>4, <1>5, <1>6, <1>7, <1>8 DEF h

LEMMA PopWaiterInv ==
  ASSUME LockCondInv, NEW t \in Thread, NEW c \in Cond,
         pc[t] \in {"in", "broadcast"}, PopWaiter(t, c),
         all' \in [Thread -> Cond \cup {NoCond}]
  PROVE  LockCondInv'
<1> USE LockCondAssumption DEF LockCondInv, TypeOK
<1> DEFINE h == Head(cond_waiters[c])
<1>1. /\ h \in Thread /\ h # t /\ pc[h] = "sleep" /\ on[h] = c /\ sem[h] = 0
      /\ cond_waiters' \in [Cond -> Seq(Thread)]
      /\ ToSet(cond_waiters[c]) = ToSet(cond_waiters'[c]) \cup {h}
      /\ IsInjective(cond_waiters'[c])
      /\ \A d \in Cond \ {c} : cond_waiters'[d] = cond_waiters[d]
      /\ \A d \in Cond : h \notin ToSet(cond_waiters'[d])
      /\ \A u \in Thread : Waits(u)' <=> Waits(u) /\ u # h
  BY PopWaiterFacts
<1>2. /\ target' = [target EXCEPT ![t] = h] /\ pc' = [pc EXCEPT ![t] = "signal"]
      /\ UNCHANGED <<holder, value, waiters, sem, blocked, on>>
  BY DEF PopWaiter, Goto, lockVars
<1> HIDE DEF h
<1>3. \A u \in Thread : pc[u] \in InLock => u = t
  BY DEF OneInside, InLock
<1>4. TypeOK'
  BY <1>1, <1>2 DEF Location
<1>5. OneInside' /\ HolderInside'
  BY <1>2 DEF OneInside, HolderInside, InLock
<1>6. LockQueue'
  <2>1. Key' = Key
    BY DEF Key
  <2>2. \A u \in Thread : pc'[u] = "down" <=> pc[u] = "down"
    BY <1>2
  <2>3. \A u \in ToSet(waiters) : u \in Thread
    BY DEF ToSet
  <2> QED
    BY <1>2, <2>1, <2>2, <2>3 DEF LockQueue
<1>7. CondQueues'
  <2>1. ASSUME NEW d \in Cond, NEW u \in ToSet(cond_waiters'[d])
        PROVE  u \in ToSet(cond_waiters[d]) /\ u \in Thread
    <3>1. u \in ToSet(cond_waiters[d])
      BY <1>1
    <3>2. cond_waiters[d] \in Seq(Thread)
      OBVIOUS
    <3>3. u \in Thread
      BY ONLY <3>1, <3>2 DEF ToSet
    <3> QED
      BY <3>1, <3>3
  <2>2. \A u \in Thread : u # t => pc'[u] = pc[u]
    BY <1>2
  <2>3. \A d \in Cond : t \notin ToSet(cond_waiters[d])
    BY DEF CondQueues
  <2> QED
    BY ZenonT(60), <1>1, <1>2, <2>1, <2>2, <2>3 DEF CondQueues
<1>8. Calls'
  <2>1. \A u \in Thread : pc'[u] \notin {"drop", "broadcast"}
    BY <1>2, <1>3 DEF InLock
  <2>2. on[t] = NoCond /\ sem[t] # 1
    BY DEF Calls
  <2>3. \A u \in Thread : u # t => pc'[u] = pc[u]
    BY <1>2
  <2>4. pc'[t] = "signal"
    BY <1>2
  <2> QED
    BY <1>2, <2>1, <2>2, <2>3, <2>4 DEF Calls
<1>9. SleeperKept'
  <2>1. \A u \in Thread : pc'[u] = "signal" <=> u = t
    BY <1>2, <1>3 DEF InLock
  <2>2. target'[t] = h /\ pc'[h] = "sleep"
    BY <1>1, <1>2
  <2>4. \A u \in Thread : pc'[u] = "sleep" => pc[u] = "sleep"
    BY <1>2
  <2>5. \A u \in Thread : pc[u] # "signal"
    BY <1>3 DEF InLock
  <2>6. ASSUME NEW u \in Thread, pc'[u] = "sleep"
        PROVE  Waits(u)' \/ sem'[u] = 1 \/ \E v \in Thread : pc'[v] = "signal" /\ target'[v] = u
    <3>1. Waits(u) \/ sem[u] = 1
      BY <2>4, <2>5, <2>6 DEF SleeperKept
    <3> QED
      BY <1>1, <1>2, <2>1, <2>2, <3>1
  <2>7. ASSUME NEW u \in Thread, pc'[u] = "signal"
        PROVE  /\ target'[u] \in Thread /\ pc'[target'[u]] = "sleep"
               /\ ~Waits(target[u])' /\ sem'[target'[u]] = 0
    <3>1. target'[u] = h
      BY <2>1, <2>2, <2>7
    <3>2. ~Waits(target[u])'
      BY <1>1, <3>1 DEF Waits
    <3> QED
      BY <1>1, <1>2, <2>2, <3>1, <3>2
  <2> QED
    BY <2>6, <2>7 DEF SleeperKept
<1> QED
  BY <1>4, <1>5, <1>6, <1>7, <1>8, <1>9

LEMMA BroadcastEndInv ==
  ASSUME LockCondInv, NEW t \in Thread, BroadcastEnd(t)
  PROVE  LockCondInv'
<1> USE LockCondAssumption DEF LockCondInv, BroadcastEnd, Goto, lockVars, condVars, TypeOK
<1>1. TypeOK'
  BY DEF Location
<1>2. OneInside' /\ HolderInside'
  BY DEF OneInside, HolderInside, InLock
<1>3. LockQueue'
  BY DEF LockQueue
<1>4. CondQueues'
  BY DEF CondQueues
<1>5. Calls'
  BY DEF Calls
<1>6. SleeperKept'
  BY DEF SleeperKept, Waits
<1> QED
  BY <1>1, <1>2, <1>3, <1>4, <1>5, <1>6

LEMMA SignalUpInv ==
  ASSUME LockCondInv, NEW t \in Thread, SignalUp(t)
  PROVE  LockCondInv'
<1> USE LockCondAssumption DEF LockCondInv, TypeOK
<1> DEFINE w == target[t]
<1>1. pc[t] = "signal"
  BY DEF SignalUp
<1>2. w \in Thread /\ pc[w] = "sleep" /\ ~Waits(w) /\ sem[w] = 0 /\ w # t
  BY <1>1 DEF SleeperKept
<1>3. /\ sem' = [sem EXCEPT ![w] = 1] /\ blocked' = blocked \ {w}
      /\ target' = [target EXCEPT ![t] = NoThread]
      /\ UNCHANGED <<holder, value, waiters, cond_waiters, on, all>>
  BY <1>2 DEF SignalUp, lockVars
<1>4. pc' = [pc EXCEPT ![t] = IF all[t] = NoCond THEN "in" ELSE "broadcast"]
  BY DEF SignalUp, Goto
<1> HIDE DEF w
<1>5. \A u \in Thread : pc[u] \in InLock => u = t
  BY <1>1 DEF OneInside, InLock
<1>6. TypeOK'
  BY <1>2, <1>3, <1>4 DEF Location
<1>7. OneInside'
  BY <1>1, <1>3, <1>4 DEF OneInside, InLock
<1>8. HolderInside'
  BY <1>1, <1>3, <1>4 DEF HolderInside
<1>9. LockQueue'
  <2>1. Key' = Key
    BY DEF Key
  <2>2. \A u \in Thread : pc'[u] = "down" <=> pc[u] = "down"
    BY <1>1, <1>4
  <2>3. \A u \in ToSet(waiters) : u \in Thread
    BY DEF ToSet
  <2> QED
    BY <1>2, <1>3, <2>1, <2>2, <2>3 DEF LockQueue
<1>10. CondQueues'
  <2>1. \A d \in Cond : t \notin ToSet(cond_waiters[d]) /\ w \notin ToSet(cond_waiters[d])
    BY <1>1, <1>2 DEF CondQueues, Waits
  <2>2. \A u \in Thread : (u # t => pc'[u] = pc[u]) /\ (u # w => sem'[u] = sem[u])
    BY <1>3, <1>4
  <2>3. ASSUME NEW d \in Cond, NEW u \in ToSet(cond_waiters[d])
        PROVE  on[u] = d /\ pc'[u] \in {"drop", "sleep"} /\ sem'[u] = 0
    <3>1. cond_waiters[d] \in Seq(Thread)
      OBVIOUS
    <3>2. u \in Thread
      BY ONLY <3>1, u \in ToSet(cond_waiters[d]) DEF ToSet
    <3>3. on[u] = d /\ pc[u] \in {"drop", "sleep"} /\ sem[u] = 0
      BY DEF CondQueues
    <3>4. u # t /\ u # w
      BY <2>1
    <3> QED
      BY <2>2, <3>2, <3>3, <3>4
  <2> QED
    BY <1>3, <2>3 DEF CondQueues
<1>11. Calls'
  <2>1. on[t] = NoCond
    BY <1>1 DEF Calls
  <2>2. \A u \in Thread : (u # t => pc'[u] = pc[u]) /\ (u # w => sem'[u] = sem[u])
    BY <1>3, <1>4
  <2>3. sem[t] # 1
    BY <1>1 DEF Calls
  <2>4. pc'[t] \in {"in", "broadcast"} /\ (pc'[t] = "broadcast" => all[t] # NoCond)
    BY <1>4
  <2> QED
    BY <1>2, <1>3, <2>1, <2>2, <2>3, <2>4 DEF Calls
<1>12. SleeperKept'
  <2>1. \A u \in Thread : Waits(u)' <=> Waits(u)
    BY <1>3 DEF Waits
  <2>2. \A u \in Thread : pc'[u] # "signal"
    BY <1>1, <1>4, <1>5 DEF InLock
  <2>3. ASSUME NEW u \in Thread, pc'[u] = "sleep" PROVE Waits(u)' \/ sem'[u] = 1
    <3>1. pc[u] = "sleep"
      BY <1>4, <2>3
    <3>2. Waits(u) \/ sem[u] = 1 \/ u = w
      BY <1>5, <3>1 DEF SleeperKept, InLock, w
    <3> QED
      BY <1>2, <1>3, <2>1, <3>2
  <2> QED
    BY <2>2, <2>3 DEF SleeperKept
<1> QED
  BY <1>6, <1>7, <1>8, <1>9, <1>10, <1>11, <1>12

LEMMA StutterInv ==
  ASSUME LockCondInv, UNCHANGED vars PROVE LockCondInv'
<1> USE DEF vars, lockVars, condVars
<1>1. TypeOK' /\ OneInside' /\ HolderInside'
  BY DEF LockCondInv, TypeOK, OneInside, HolderInside
<1>2. LockQueue' /\ CondQueues' /\ Calls' /\ SleeperKept'
  <2>1. Key' = Key
    BY DEF Key
  <2> QED
    BY <2>1 DEF LockCondInv, LockQueue, CondQueues, Calls, SleeperKept, Waits
<1> QED
  BY <1>1, <1>2 DEF LockCondInv

LEMMA StepInv == LockCondInv /\ [Next]_vars => LockCondInv'
<1> SUFFICES ASSUME LockCondInv, [Next]_vars PROVE LockCondInv'
  OBVIOUS
<1>1. CASE UNCHANGED vars
  BY <1>1, StutterInv
<1>2. ASSUME NEW t \in Thread,
             LockAcquire(t) \/ LockTryAcquire(t) \/ LockRelease(t) PROVE LockCondInv'
  BY <1>2, LockAcquireInv, LockTryAcquireInv, LockReleaseInv
<1>3. ASSUME NEW t \in Thread, NEW c \in Cond,
             CondWait(t, c) \/ CondSignal(t, c) \/ CondBroadcast(t, c) PROVE LockCondInv'
  <2>1. CASE CondWait(t, c)
    BY <2>1, CondWaitInv
  <2>2. CASE CondSignal(t, c) \/ CondBroadcast(t, c)
    <3>1. /\ pc[t] \in {"in", "broadcast"} /\ PopWaiter(t, c)
          /\ all' \in [Thread -> Cond \cup {NoCond}]
      BY <2>2 DEF CondSignal, CondBroadcast, LockCondInv, TypeOK
    <3> QED
      BY <3>1, PopWaiterInv
  <2> QED
    BY <1>3, <2>1, <2>2
<1>4. ASSUME NEW t \in Thread, Continue(t) PROVE LockCondInv'
  <2>1. CASE SemaDown(t) \/ SetHolder(t) \/ SemaUp(t) \/ SleepDown(t)
    BY <2>1, SemaDownInv, SetHolderInv, SemaUpInv, SleepDownInv
  <2>2. CASE BroadcastEnd(t) \/ SignalUp(t)
    BY <2>2, BroadcastEndInv, SignalUpInv
  <2>3. CASE BroadcastNext(t)
    <3>1. /\ all[t] \in Cond /\ pc[t] \in {"in", "broadcast"} /\ PopWaiter(t, all[t])
          /\ all' \in [Thread -> Cond \cup {NoCond}]
      BY <2>3 DEF BroadcastNext, LockCondInv, Calls, TypeOK
    <3> QED
      BY <3>1, PopWaiterInv
  <2> QED
    BY <1>4, <2>1, <2>2, <2>3 DEF Continue
<1> QED
  BY <1>1, <1>2, <1>3, <1>4 DEF Next

\* Where the lock's unit is, who waits for it and for a condition, and who will
\* wake a sleeper, in every state: what the two theorems below rest on.
THEOREM LockCondInvariance == Spec => []LockCondInv
<1>1. Init => LockCondInv
  BY InitInv
<1> QED
  BY <1>1, StepInv, PTL DEF Spec

LEMMA InvAccounts ==
  ASSUME LockCondInv PROVE LockAccounted
<1> USE DEF LockCondInv
<1> DEFINE inside == {t \in Thread : pc[t] \in InLock}
<1>1. value + Cardinality(inside) = 1
  <2>1. CASE value = 1
    <3>1. inside = {}
      BY <2>1 DEF OneInside
    <3>2. Cardinality(inside) = 0
      BY ONLY <3>1, FS_EmptySet
    <3> QED
      BY ONLY <2>1, <3>2
  <2>2. CASE value # 1
    <3>1. value = 0
      BY <2>2 DEF TypeOK
    <3>2. PICK t \in Thread : inside = {t}
      BY <2>2 DEF OneInside
    <3>3. Cardinality(inside) = 1
      BY ONLY <3>2, FS_Singleton
    <3> QED
      BY ONLY <3>1, <3>3
  <2> QED
    BY <2>1, <2>2
<1> QED
  BY <1>1 DEF LockAccounted, HolderInside, LockQueue

\* Mutual exclusion: the unit of the lock's semaphore is free or with the one
\* thread between sema_down() and sema_up(), `holder' names it, and while the
\* unit is free and threads wait, one of them is awake to take it.
THEOREM LockIsAccounted == Spec => []LockAccounted
BY LockCondInvariance, InvAccounts, PTL

-----------------------------------------------------------------------------
(* LockCond implements Monitor *)

LEMMA MonitorInit == Init => MonitorRefined!Init
BY DEF Init, MonitorRefined!Init, Signalled, Waiting, ToSet

\* A step that leaves the holder and the lists alone and ends no cond_wait().
LEMMA QuietStep ==
  ASSUME UNCHANGED <<holder, cond_waiters, on>>
  PROVE  UNCHANGED MonitorRefined!vars
BY DEF MonitorRefined!vars, Signalled, Waits, Waiting

LEMMA SetHolderRefines ==
  ASSUME LockCondInv, NEW t \in Thread, SetHolder(t)
  PROVE  MonitorRefined!Next
<1> USE DEF LockCondInv, TypeOK
<1>1. /\ pc[t] = "own" /\ holder' = t /\ on' = [on EXCEPT ![t] = NoCond]
      /\ cond_waiters' = cond_waiters
  BY DEF SetHolder, condVars
<1>2. holder = NoThread
  BY <1>1 DEF HolderInside, OneInside, InLock
<1>3. \A c \in Cond : t \notin ToSet(cond_waiters[c])
  BY <1>1 DEF CondQueues
<1>4. Signalled' = Signalled \ {t}
  BY <1>1 DEF Signalled, Waits
<1>w. Waiting' = Waiting
  BY <1>1 DEF Waiting
<1>5. CASE on[t] = NoCond
  <2>1. t \notin Signalled
    BY <1>5 DEF Signalled
  <2>2. Signalled' = Signalled
    BY <1>4, <2>1
  <2>3. MonitorRefined!Outside(t)
    BY <1>3, <2>1 DEF MonitorRefined!Outside, Waiting
  <2>4. MonitorRefined!Enter(t)
    BY <1>1, <1>2, <1>w, <2>2, <2>3 DEF MonitorRefined!Enter
  <2> QED
    BY <2>4 DEF MonitorRefined!Next
<1>6. CASE on[t] # NoCond
  <2>1. t \in Signalled
    BY <1>3, <1>6 DEF Signalled, Waits
  <2>2. MonitorRefined!Return(t)
    BY <1>1, <1>2, <1>4, <1>w, <2>1 DEF MonitorRefined!Return
  <2> QED
    BY <2>2 DEF MonitorRefined!Next
<1> QED
  BY <1>5, <1>6

LEMMA LockReleaseRefines ==
  ASSUME LockCondInv, NEW t \in Thread, LockRelease(t)
  PROVE  MonitorRefined!Next
<1>1. /\ holder = t /\ holder' = NoThread
      /\ UNCHANGED <<cond_waiters, on>>
  BY DEF LockRelease, condVars, LockCondInv, HolderInside
<1>2. Signalled' = Signalled /\ Waiting' = Waiting
  BY <1>1 DEF Signalled, Waits, Waiting
<1>3. MonitorRefined!Leave(t)
  BY <1>1, <1>2 DEF MonitorRefined!Leave
<1> QED
  BY <1>3 DEF MonitorRefined!Next

LEMMA CondWaitRefines ==
  ASSUME LockCondInv, NEW t \in Thread, NEW c \in Cond, CondWait(t, c)
  PROVE  MonitorRefined!Next
<1> USE DEF LockCondInv, TypeOK
<1>1. /\ pc[t] = "in" /\ holder' = NoThread /\ on' = [on EXCEPT ![t] = c]
      /\ cond_waiters' = [cond_waiters EXCEPT ![c] = Append(@, t)]
  BY DEF CondWait
<1>2. holder = t /\ on[t] = NoCond
  BY <1>1 DEF HolderInside, Calls
<1>3. \A d \in Cond : ToSet(cond_waiters'[d]) =
                        IF d = c THEN ToSet(cond_waiters[c]) \cup {t} ELSE ToSet(cond_waiters[d])
  <2>1. cond_waiters[c] \in Seq(Thread) /\ cond_waiters'[c] = Append(cond_waiters[c], t)
    BY <1>1
  <2>2. ToSet(cond_waiters'[c]) = ToSet(cond_waiters[c]) \cup {t}
    BY ONLY <2>1, t \in Thread, AppendFacts
  <2> QED
    BY <1>1, <2>2
<1>4. Signalled' = Signalled
  <2>1. t \notin Signalled
    BY <1>2 DEF Signalled
  <2>2. t \notin Signalled'
    BY <1>3 DEF Signalled, Waits
  <2>3. ASSUME NEW u \in Thread, u # t PROVE u \in Signalled' <=> u \in Signalled
    <3>1. on'[u] = on[u]
      BY <1>1, <2>3
    <3>2. Waits(u)' <=> Waits(u)
      BY <1>3, <2>3 DEF Waits
    <3> QED
      BY <3>1, <3>2 DEF Signalled
  <2>4. \A u \in Thread :
          on'[u] # NoCond /\ ~Waits(u)' <=> on[u] # NoCond /\ ~Waits(u)
    BY <2>1, <2>2, <2>3 DEF Signalled
  <2> QED
    BY ONLY <2>4 DEF Signalled
<1>w. Waiting' = [Waiting EXCEPT ![c] = @ \cup {t}]
  BY <1>3 DEF Waiting
<1>5. MonitorRefined!Wait(t, c)
  BY <1>1, <1>2, <1>4, <1>w DEF MonitorRefined!Wait
<1> QED
  BY <1>5 DEF MonitorRefined!Next

LEMMA PopWaiterRefines ==
  ASSUME LockCondInv, NEW t \in Thread, NEW c \in Cond,
         pc[t] \in {"in", "broadcast"}, PopWaiter(t, c)
  PROVE  MonitorRefined!Next
<1> USE LockCondAssumption DEF LockCondInv, TypeOK
<1> DEFINE h == Head(cond_waiters[c])
<1>1. /\ h \in Thread /\ on[h] = c
      /\ \A u \in Thread : Waits(u)' <=> Waits(u) /\ u # h
      /\ ToSet(cond_waiters[c]) = ToSet(cond_waiters'[c]) \cup {h}
      /\ \A d \in Cond \ {c} : cond_waiters'[d] = cond_waiters[d]
      /\ \A d \in Cond : h \notin ToSet(cond_waiters'[d])
  BY PopWaiterFacts
<1>2. UNCHANGED <<holder, on>>
  BY DEF PopWaiter, lockVars
<1>3. holder = t
  BY DEF HolderInside
<1>4. Signalled' = Signalled \cup {h}
  <2> HIDE DEF h
  <2> QED
    BY <1>1, <1>2 DEF Signalled
<1>5. h \in Waiting[c] /\ Waiting' = [Waiting EXCEPT ![c] = @ \ {h}]
  <2> HIDE DEF h
  <2>1. h \in ToSet(cond_waiters[c]) /\ ToSet(cond_waiters'[c]) = ToSet(cond_waiters[c]) \ {h}
    BY <1>1
  <2> QED
    BY <1>1, <2>1 DEF Waiting
<1>6. MonitorRefined!Signal(t, c)
  <2> HIDE DEF h
  <2> QED
    BY <1>2, <1>3, <1>4, <1>5 DEF MonitorRefined!Signal
<1> QED
  BY <1>6 DEF MonitorRefined!Next

LEMMA MonitorStep ==
  LockCondInv /\ [Next]_vars => [MonitorRefined!Next]_(MonitorRefined!vars)
<1> SUFFICES ASSUME LockCondInv, [Next]_vars
             PROVE  MonitorRefined!Next \/ UNCHANGED MonitorRefined!vars
  OBVIOUS
<1>1. CASE UNCHANGED vars
  BY <1>1, QuietStep DEF vars, lockVars, condVars
<1>2. ASSUME NEW t \in Thread,
             LockAcquire(t) \/ LockTryAcquire(t) \/ LockRelease(t)
      PROVE  MonitorRefined!Next \/ UNCHANGED MonitorRefined!vars
  <2>1. CASE LockAcquire(t) \/ LockTryAcquire(t)
    <3>1. UNCHANGED <<holder, cond_waiters, on>>
      BY <2>1 DEF LockAcquire, LockTryAcquire, lockVars, condVars
    <3> QED
      BY <3>1, QuietStep
  <2>2. CASE LockRelease(t)
    BY <2>2, LockReleaseRefines
  <2> QED
    BY <1>2, <2>1, <2>2
<1>3. ASSUME NEW t \in Thread, NEW c \in Cond,
             CondWait(t, c) \/ CondSignal(t, c) \/ CondBroadcast(t, c)
      PROVE  MonitorRefined!Next
  <2>1. CASE CondWait(t, c)
    BY <2>1, CondWaitRefines
  <2>2. CASE CondSignal(t, c) \/ CondBroadcast(t, c)
    BY <2>2, PopWaiterRefines DEF CondSignal, CondBroadcast
  <2> QED
    BY <1>3, <2>1, <2>2
<1>4. ASSUME NEW t \in Thread, Continue(t)
      PROVE  MonitorRefined!Next \/ UNCHANGED MonitorRefined!vars
  <2>1. CASE SemaDown(t) \/ SemaUp(t) \/ SleepDown(t) \/ BroadcastEnd(t) \/ SignalUp(t)
    <3>1. UNCHANGED <<holder, cond_waiters, on>>
      BY <2>1 DEF SemaDown, SemaUp, SleepDown, BroadcastEnd, SignalUp, lockVars, condVars
    <3> QED
      BY <3>1, QuietStep
  <2>2. CASE SetHolder(t)
    BY <2>2, SetHolderRefines
  <2>3. CASE BroadcastNext(t)
    <3>1. all[t] \in Cond /\ pc[t] \in {"in", "broadcast"} /\ PopWaiter(t, all[t])
      BY <2>3 DEF BroadcastNext, LockCondInv, Calls, TypeOK
    <3> QED
      BY <3>1, PopWaiterRefines
  <2> QED
    BY <1>4, <2>1, <2>2, <2>3 DEF Continue
<1> QED
  BY <1>1, <1>2, <1>3, <1>4 DEF Next

\* Semaphores and lists implement the monitor: cond_wait() releases and waits at
\* once, a signal lets one of the waiting threads go, which returns with the lock.
THEOREM ImplementsMonitor == Spec => MesaMonitor
BY MonitorInit, MonitorStep, LockCondInvariance, PTL
   DEF Spec, MesaMonitor, MonitorRefined!Spec
=============================================================================
