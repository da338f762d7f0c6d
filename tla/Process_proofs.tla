---------------------------- MODULE Process_proofs ----------------------------
(***************************************************************************)
(* Proofs about Process: ProcessInv is inductive, the safety properties    *)
(* follow from it, and every step implements WaitContract.                 *)
(***************************************************************************)
EXTENDS Process, TLAPS, SequenceTheorems, FiniteSetTheorems

LEMMA InitInv == Init => ProcessInv
BY ProcessAssumption DEF Init, ProcessInv, TypeOK, TidsInOrder, ExitFlags, ChildLists,
   WaitsForChild, FirstLoadHasParent, MutexExclusive, WaitersBlocked, Tid, Main,
   TidError, Status, Location

LEMMA RunTaskInv ==
  ASSUME ProcessInv, RunTask
  PROVE  ProcessInv'
<1> USE ProcessAssumption DEF ProcessInv, TypeOK, RunTask, TidsLeft, Goto, Main, TidError,
      familyVars, exitVars, loadVars, memVars, mutexVars
<1>1. TypeOK'
  BY DEF Tid, Status, Location
<1>2. TidsInOrder'
  BY DEF TidsInOrder, Tid
<1>3. ExitFlags'
  BY DEF ExitFlags
<1>4. ChildLists'
  BY DEF ChildLists, ExitFlags, TidsInOrder
<1>5. WaitsForChild'
  BY DEF WaitsForChild
<1>6. FirstLoadHasParent'
  BY DEF FirstLoadHasParent, TidsInOrder
<1>7. MutexExclusive'
  BY DEF MutexExclusive, WaitersBlocked
<1>8. WaitersBlocked'
  BY DEF WaitersBlocked, MutexExclusive
<1> QED
  BY <1>1, <1>2, <1>3, <1>4, <1>5, <1>6, <1>7, <1>8

LEMMA ExecInv ==
  ASSUME ProcessInv, NEW t \in Tid, Exec(t)
  PROVE  ProcessInv'
<1> USE ProcessAssumption DEF ProcessInv, TypeOK, Exec, TidsLeft, Goto, Main, TidError,
      familyVars, exitVars, loadVars, memVars, mutexVars
<1>1. TypeOK'
  BY ZenonT(60) DEF Tid, Status, Location
<1>2. TidsInOrder'
  BY DEF TidsInOrder, Tid
<1>3. ExitFlags'
  BY DEF ExitFlags
<1>4. ChildLists'
  BY DEF ChildLists, ExitFlags, TidsInOrder
<1>5. WaitsForChild'
  BY DEF WaitsForChild
<1>6. FirstLoadHasParent'
  BY DEF FirstLoadHasParent, TidsInOrder
<1>7. MutexExclusive'
  BY DEF MutexExclusive, WaitersBlocked
<1>8. WaitersBlocked'
  BY DEF WaitersBlocked, MutexExclusive
<1> QED
  BY <1>1, <1>2, <1>3, <1>4, <1>5, <1>6, <1>7, <1>8

LEMMA CopyNameInv ==
  ASSUME ProcessInv, NEW t \in Tid, CopyName(t)
  PROVE  ProcessInv'
<1> USE ProcessAssumption DEF ProcessInv, TypeOK, CopyName, Goto, Main, TidError,
      familyVars, exitVars, loadVars, memVars, mutexVars
<1>1. TypeOK'
  <2>1. pc' \in [Tid -> Location]
    BY DEF Location
  <2>2. free' \in Nat
    OBVIOUS
  <2> QED
    BY <2>1, <2>2 DEF Status
<1>2. TidsInOrder'
  BY DEF TidsInOrder, Tid
<1>3. ExitFlags'
  BY DEF ExitFlags
<1>4. ChildLists'
  BY DEF ChildLists, ExitFlags, TidsInOrder
<1>5. WaitsForChild'
  BY DEF WaitsForChild
<1>6. FirstLoadHasParent'
  BY DEF FirstLoadHasParent, TidsInOrder
<1>7. MutexExclusive'
  BY DEF MutexExclusive, WaitersBlocked
<1>8. WaitersBlocked'
  BY DEF WaitersBlocked, MutexExclusive
<1> QED
  BY <1>1, <1>2, <1>3, <1>4, <1>5, <1>6, <1>7, <1>8

LEMMA ThreadCreateInv ==
  ASSUME ProcessInv, NEW t \in Tid, ThreadCreate(t)
  PROVE  ProcessInv'
<1> USE ProcessAssumption DEF ProcessInv, TypeOK, Main, TidError,
      familyVars, exitVars, loadVars, memVars, mutexVars
<1>a. /\ pc[t] = "create"
      /\ UNCHANGED <<exitVars, loadVars, pagedir, answer, mutexVars>>
  BY DEF ThreadCreate
<1>b. CASE free = 0
  <2>1. /\ pc' = [pc EXCEPT ![t] = "loading"] /\ tid' = [tid EXCEPT ![t] = TidError]
        /\ UNCHANGED <<free, next_tid, familyVars>>
    BY <1>b DEF ThreadCreate, Goto
  <2>2. TypeOK'
    BY <1>a, <2>1 DEF Location
  <2>3. TidsInOrder' /\ ExitFlags' /\ WaitsForChild'
    BY <1>a, <2>1 DEF TidsInOrder, ExitFlags, WaitsForChild
  <2>4. ChildLists'
    BY <1>a, <2>1 DEF ChildLists
  <2>5. FirstLoadHasParent'
    BY <1>a, <2>1 DEF FirstLoadHasParent
  <2>6. MutexExclusive' /\ WaitersBlocked'
    BY <1>a, <2>1 DEF MutexExclusive, WaitersBlocked
  <2> QED
    BY <2>2, <2>3, <2>4, <2>5, <2>6
<1>c. CASE free > 0
  <2> DEFINE n == next_tid
  <2>1. /\ n \in Tid /\ next_tid' = n + 1 /\ free' = free - 1
        /\ pc' = [pc EXCEPT ![t] = "loading", ![n] = "load"]
        /\ tid' = [tid EXCEPT ![t] = n]
        /\ parent' = [parent EXCEPT ![n] = t]
        /\ children' = [children EXCEPT ![t] = @ \cup {n}]
    BY <1>c DEF ThreadCreate, TidsLeft
  <2>2. /\ pc[n] = "none" /\ n # t /\ t < n
        /\ \A u \in Tid : parent[u] # n
        /\ \A u \in Tid : u >= n + 1 <=> (u >= n /\ u # n)
    BY <1>a, <2>1, SMTT(40) DEF TidsInOrder, Tid
  <2>3. /\ pc' \in [Tid -> Location]
        /\ free' \in Nat
        /\ next_tid' \in 2 .. MaxTid + 1
    <3>1. pc' \in [Tid -> Location]
      BY <2>1 DEF Location
    <3>2. free' \in Nat
      BY <1>c, <2>1
    <3>3. next_tid' \in 2 .. MaxTid + 1
      BY <2>1 DEF Tid
    <3> QED
      BY <3>1, <3>2, <3>3
  <2>4. /\ pc'[t] = "loading" /\ pc'[n] = "load"
        /\ \A u \in Tid : u # t /\ u # n => pc'[u] = pc[u]
    BY <2>1, <2>2
  <2>5. /\ parent'[n] = t /\ \A u \in Tid : u # n => parent'[u] = parent[u]
        /\ tid'[t] = n /\ \A u \in Tid : u # t => tid'[u] = tid[u]
        /\ children'[t] = children[t] \cup {n}
        /\ \A u \in Tid : u # t => children'[u] = children[u]
    BY <2>1, <2>2
  <2>6. TypeOK'
    BY <1>a, <2>1, <2>3
  <2> HIDE DEF n
  <2>7. TidsInOrder'
    <3>1. \A u \in Tid : pc'[u] = "none" <=> u >= n + 1
      BY <1>a, <2>2, <2>4 DEF TidsInOrder, n
    <3>2. \A u \in Tid : parent'[u] < n + 1
      <4>1. n \in Int /\ t \in Int /\ \A u \in Tid : parent[u] \in Int /\ parent[u] < n
        BY <2>1, SMTT(40) DEF TidsInOrder, n, Tid
      <4>2. parent'[n] < n + 1
        BY <2>2, <2>5, <4>1
      <4>3. \A u \in Tid : u # n => parent'[u] < n + 1
        <5> SUFFICES ASSUME NEW u \in Tid, u # n PROVE parent'[u] < n + 1
          OBVIOUS
        <5>1. parent'[u] = parent[u] /\ parent[u] \in Int /\ parent[u] < n
          BY <2>5, <4>1
        <5> QED
          BY <4>1, <5>1
      <4> QED
        BY <4>2, <4>3
    <3> QED
      BY <2>1, <3>1, <3>2 DEF TidsInOrder
  <2>8. ExitFlags'
    BY <1>a, <2>1, <2>2, <2>4 DEF ExitFlags
  <2>9. ChildLists'
    <3>1. ~deleted_from_parent[n] /\ \A p \in Tid : n \notin children[p]
      BY <2>1, <2>2 DEF ExitFlags, ChildLists
    <3> QED
      BY <1>a, <2>1, <2>2, <2>4, <2>5, <3>1 DEF ChildLists
  <2>10. WaitsForChild'
    BY <1>a, <2>1, <2>2, <2>4, <2>5 DEF WaitsForChild
  <2>11. FirstLoadHasParent'
    <3>1. \A c \in Tid : parent[c] = t /\ pc[c] \in {"load", "signal"} => load_finish[t]
      BY <1>a DEF FirstLoadHasParent
    <3> QED
      BY <1>a, <2>1, <2>2, <2>4, <2>5, <3>1 DEF FirstLoadHasParent
  <2>12. MutexExclusive'
    BY ZenonT(60), <1>a, <2>1, <2>2, <2>4 DEF MutexExclusive
  <2>13. WaitersBlocked'
    <3>1. \A i \in 1 .. Len(mutex_waiters) : mutex_waiters[i] \in Tid
      OBVIOUS
    <3>2. \A u \in Tid : pc[u] = "blocked" => pc'[u] = "blocked"
      BY <1>a, <2>2, <2>4
    <3> QED
      BY <1>a, <3>1, <3>2 DEF WaitersBlocked
  <2> QED
    BY <2>6, <2>7, <2>8, <2>9, <2>10, <2>11, <2>12, <2>13
<1> QED
  BY <1>b, <1>c DEF ThreadCreate

LEMMA ExecuteReturnInv ==
  ASSUME ProcessInv, NEW t \in Tid, ExecuteReturn(t)
  PROVE  ProcessInv'
<1> USE ProcessAssumption DEF ProcessInv, TypeOK, ExecuteReturn, Goto, Main, TidError,
      familyVars, exitVars, loadVars, memVars, mutexVars
<1>1. TypeOK'
  <2>1. pc' \in [Tid -> Location]
    BY DEF Location
  <2>2. free' \in Nat
    OBVIOUS
  <2> QED
    BY <2>1, <2>2 DEF Status
<1>2. TidsInOrder'
  BY DEF TidsInOrder, Tid
<1>3. ExitFlags'
  BY DEF ExitFlags
<1>4. ChildLists'
  BY DEF ChildLists, ExitFlags, TidsInOrder
<1>5. WaitsForChild'
  BY DEF WaitsForChild
<1>6. FirstLoadHasParent'
  BY DEF FirstLoadHasParent, TidsInOrder
<1>7. MutexExclusive'
  BY DEF MutexExclusive, WaitersBlocked
<1>8. WaitersBlocked'
  BY DEF WaitersBlocked, MutexExclusive
<1> QED
  BY <1>1, <1>2, <1>3, <1>4, <1>5, <1>6, <1>7, <1>8

LEMMA ExecReturnInv ==
  ASSUME ProcessInv, NEW t \in Tid, ExecReturn(t)
  PROVE  ProcessInv'
<1> USE ProcessAssumption DEF ProcessInv, TypeOK, ExecReturn, Goto, Main, TidError,
      familyVars, exitVars, loadVars, memVars, mutexVars
<1>1. TypeOK'
  BY DEF Tid, Status, Location
<1>2. TidsInOrder'
  BY DEF TidsInOrder, Tid
<1>3. ExitFlags'
  BY DEF ExitFlags
<1>4. ChildLists'
  BY DEF ChildLists, ExitFlags, TidsInOrder
<1>5. WaitsForChild'
  BY DEF WaitsForChild
<1>6. FirstLoadHasParent'
  BY DEF FirstLoadHasParent, TidsInOrder
<1>7. MutexExclusive'
  BY DEF MutexExclusive, WaitersBlocked
<1>8. WaitersBlocked'
  BY DEF WaitersBlocked, MutexExclusive
<1> QED
  BY <1>1, <1>2, <1>3, <1>4, <1>5, <1>6, <1>7, <1>8

LEMMA LoadInv ==
  ASSUME ProcessInv, NEW t \in Tid, Load(t)
  PROVE  ProcessInv'
<1> USE ProcessAssumption DEF ProcessInv, TypeOK, Load, Goto, Main, TidError,
      familyVars, exitVars, loadVars, memVars, mutexVars
<1>1. TypeOK'
  <2>1. pc' \in [Tid -> Location]
    BY DEF Location
  <2>2. child_load_success' \in [Tid -> BOOLEAN]
    OBVIOUS
  <2>3. free' \in Nat
    OBVIOUS
  <2> QED
    BY <2>1, <2>2, <2>3 DEF Status
<1>2. TidsInOrder'
  BY DEF TidsInOrder, Tid
<1>3. ExitFlags'
  BY DEF ExitFlags
<1>4. ChildLists'
  BY DEF ChildLists, ExitFlags, TidsInOrder
<1>5. WaitsForChild'
  BY DEF WaitsForChild
<1>6. FirstLoadHasParent'
  BY DEF FirstLoadHasParent, TidsInOrder
<1>7. MutexExclusive'
  BY DEF MutexExclusive, WaitersBlocked
<1>8. WaitersBlocked'
  BY DEF WaitersBlocked, MutexExclusive
<1> QED
  BY <1>1, <1>2, <1>3, <1>4, <1>5, <1>6, <1>7, <1>8

LEMMA SignalInv ==
  ASSUME ProcessInv, NEW t \in Tid, Signal(t)
  PROVE  ProcessInv'
<1> USE ProcessAssumption DEF ProcessInv, TypeOK, Signal, Goto, Main, TidError,
      familyVars, exitVars, loadVars, memVars, mutexVars
<1>1. TypeOK'
  <2>1. pc' \in [Tid -> Location]
    BY DEF Location
  <2>2. load_finish' \in [Tid -> BOOLEAN]
    OBVIOUS
  <2> QED
    BY <2>1, <2>2 DEF Status
<1>2. TidsInOrder'
  BY DEF TidsInOrder, Tid
<1>3. ExitFlags'
  BY DEF ExitFlags
<1>4. ChildLists'
  BY DEF ChildLists, ExitFlags, TidsInOrder
<1>5. WaitsForChild'
  BY DEF WaitsForChild
<1>6. FirstLoadHasParent'
  BY DEF FirstLoadHasParent, TidsInOrder
<1>7. MutexExclusive'
  BY DEF MutexExclusive, WaitersBlocked
<1>8. WaitersBlocked'
  BY DEF WaitersBlocked, MutexExclusive
<1> QED
  BY <1>1, <1>2, <1>3, <1>4, <1>5, <1>6, <1>7, <1>8

LEMMA StartUserInv ==
  ASSUME ProcessInv, NEW t \in Tid, StartUser(t)
  PROVE  ProcessInv'
<1> USE ProcessAssumption DEF ProcessInv, TypeOK, StartUser, Goto, Main, TidError,
      familyVars, exitVars, loadVars, memVars, mutexVars
<1>1. TypeOK'
  BY DEF Tid, Status, Location
<1>2. TidsInOrder'
  BY DEF TidsInOrder, Tid
<1>3. ExitFlags'
  BY DEF ExitFlags
<1>4. ChildLists'
  BY DEF ChildLists, ExitFlags, TidsInOrder
<1>5. WaitsForChild'
  BY DEF WaitsForChild
<1>6. FirstLoadHasParent'
  BY DEF FirstLoadHasParent, TidsInOrder
<1>7. MutexExclusive'
  BY DEF MutexExclusive, WaitersBlocked
<1>8. WaitersBlocked'
  BY DEF WaitersBlocked, MutexExclusive
<1> QED
  BY <1>1, <1>2, <1>3, <1>4, <1>5, <1>6, <1>7, <1>8

LEMMA ProcessWaitInv ==
  ASSUME ProcessInv, NEW t \in Tid, NEW c \in Tid \cup {TidError}, NEW back \in {"user", "run"},
         pc[t] \in {"user", "result"}, ProcessWait(t, c, back)
  PROVE  ProcessInv'
<1> USE ProcessAssumption DEF ProcessInv, TypeOK, ProcessWait, Goto, Main, TidError,
      familyVars, exitVars, loadVars, memVars, mutexVars
<1>1. TypeOK'
  <2>1. pc' \in [Tid -> Location]
    <3>1. pc \in [Tid -> Location] /\ {"wait", "user", "run"} \subseteq Location
      BY DEF Location
    <3>2. pc' = [pc EXCEPT ![t] = "wait"] \/ pc' = [pc EXCEPT ![t] = back]
      OBVIOUS
    <3> QED
      BY <3>1, <3>2
  <2>2. tid' \in [Tid -> Tid \cup {TidError}] /\ answer' \in [Tid -> Status]
    BY DEF Status
  <2> QED
    BY <2>1, <2>2
<1>2. TidsInOrder'
  <2>1. UNCHANGED <<next_tid, parent>> /\ \A u \in Tid : pc'[u] = "none" <=> pc[u] = "none"
    OBVIOUS
  <2> QED
    BY <2>1 DEF TidsInOrder
<1>3. ExitFlags'
  BY DEF ExitFlags
<1>4. ChildLists'
  BY DEF ChildLists, ExitFlags, TidsInOrder
<1>5. WaitsForChild'
  BY DEF WaitsForChild
<1>6. FirstLoadHasParent'
  BY DEF FirstLoadHasParent, TidsInOrder
<1>7. MutexExclusive'
  BY DEF MutexExclusive, WaitersBlocked
<1>8. WaitersBlocked'
  BY DEF WaitersBlocked, MutexExclusive
<1> QED
  BY <1>1, <1>2, <1>3, <1>4, <1>5, <1>6, <1>7, <1>8

LEMMA CollectInv ==
  ASSUME ProcessInv, NEW t \in Tid, Collect(t)
  PROVE  ProcessInv'
<1> USE ProcessAssumption DEF ProcessInv, TypeOK, Collect, Goto, Main, TidError,
      familyVars, exitVars, loadVars, memVars, mutexVars
<1>1. TypeOK'
  <2>1. pc' \in [Tid -> Location]
    BY DEF Location
  <2>2. tid[t] \in children[t]
    BY DEF WaitsForChild
  <2>3. answer' \in [Tid -> Status] /\ children' \in [Tid -> SUBSET Tid]
    BY <2>2
  <2>4. deleted_from_parent' \in [Tid -> BOOLEAN]
    OBVIOUS
  <2> QED
    BY <2>1, <2>3, <2>4
<1>2. TidsInOrder'
  BY DEF TidsInOrder, Tid
<1>3. ExitFlags'
  BY DEF ExitFlags
<1>4. ChildLists'
  <2>1. tid[t] \in children[t] /\ tid[t] \in Tid /\ tid[t] # t
    BY DEF WaitsForChild, ExitFlags
  <2>2. parent[tid[t]] = t
    BY <2>1 DEF ChildLists
  <2>3. \A c \in Tid : pc'[c] = "none" <=> pc[c] = "none"
    BY <2>1
  <2>4. \A c \in Tid : deleted_from_parent'[c] <=> deleted_from_parent[c] \/ c = tid[t]
    BY <2>1
  <2>5. \A p, c \in Tid :
          c \in children'[p] <=> c \in children[p] /\ ~(p = t /\ c = tid[t])
    BY <2>1
  <2> QED
    BY <2>1, <2>2, <2>3, <2>4, <2>5 DEF ChildLists
<1>5. WaitsForChild'
  BY DEF WaitsForChild
<1>6. FirstLoadHasParent'
  BY DEF FirstLoadHasParent, TidsInOrder
<1>7. MutexExclusive'
  BY DEF MutexExclusive, WaitersBlocked
<1>8. WaitersBlocked'
  BY DEF WaitersBlocked, MutexExclusive
<1> QED
  BY <1>1, <1>2, <1>3, <1>4, <1>5, <1>6, <1>7, <1>8

LEMMA SemaDownInv ==
  ASSUME ProcessInv, NEW t \in Tid, pc[t] \in {"user", "woken"}, SemaDown(t)
  PROVE  ProcessInv'
<1> USE ProcessAssumption DEF ProcessInv, TypeOK, SemaDown, Goto, Main, TidError,
      familyVars, exitVars, loadVars, memVars, mutexVars
<1>1. TypeOK'
  <2>1. pc' \in [Tid -> Location]
    <3>1. pc' = [pc EXCEPT ![t] = "blocked"] \/ pc' = [pc EXCEPT ![t] = "file"]
      OBVIOUS
    <3> QED
      BY <3>1 DEF Location
  <2>2. mutex' \in {0, 1}
    OBVIOUS
  <2>3. mutex_waiters' \in Seq(Tid)
    <3>1. Append(mutex_waiters, t) \in Seq(Tid)
      BY AppendProperties
    <3> QED
      BY <3>1
  <2> QED
    BY <2>1, <2>2, <2>3
<1>2. TidsInOrder'
  BY DEF TidsInOrder, Tid
<1>3. ExitFlags'
  BY DEF ExitFlags
<1>4. ChildLists'
  BY DEF ChildLists, ExitFlags, TidsInOrder
<1>5. WaitsForChild'
  BY DEF WaitsForChild
<1>6. FirstLoadHasParent'
  BY DEF FirstLoadHasParent, TidsInOrder
<1>7. MutexExclusive'
  BY DEF MutexExclusive, WaitersBlocked
<1>8. WaitersBlocked'
  <2>1. CASE mutex = 0
    <3>1. /\ Len(mutex_waiters') = Len(mutex_waiters) + 1
          /\ mutex_waiters'[Len(mutex_waiters) + 1] = t
          /\ \A i \in 1 .. Len(mutex_waiters) : mutex_waiters'[i] = mutex_waiters[i]
      BY <2>1
    <3>2. Len(mutex_waiters) \in Nat
      OBVIOUS
    <3>3. \A i \in 1 .. Len(mutex_waiters) :
            mutex_waiters[i] \in Tid /\ mutex_waiters[i] # t
      BY DEF WaitersBlocked
    <3>4. pc'[t] = "blocked" /\ \A u \in Tid \ {t} : pc'[u] = pc[u]
      BY <2>1
    <3>5. \A i \in 1 .. Len(mutex_waiters') :
            i \in 1 .. Len(mutex_waiters) \/ i = Len(mutex_waiters) + 1
      BY <3>1, <3>2
    <3>6. \A i \in 1 .. Len(mutex_waiters') : pc'[mutex_waiters'[i]] = "blocked"
      BY <3>1, <3>3, <3>4, <3>5 DEF WaitersBlocked
    <3>7. \A i, j \in 1 .. Len(mutex_waiters') :
            mutex_waiters'[i] = mutex_waiters'[j] => i = j
      BY <3>1, <3>3, <3>5 DEF WaitersBlocked
    <3> QED
      BY <3>6, <3>7 DEF WaitersBlocked
  <2>2. CASE mutex # 0
    <3>1. UNCHANGED mutex_waiters /\ \A u \in Tid \ {t} : pc'[u] = pc[u]
      BY <2>2
    <3>2. \A i \in 1 .. Len(mutex_waiters) :
            mutex_waiters[i] \in Tid /\ mutex_waiters[i] # t
      BY DEF WaitersBlocked
    <3> QED
      BY <3>1, <3>2 DEF WaitersBlocked
  <2> QED
    BY <2>1, <2>2
<1> QED
  BY <1>1, <1>2, <1>3, <1>4, <1>5, <1>6, <1>7, <1>8

LEMMA FileReturnInv ==
  ASSUME ProcessInv, NEW t \in Tid, FileReturn(t)
  PROVE  ProcessInv'
<1> USE ProcessAssumption DEF ProcessInv, TypeOK, Main, TidError,
      familyVars, exitVars, loadVars, memVars, mutexVars
<1>a. pc[t] = "file" /\ mutex = 0 /\ mutex' = 1
  BY DEF FileReturn, MutexExclusive
<1>b. CASE mutex_waiters = <<>>
  <2>1. /\ pc' = [pc EXCEPT ![t] = "user"] /\ UNCHANGED mutex_waiters
        /\ UNCHANGED <<next_tid, familyVars, exitVars, loadVars, memVars, tid, answer>>
    BY <1>b DEF FileReturn, Goto
  <2>2. TypeOK'
    BY <1>a, <2>1 DEF Location
  <2>3. TidsInOrder' /\ ExitFlags' /\ WaitsForChild'
    BY <1>a, <2>1 DEF TidsInOrder, ExitFlags, WaitsForChild
  <2>4. ChildLists' /\ FirstLoadHasParent'
    BY <1>a, <2>1 DEF ChildLists, FirstLoadHasParent
  <2>5. MutexExclusive' /\ WaitersBlocked'
    BY <1>a, <1>b, <2>1 DEF MutexExclusive, WaitersBlocked
  <2> QED
    BY <2>2, <2>3, <2>4, <2>5
<1>c. CASE mutex_waiters # <<>>
  <2> DEFINE h == Head(mutex_waiters)
  <2>1. /\ h = mutex_waiters[1] /\ h \in Tid /\ Len(mutex_waiters) \in Nat \ {0}
        /\ mutex_waiters' = Tail(mutex_waiters) /\ mutex_waiters' \in Seq(Tid)
        /\ Len(mutex_waiters') = Len(mutex_waiters) - 1
        /\ \A i \in 1 .. Len(mutex_waiters') : mutex_waiters'[i] = mutex_waiters[i + 1]
    <3>1. mutex_waiters' = Tail(mutex_waiters)
      BY <1>c DEF FileReturn
    <3>2. /\ h \in Tid /\ Tail(mutex_waiters) \in Seq(Tid)
          /\ Len(Tail(mutex_waiters)) = Len(mutex_waiters) - 1
          /\ \A i \in 1 .. Len(Tail(mutex_waiters)) :
                Tail(mutex_waiters)[i] = mutex_waiters[i + 1]
      BY <1>c, HeadTailProperties
    <3>3. h = mutex_waiters[1] /\ Len(mutex_waiters) \in Nat \ {0}
      BY <1>c
    <3> QED
      BY <3>1, <3>2, <3>3
  <2>2. pc[h] = "blocked" /\ h # t
    BY <1>a, <2>1 DEF WaitersBlocked
  <2>3. UNCHANGED <<next_tid, familyVars, exitVars, loadVars, memVars, tid, answer>>
    BY DEF FileReturn
  <2>4. pc' = [pc EXCEPT ![t] = "user", ![h] = "woken"]
    BY <1>c DEF FileReturn
  <2>5. pc' \in [Tid -> Location]
    BY <2>1, <2>4 DEF Location
  <2> HIDE DEF h
  <2>6. /\ pc'[t] = "user" /\ pc'[h] = "woken"
        /\ \A u \in Tid : u # t /\ u # h => pc'[u] = pc[u]
    BY <2>1, <2>2, <2>4
  <2>7. TypeOK'
    BY <1>a, <2>1, <2>3, <2>5
  <2>0. /\ \A u \in Tid : pc'[u] \notin {"user", "woken"} => pc'[u] = pc[u]
        /\ \A u \in Tid : pc[u] \notin {"file", "blocked"} => pc'[u] = pc[u]
    BY <1>a, <2>1, <2>2, <2>6
  <2>8. TidsInOrder' /\ ExitFlags'
    BY <2>0, <2>3 DEF TidsInOrder, ExitFlags
  <2>9. WaitsForChild'
    BY <2>0, <2>3 DEF WaitsForChild
  <2>10. ChildLists' /\ FirstLoadHasParent'
    <3>1. ChildLists'
      BY <2>0, <2>3 DEF ChildLists
    <3>2. FirstLoadHasParent'
      BY <2>0, <2>3 DEF FirstLoadHasParent
    <3> QED
      BY <3>1, <3>2
  <2>11. MutexExclusive'
    BY <1>a, <2>1, <2>2, <2>6 DEF MutexExclusive
  <2>12. WaitersBlocked'
    <3>1. \A i \in 1 .. Len(mutex_waiters') :
            /\ i + 1 \in 1 .. Len(mutex_waiters) /\ i + 1 # 1
            /\ mutex_waiters'[i] = mutex_waiters[i + 1]
      BY <2>1
    <3>2. \A i \in 1 .. Len(mutex_waiters) : mutex_waiters[i] \in Tid
      OBVIOUS
    <3>3. \A i \in 1 .. Len(mutex_waiters') : mutex_waiters'[i] # h /\ mutex_waiters'[i] # t
      BY <1>a, <2>1, <3>1 DEF WaitersBlocked
    <3>4. \A i \in 1 .. Len(mutex_waiters') : pc'[mutex_waiters'[i]] = "blocked"
      BY <2>6, <3>1, <3>2, <3>3 DEF WaitersBlocked
    <3>5. ASSUME NEW i \in 1 .. Len(mutex_waiters'), NEW j \in 1 .. Len(mutex_waiters'),
                 mutex_waiters'[i] = mutex_waiters'[j]
          PROVE  i = j
      <4>1. i + 1 = j + 1
        BY <3>1, <3>5 DEF WaitersBlocked
      <4> QED
        BY <4>1
    <3> QED
      BY <3>4, <3>5 DEF WaitersBlocked
  <2> QED
    BY <2>7, <2>8, <2>9, <2>10, <2>11, <2>12
<1> QED
  BY <1>b, <1>c

LEMMA ExitWithInv ==
  ASSUME ProcessInv, NEW t \in Tid, NEW s \in Status, pc[t] \in {"user", "file", "create"}, ExitWith(t, s)
  PROVE  ProcessInv'
<1> USE ProcessAssumption DEF ProcessInv, TypeOK, ExitWith, Goto, Main, TidError,
      familyVars, exitVars, loadVars, memVars, mutexVars
<1>1. TypeOK'
  BY DEF Tid, Status, Location
<1>2. TidsInOrder'
  BY DEF TidsInOrder, Tid
<1>3. ExitFlags'
  BY DEF ExitFlags
<1>4. ChildLists'
  BY DEF ChildLists, ExitFlags, TidsInOrder
<1>5. WaitsForChild'
  BY DEF WaitsForChild
<1>6. FirstLoadHasParent'
  BY DEF FirstLoadHasParent, TidsInOrder
<1>7. MutexExclusive'
  BY DEF MutexExclusive, WaitersBlocked
<1>8. WaitersBlocked'
  BY DEF WaitersBlocked, MutexExclusive
<1> QED
  BY <1>1, <1>2, <1>3, <1>4, <1>5, <1>6, <1>7, <1>8

LEMMA ThreadExitInv ==
  ASSUME ProcessInv, NEW t \in Tid, pc[t] \in {"run", "user", "exit"}, ThreadExit(t)
  PROVE  ProcessInv'
<1> USE ProcessAssumption DEF ProcessInv, TypeOK, ThreadExit, Goto, Main, TidError,
      familyVars, exitVars, loadVars, memVars, mutexVars
<1>1. TypeOK'
  BY DEF Tid, Status, Location
<1>2. TidsInOrder'
  BY DEF TidsInOrder, Tid
<1>3. ExitFlags'
  BY DEF ExitFlags
<1>4. ChildLists'
  BY DEF ChildLists, ExitFlags, TidsInOrder
<1>5. WaitsForChild'
  BY DEF WaitsForChild
<1>6. FirstLoadHasParent'
  BY DEF FirstLoadHasParent, TidsInOrder
<1>7. MutexExclusive'
  BY DEF MutexExclusive, WaitersBlocked
<1>8. WaitersBlocked'
  BY DEF WaitersBlocked, MutexExclusive
<1> QED
  BY <1>1, <1>2, <1>3, <1>4, <1>5, <1>6, <1>7, <1>8

LEMMA ProcessExitInv ==
  ASSUME ProcessInv, NEW t \in Tid, ProcessExit(t)
  PROVE  ProcessInv'
<1> USE ProcessAssumption DEF ProcessInv, TypeOK, ProcessExit, Goto, Main, TidError,
      familyVars, exitVars, loadVars, memVars, mutexVars
<1>1. TypeOK'
  BY DEF Tid, Status, Location
<1>2. TidsInOrder'
  BY DEF TidsInOrder, Tid
<1>3. ExitFlags'
  BY DEF ExitFlags
<1>4. ChildLists'
  BY DEF ChildLists, ExitFlags, TidsInOrder
<1>5. WaitsForChild'
  BY DEF WaitsForChild
<1>6. FirstLoadHasParent'
  BY DEF FirstLoadHasParent, TidsInOrder
<1>7. MutexExclusive'
  BY DEF MutexExclusive, WaitersBlocked
<1>8. WaitersBlocked'
  BY DEF WaitersBlocked, MutexExclusive
<1> QED
  BY <1>1, <1>2, <1>3, <1>4, <1>5, <1>6, <1>7, <1>8

LEMMA DestroyInv ==
  ASSUME ProcessInv, NEW t \in Tid, Destroy(t)
  PROVE  ProcessInv'
<1> USE ProcessAssumption DEF ProcessInv, TypeOK, Destroy, Goto, Main, TidError,
      familyVars, exitVars, loadVars, memVars, mutexVars
<1>1. TypeOK'
  BY DEF Tid, Status, Location
<1>2. TidsInOrder'
  BY DEF TidsInOrder, Tid
<1>3. ExitFlags'
  BY DEF ExitFlags
<1>4. ChildLists'
  BY DEF ChildLists, ExitFlags, TidsInOrder
<1>5. WaitsForChild'
  BY DEF WaitsForChild
<1>6. FirstLoadHasParent'
  BY DEF FirstLoadHasParent, TidsInOrder
<1>7. MutexExclusive'
  BY DEF MutexExclusive, WaitersBlocked
<1>8. WaitersBlocked'
  BY DEF WaitersBlocked, MutexExclusive
<1> QED
  BY <1>1, <1>2, <1>3, <1>4, <1>5, <1>6, <1>7, <1>8

LEMMA StutterInv == ProcessInv /\ UNCHANGED vars => ProcessInv'
BY DEF vars, familyVars, exitVars, loadVars, memVars, mutexVars, ProcessInv, TypeOK,
   TidsInOrder, ExitFlags, ChildLists, WaitsForChild, FirstLoadHasParent,
   MutexExclusive, WaitersBlocked

LEMMA NextInv == ProcessInv /\ [Next]_vars => ProcessInv'
<1> SUFFICES ASSUME ProcessInv, Next PROVE ProcessInv'
  BY StutterInv
<1>1. CASE RunTask
  BY <1>1, RunTaskInv
<1>2. CASE TaskWait
  <2>1. Main \in Tid /\ tid[Main] \in Tid \cup {TidError}
    BY ProcessAssumption DEF ProcessInv, TypeOK, Tid, Main
  <2> QED
    BY <1>2, <2>1, ProcessWaitInv DEF TaskWait
<1>3. CASE MainExit
  <2>1. Main \in Tid
    BY ProcessAssumption DEF Tid, Main
  <2> QED
    BY <1>3, <2>1, ThreadExitInv DEF MainExit
<1>4. ASSUME NEW t \in Tid, User(t)
      PROVE  ProcessInv'
  <2>1. CASE Exec(t)
    BY <2>1, ExecInv
  <2>2. CASE Wait(t)
    BY <2>2, ProcessWaitInv DEF Wait
  <2>3. CASE FileCall(t)
    BY <2>3, SemaDownInv DEF FileCall
  <2>4. CASE Exit(t)
    BY <2>4, ExitWithInv DEF Exit, Status
  <2>5. CASE PageFault(t) \/ CopyFault(t)
    BY <2>5, ExitWithInv DEF PageFault, CopyFault, Status
  <2>6. CASE Kill(t)
    BY <2>6, ThreadExitInv DEF Kill
  <2> QED
    BY <1>4, <2>1, <2>2, <2>3, <2>4, <2>5, <2>6 DEF User
<1>5. ASSUME NEW t \in Tid, Kernel(t)
      PROVE  ProcessInv'
  <2>1. CASE CopyName(t) \/ ThreadCreate(t) \/ ExecuteReturn(t) \/ ExecReturn(t)
    BY <2>1, CopyNameInv, ThreadCreateInv, ExecuteReturnInv, ExecReturnInv
  <2>2. CASE Load(t) \/ Signal(t) \/ StartUser(t) \/ Collect(t)
    BY <2>2, LoadInv, SignalInv, StartUserInv, CollectInv
  <2>3. CASE FileCallAgain(t)
    BY <2>3, SemaDownInv DEF FileCallAgain
  <2>4. CASE ExitDone(t)
    BY <2>4, ThreadExitInv DEF ExitDone
  <2>5. CASE FileReturn(t) \/ ProcessExit(t) \/ Destroy(t)
    BY <2>5, FileReturnInv, ProcessExitInv, DestroyInv
  <2> QED
    BY <1>5, <2>1, <2>2, <2>3, <2>4, <2>5 DEF Kernel
<1> QED
  BY <1>1, <1>2, <1>3, <1>4, <1>5 DEF Next

\* ProcessInv holds in every state: what the steps rely on is always there.
THEOREM ProcessInvariance == Spec => []ProcessInv
BY InitInv, NextInv, PTL DEF Spec

\* The flags and lists of the struct threads keep their types, and there is
\* never a negative number of free pages.
THEOREM ProcessTypes == Spec => []TypeOK
<1>1. ProcessInv => TypeOK
  BY DEF ProcessInv
<1> QED
  BY <1>1, ProcessInvariance, PTL

\* thread_create() and process_wait() keep the child lists and
\* deleted_from_parent in step.
THEOREM ChildListsKept == Spec => []ChildLists
<1>1. ProcessInv => ChildLists
  BY DEF ProcessInv
<1> QED
  BY <1>1, ProcessInvariance, PTL

\* process_wait() never polls a struct thread whose page was freed.
THEOREM WaitIsSafe == Spec => []WaitedChildExists
<1>1. ProcessInv => WaitedChildExists
  BY DEF ProcessInv, TypeOK, WaitsForChild, WaitedChildExists, ChildLists, ExitFlags,
         Exists
<1> QED
  BY <1>1, ProcessInvariance, PTL

\* The first child of a thread reports its load to a parent that is waiting for
\* that report in process_execute().
THEOREM FirstLoadIsSafe == Spec => []FirstLoadHasParent
<1>1. ProcessInv => FirstLoadHasParent
  BY DEF ProcessInv
<1> QED
  BY <1>1, ProcessInvariance, PTL

\* At most one thread is inside open(), read() or write(), and the mutex is not
\* free while all its waiters sleep.
THEOREM MutexIsSafe == Spec => []MutexExclusive
<1>1. ProcessInv => MutexExclusive
  BY DEF ProcessInv
<1> QED
  BY <1>1, ProcessInvariance, PTL

-----------------------------------------------------------------------------
(* Process implements WaitContract *)

LEMMA ContractInit == Init => Contract!Init
BY ProcessAssumption DEF Init, Contract!Init, Life, Tid, Main

\* A step that moves no thread in or out of existence, touches no flag of
\* thread_exit() and returns from no process_wait() is none of the contract.
LEMMA QuietStep ==
  ASSUME TypeOK, UNCHANGED <<parent, answer, ready_to_exit, deleted_from_parent>>,
         \A t \in Tid : pc'[t] = "none" <=> pc[t] = "none",
         \A t \in Tid : ready_to_exit[t] => exit_status'[t] = exit_status[t]
  PROVE  UNCHANGED Contract!contractVars
BY DEF Contract!contractVars, Life

LEMMA LifeRunning ==
  ASSUME ProcessInv, NEW t \in Tid, pc[t] \notin {"none", "zombie", "dying", "dead"}
  PROVE  Life(t) = "running"
BY DEF ProcessInv, ExitFlags, Life

LEMMA LifeUncollected ==
  ASSUME ProcessInv, NEW t \in Tid, NEW c \in Tid \cup {TidError}
  PROVE  Contract!Uncollected(t, c) <=> c \in children[t]
<1>1. CASE c \in Tid
  <2>1. Life(c) \in {"running", "exited"} <=> pc[c] # "none" /\ ~deleted_from_parent[c]
    BY DEF Life
  <2> QED
    BY <1>1, <2>1 DEF Contract!Uncollected, ProcessInv, ChildLists
<1>2. CASE c \notin Tid
  BY <1>2 DEF Contract!Uncollected, ProcessInv, TypeOK
<1> QED
  BY <1>1, <1>2

LEMMA SpawnStep ==
  ASSUME ProcessInv, NEW t \in Tid, ThreadCreate(t)
  PROVE  Contract!Next \/ UNCHANGED Contract!contractVars
<1> USE DEF familyVars, exitVars, loadVars, mutexVars, ProcessInv, TypeOK
<1>1. CASE free = 0
  <2>1. pc[t] = "create" /\ pc' = [pc EXCEPT ![t] = "loading"] /\ UNCHANGED parent
    BY <1>1 DEF ThreadCreate, Goto
  <2>2. UNCHANGED <<answer, exitVars>>
    BY DEF ThreadCreate
  <2> QED
    BY <2>1, <2>2, QuietStep
<1>2. CASE free > 0
  <2>0. PICK n \in Tid : n = next_tid
    BY <1>2 DEF ThreadCreate, TidsLeft
  <2>1. /\ pc[t] = "create"
        /\ pc' = [pc EXCEPT ![t] = "loading", ![n] = "load"]
        /\ parent' = [parent EXCEPT ![n] = t]
        /\ UNCHANGED <<answer, exitVars>>
    BY <1>2, <2>0 DEF ThreadCreate
  <2>2. pc[n] = "none" /\ n # t /\ ~deleted_from_parent[n] /\ ~ready_to_exit[n]
    BY <2>0, <2>1, ProcessAssumption, SMTT(40) DEF TidsInOrder, ExitFlags, Tid
  <2>3. Life(t) = "running" /\ Life(n) = "unborn" /\ Life(n)' = "running"
    BY <2>1, <2>2, LifeRunning DEF Life
  <2>4. \A u \in Tid : u # n => Life(u)' = Life(u)
    BY <2>1, <2>2 DEF Life
  <2>5. Contract!Spawn(t, n)
    BY <2>1, <2>3, <2>4 DEF Contract!Spawn
  <2> QED
    BY <2>1, <2>5 DEF Contract!Next
<1> QED
  BY <1>1, <1>2 DEF ThreadCreate

\* thread_exit() up to its loop, or the failed start_process() that calls it.
LEMMA ExitStep ==
  ASSUME ProcessInv, NEW t \in Tid,
         pc[t] \notin {"none", "zombie", "dying", "dead"},
         pc' = [pc EXCEPT ![t] = "zombie"],
         ready_to_exit' = [ready_to_exit EXCEPT ![t] = TRUE],
         UNCHANGED <<parent, answer, exit_status, deleted_from_parent>>
  PROVE  Contract!Next
<1> USE DEF ProcessInv, TypeOK
<1>1. ~ready_to_exit[t] /\ ~deleted_from_parent[t]
  BY DEF ExitFlags
<1>2. Life(t) = "running" /\ Life(t)' = "exited"
  BY <1>1, LifeRunning DEF Life
<1>3. \A u \in Tid : u # t => Life(u)' = Life(u)
  BY DEF Life
<1>4. PICK s \in Status : s = exit_status[t]
  OBVIOUS
<1>5. Contract!Exit(t, s)
  BY <1>1, <1>2, <1>3, <1>4 DEF Contract!Exit
<1> QED
  BY <1>5 DEF Contract!Next

LEMMA CollectStep ==
  ASSUME ProcessInv, NEW t \in Tid, Collect(t)
  PROVE  Contract!Next
<1> USE DEF ProcessInv, TypeOK
<1>0. PICK c \in Tid : c = tid[t] /\ c \in children[t]
  BY DEF Collect, WaitsForChild
<1>1. /\ pc[t] = "wait" /\ ready_to_exit[c]
      /\ pc' = [pc EXCEPT ![t] = IF t = Main THEN "run" ELSE "user"]
      /\ answer' = [answer EXCEPT ![t] = exit_status[c]]
      /\ deleted_from_parent' = [deleted_from_parent EXCEPT ![c] = TRUE]
      /\ UNCHANGED <<parent, exit_status, ready_to_exit>>
  BY <1>0 DEF Collect, Goto
<1>2. Life(t) = "running" /\ Contract!Uncollected(t, c)
  BY <1>0, <1>1, LifeRunning, LifeUncollected
<1>3. pc[c] # "none" /\ ~deleted_from_parent[c] /\ c # t
  BY <1>0, <1>1 DEF ChildLists, ExitFlags
<1>4. Life(c) = "exited" /\ Life(c)' = "collected"
  BY <1>1, <1>3 DEF Life
<1>5. \A u \in Tid : u # c => Life(u)' = Life(u)
  BY <1>1 DEF Life
<1>6. Contract!Collect(t, c)
  BY <1>1, <1>2, <1>4, <1>5 DEF Contract!Collect
<1> QED
  BY <1>6 DEF Contract!Next

LEMMA ProcessWaitStep ==
  ASSUME ProcessInv, NEW t \in Tid, NEW c \in Tid \cup {TidError},
         NEW back \in {"user", "run"}, pc[t] \in {"user", "result"},
         ProcessWait(t, c, back)
  PROVE  Contract!Next \/ UNCHANGED Contract!contractVars
<1> USE DEF ProcessInv, TypeOK, familyVars, exitVars
<1>1. /\ UNCHANGED <<parent, exitVars>>
      /\ \A u \in Tid : pc'[u] = "none" <=> pc[u] = "none"
  BY DEF ProcessWait, Goto
<1>2. CASE c \in children[t]
  <2>1. UNCHANGED answer
    BY <1>2 DEF ProcessWait
  <2> QED
    BY <1>1, <2>1, QuietStep
<1>3. CASE c \notin children[t]
  <2>1. answer' = [answer EXCEPT ![t] = -1]
    BY <1>3 DEF ProcessWait
  <2>2. Life(t) = "running" /\ ~Contract!Uncollected(t, c)
    BY <1>3, LifeRunning, LifeUncollected
  <2>3. \A u \in Tid : Life(u)' = Life(u)
    BY <1>1 DEF Life
  <2>4. Contract!Refuse(t, c)
    BY <1>1, <2>1, <2>2, <2>3 DEF Contract!Refuse
  <2> QED
    BY <2>4 DEF Contract!Next
<1> QED
  BY <1>2, <1>3

\* Steps inside exec, load, the file system calls and exit.
LEMMA SilentSteps ==
  ASSUME ProcessInv, NEW t \in Tid,
         \/ Exec(t) \/ CopyName(t) \/ ExecuteReturn(t) \/ ExecReturn(t)
         \/ Load(t) \/ Signal(t) \/ ProcessExit(t) \/ Destroy(t)
  PROVE  UNCHANGED Contract!contractVars
<1> USE DEF ProcessInv, TypeOK, familyVars, exitVars, Goto
<1>1. UNCHANGED <<parent, answer, exitVars>>
  BY DEF Exec, CopyName, ExecuteReturn, ExecReturn, Load, Signal, ProcessExit, Destroy
<1>2. pc[t] # "none" /\ \E l \in Location \ {"none"} : pc' = [pc EXCEPT ![t] = l]
  <2>1. CASE Exec(t) \/ CopyName(t) \/ ExecuteReturn(t) \/ ExecReturn(t)
    BY <2>1 DEF Exec, CopyName, ExecuteReturn, ExecReturn, Location
  <2>2. CASE Load(t) \/ Signal(t) \/ ProcessExit(t) \/ Destroy(t)
    BY <2>2 DEF Load, Signal, ProcessExit, Destroy, Location
  <2> QED
    BY <2>1, <2>2
<1>3. \A u \in Tid : pc'[u] = "none" <=> pc[u] = "none"
  BY <1>2
<1> QED
  BY <1>1, <1>3, QuietStep

LEMMA FileSteps ==
  ASSUME ProcessInv, NEW t \in Tid,
         FileCall(t) \/ FileCallAgain(t) \/ FileReturn(t)
  PROVE  UNCHANGED Contract!contractVars
<1> USE DEF ProcessInv, TypeOK, familyVars, exitVars, Goto
<1>1. UNCHANGED <<parent, answer, exitVars>>
  BY DEF FileCall, FileCallAgain, SemaDown, FileReturn
<1>2. \A u \in Tid : pc'[u] = "none" <=> pc[u] = "none"
  <2>1. CASE FileCall(t) \/ FileCallAgain(t)
    BY <2>1 DEF FileCall, FileCallAgain, SemaDown
  <2>2. CASE FileReturn(t) /\ mutex_waiters = <<>>
    BY <2>2 DEF FileReturn
  <2>3. CASE FileReturn(t) /\ mutex_waiters # <<>>
    <3>1. Head(mutex_waiters) \in Tid /\ pc[Head(mutex_waiters)] = "blocked"
      BY <2>3 DEF WaitersBlocked
    <3> QED
      BY <2>3, <3>1 DEF FileReturn
  <2> QED
    BY <2>1, <2>2, <2>3
<1> QED
  BY <1>1, <1>2, QuietStep

LEMMA ExitWithStep ==
  ASSUME ProcessInv, NEW t \in Tid, NEW s \in Status, pc[t] \in {"user", "file", "create"},
         ExitWith(t, s)
  PROVE  UNCHANGED Contract!contractVars
<1> USE DEF ProcessInv, TypeOK, familyVars, exitVars, Goto
<1>1. UNCHANGED <<parent, answer, ready_to_exit, deleted_from_parent>>
  BY DEF ExitWith
<1>2. \A u \in Tid : pc'[u] = "none" <=> pc[u] = "none"
  BY DEF ExitWith
<1>3. \A u \in Tid : ready_to_exit[u] => exit_status'[u] = exit_status[u]
  BY DEF ExitWith, ExitFlags
<1> QED
  BY <1>1, <1>2, <1>3, QuietStep

LEMMA ThreadExitStep ==
  ASSUME ProcessInv, NEW t \in Tid, pc[t] \in {"run", "user", "exit"}, ThreadExit(t)
  PROVE  Contract!Next
BY ExitStep DEF ThreadExit, Goto, familyVars

LEMMA StartUserStep ==
  ASSUME ProcessInv, NEW t \in Tid, StartUser(t)
  PROVE  Contract!Next \/ UNCHANGED Contract!contractVars
<1> USE DEF ProcessInv, TypeOK, familyVars, Goto
<1>1. /\ pc[t] = "copied" /\ ~ready_to_exit[t]
      /\ UNCHANGED <<parent, answer, exit_status, deleted_from_parent>>
  BY DEF StartUser, ExitFlags
<1>2. CASE success[t]
  <2>1. pc' = [pc EXCEPT ![t] = "user"] /\ UNCHANGED ready_to_exit
    BY <1>1, <1>2 DEF StartUser
  <2> QED
    BY <1>1, <2>1, QuietStep
<1>3. CASE ~success[t]
  <2>1. /\ pc' = [pc EXCEPT ![t] = "zombie"]
        /\ ready_to_exit' = [ready_to_exit EXCEPT ![t] = TRUE]
    BY <1>3 DEF StartUser
  <2> QED
    BY <1>1, <2>1, ExitStep
<1> QED
  BY <1>2, <1>3

LEMMA ContractStep == ProcessInv /\ [Next]_vars => [Contract!Next]_(Contract!contractVars)
<1>1. ASSUME ProcessInv, UNCHANGED vars
      PROVE  UNCHANGED Contract!contractVars
  BY <1>1, QuietStep DEF vars, familyVars, exitVars, ProcessInv
<1> SUFFICES ASSUME ProcessInv, Next
             PROVE  Contract!Next \/ UNCHANGED Contract!contractVars
  BY <1>1
<1> Main \in Tid /\ tid[Main] \in Tid \cup {TidError}
  BY ProcessAssumption DEF ProcessInv, TypeOK, Tid, Main
<1>2. CASE RunTask
  <2>1. /\ UNCHANGED <<parent, answer, exitVars>>
        /\ \A u \in Tid : pc'[u] = "none" <=> pc[u] = "none"
    BY <1>2 DEF RunTask, Goto, familyVars, ProcessInv, TypeOK
  <2> QED
    BY <2>1, QuietStep DEF ProcessInv, exitVars
<1>3. CASE TaskWait
  BY <1>3, ProcessWaitStep DEF TaskWait
<1>4. CASE MainExit
  BY <1>4, ThreadExitStep DEF MainExit
<1>5. ASSUME NEW t \in Tid, User(t)
      PROVE  Contract!Next \/ UNCHANGED Contract!contractVars
  <2>1. CASE Exec(t) \/ FileCall(t)
    BY <2>1, SilentSteps, FileSteps
  <2>2. CASE Wait(t)
    BY <2>2, ProcessWaitStep DEF Wait
  <2>3. CASE Exit(t) \/ PageFault(t) \/ CopyFault(t)
    BY <2>3, ExitWithStep DEF Exit, PageFault, CopyFault, Status
  <2>4. CASE Kill(t)
    BY <2>4, ThreadExitStep DEF Kill
  <2> QED
    BY <1>5, <2>1, <2>2, <2>3, <2>4 DEF User
<1>6. ASSUME NEW t \in Tid, Kernel(t)
      PROVE  Contract!Next \/ UNCHANGED Contract!contractVars
  <2>1. CASE \/ CopyName(t) \/ ExecuteReturn(t) \/ ExecReturn(t)
             \/ Load(t) \/ Signal(t) \/ ProcessExit(t) \/ Destroy(t)
    BY <2>1, SilentSteps
  <2>2. CASE FileCallAgain(t) \/ FileReturn(t)
    BY <2>2, FileSteps
  <2>3. CASE ThreadCreate(t) \/ StartUser(t) \/ Collect(t)
    BY <2>3, SpawnStep, StartUserStep, CollectStep
  <2>4. CASE ExitDone(t)
    BY <2>4, ThreadExitStep DEF ExitDone
  <2> QED
    BY <1>6, <2>1, <2>2, <2>3, <2>4 DEF Kernel
<1> QED
  BY <1>2, <1>3, <1>4, <1>5, <1>6 DEF Next

\* The flags in the struct threads implement what process_wait() promises: each
\* status reaches the parent, once, and only after the process has ended.
THEOREM ImplementsContract == Spec => WaitKeepsContract
BY ContractInit, ContractStep, ProcessInvariance, PTL
   DEF Spec, WaitKeepsContract, Contract!Spec
-----------------------------------------------------------------------------
(* The pages of the kernel pool *)

\* Three families of pages are counted family by family.
LEMMA TaggedCount ==
  ASSUME NEW S, IsFiniteSet(S), NEW tag
  PROVE  LET P == {<<tag, x>> : x \in S}
         IN  IsFiniteSet(P) /\ Cardinality(P) = Cardinality(S)
<1> DEFINE P == {<<tag, x>> : x \in S}
           f == [x \in S |-> <<tag, x>>]
<1>1. f \in [S -> P]
  OBVIOUS
<1>2. \A x, y \in S : f[x] = f[y] => x = y
  OBVIOUS
<1>3. \A p \in P : \E x \in S : f[x] = p
  OBVIOUS
<1> HIDE DEF P, f
<1>4. f \in Bijection(S, P)
  BY <1>1, <1>2, <1>3 DEF Bijection, Injection, Surjection, IsInjective
<1>5. ExistsBijection(S, P)
  BY <1>4 DEF ExistsBijection
<1>6. IsFiniteSet(P) /\ Cardinality(P) = Cardinality(S)
  BY <1>5, FS_Bijection
<1> QED
  BY <1>6 DEF P

LEMMA FamiliesCount ==
  ASSUME NEW S, IsFiniteSet(S), NEW D, IsFiniteSet(D), NEW C, IsFiniteSet(C)
  PROVE  Cardinality({<<"struct", t>> : t \in S} \cup {<<"pagedir", t>> : t \in D}
                     \cup {<<"fn_copy", t>> : t \in C})
           = Cardinality(S) + Cardinality(D) + Cardinality(C)
<1> DEFINE A == {<<"struct", t>> : t \in S}
           B == {<<"pagedir", t>> : t \in D}
           F == {<<"fn_copy", t>> : t \in C}
<1>1. /\ IsFiniteSet(A) /\ Cardinality(A) = Cardinality(S)
      /\ IsFiniteSet(B) /\ Cardinality(B) = Cardinality(D)
      /\ IsFiniteSet(F) /\ Cardinality(F) = Cardinality(C)
  BY TaggedCount
<1>2. A \cap B = {} /\ (A \cup B) \cap F = {}
  OBVIOUS
<1> HIDE DEF A, B, F
<1>3. IsFiniteSet(A \cup B)
      /\ Cardinality(A \cup B) = Cardinality(A) + Cardinality(B) - Cardinality({})
  BY <1>1, <1>2, FS_Union
<1>4. Cardinality((A \cup B) \cup F)
        = Cardinality(A \cup B) + Cardinality(F) - Cardinality({})
  BY <1>1, <1>2, <1>3, FS_Union
<1>5. /\ Cardinality({}) = 0 /\ Cardinality(S) \in Nat /\ Cardinality(D) \in Nat
      /\ Cardinality(C) \in Nat
  BY FS_EmptySet, FS_CardinalityType
<1>6. Cardinality((A \cup B) \cup F) = Cardinality(S) + Cardinality(D) + Cardinality(C)
  BY <1>1, <1>3, <1>4, <1>5
<1> QED
  BY <1>6 DEF A, B, F

\* The threads that hold a struct thread, a page directory, a copied command line.
Structs  == {t \in Tid \ {Main} : Exists(t)}
Pagedirs == {t \in Tid : pagedir[t]}
Copies   == {t \in Tid : \/ pc[t] \in {"load", "signal", "copied", "create"}
                         \/ pc[t] = "loading" /\ tid[t] = TidError}

LEMMA TidsFinite ==
  ASSUME NEW S \in SUBSET Tid
  PROVE  IsFiniteSet(S) /\ Cardinality(S) \in Nat
<1>1. MaxTid \in Int /\ 1 \in Int
  BY ProcessAssumption
<1>2. IsFiniteSet(Tid)
  BY <1>1, FS_Interval DEF Tid
<1>3. IsFiniteSet(S)
  BY <1>2, FS_Subset
<1> QED
  BY <1>3, FS_CardinalityType

LEMMA PagesCount ==
  PagesAccounted <=>
    free + (Cardinality(Structs) + Cardinality(Pagedirs) + Cardinality(Copies)) = Pages
<1>1. IsFiniteSet(Structs) /\ IsFiniteSet(Pagedirs) /\ IsFiniteSet(Copies)
  BY TidsFinite DEF Structs, Pagedirs, Copies
<1>2. PagesHeld = {<<"struct", t>> : t \in Structs} \cup {<<"pagedir", t>> : t \in Pagedirs}
                  \cup {<<"fn_copy", t>> : t \in Copies}
  BY DEF PagesHeld, Structs, Pagedirs, Copies
<1> QED
  BY <1>1, <1>2, FamiliesCount DEF PagesAccounted

\* The same lemma, of the state after a step.
LEMMA PagesCountAfter ==
  PagesAccounted' <=>
    free' + (Cardinality(Structs') + Cardinality(Pagedirs') + Cardinality(Copies')) = Pages
<1>1. IsFiniteSet(Structs') /\ IsFiniteSet(Pagedirs') /\ IsFiniteSet(Copies')
  BY TidsFinite DEF Structs, Pagedirs, Copies
<1>2. PagesHeld' = {<<"struct", t>> : t \in Structs'}
                   \cup {<<"pagedir", t>> : t \in Pagedirs'}
                   \cup {<<"fn_copy", t>> : t \in Copies'}
  BY DEF PagesHeld, Structs, Pagedirs, Copies
<1> QED
  BY <1>1, <1>2, FamiliesCount DEF PagesAccounted

\* t may have taken a page (gain) or given one back (loss) between S and T.
Gains(S, T, t) == t \notin S /\ T = S \cup {t}
Loses(S, T, t) == t \in S /\ T = S \ {t}

LEMMA OnePage ==
  ASSUME NEW S \in SUBSET Tid, NEW T, NEW t \in Tid
  PROVE  /\ Gains(S, T, t) => Cardinality(T) = Cardinality(S) + 1
         /\ Loses(S, T, t) => Cardinality(T) = Cardinality(S) - 1
BY TidsFinite, FS_AddElement, FS_RemoveElement DEF Gains, Loses

(***************************************************************************)
(* What a step may do to the pages: nothing, or one thread takes or gives  *)
(* back one page; thread_create() takes the page of the new thread and     *)
(* hands it the command line; a call that gives up its copy of the command *)
(* line returns that page.                                                 *)
(***************************************************************************)
SamePages ==
  UNCHANGED free /\ Structs' = Structs /\ Pagedirs' = Pagedirs /\ Copies' = Copies

TakesCopy(t) ==
  /\ free' = free - 1 /\ Gains(Copies, Copies', t)
  /\ Structs' = Structs /\ Pagedirs' = Pagedirs

FreesCopy(t) ==
  /\ free' = free + 1 /\ Loses(Copies, Copies', t)
  /\ Structs' = Structs /\ Pagedirs' = Pagedirs

TakesPagedir(t) ==
  /\ free' = free - 1 /\ Gains(Pagedirs, Pagedirs', t)
  /\ Structs' = Structs /\ Copies' = Copies

FreesPagedir(t) ==
  /\ free' = free + 1 /\ Loses(Pagedirs, Pagedirs', t)
  /\ Structs' = Structs /\ Copies' = Copies

FreesStruct(t) ==
  /\ free' = free + 1 /\ Loses(Structs, Structs', t)
  /\ Pagedirs' = Pagedirs /\ Copies' = Copies

Spawns(t, n) ==
  /\ free' = free - 1 /\ Gains(Structs, Structs', n) /\ Pagedirs' = Pagedirs
  /\ t \in Copies /\ n \notin Copies /\ Copies' = (Copies \ {t}) \cup {n}

OneTakesOrFrees(t) ==
  TakesCopy(t) \/ FreesCopy(t) \/ TakesPagedir(t) \/ FreesPagedir(t) \/ FreesStruct(t)

PagesStep ==
  \/ SamePages
  \/ \E t \in Tid : OneTakesOrFrees(t)
  \/ \E t, n \in Tid : Spawns(t, n)

LEMMA PagesStepCounts ==
  ASSUME ProcessInv, PagesAccounted, PagesStep
  PROVE  PagesAccounted'
<1> DEFINE s == Cardinality(Structs)
           d == Cardinality(Pagedirs)
           c == Cardinality(Copies)
<1>1. /\ Structs \in SUBSET Tid /\ Pagedirs \in SUBSET Tid /\ Copies \in SUBSET Tid
      /\ s \in Nat /\ d \in Nat /\ c \in Nat /\ free \in Nat
      /\ free + (s + d + c) = Pages
  <2>1. Structs \in SUBSET Tid /\ Pagedirs \in SUBSET Tid /\ Copies \in SUBSET Tid
    BY DEF Structs, Pagedirs, Copies
  <2> QED
    BY <2>1, TidsFinite, PagesCount DEF ProcessInv, TypeOK
<1> SUFFICES free' + (Cardinality(Structs') + Cardinality(Pagedirs')
                      + Cardinality(Copies')) = Pages
  BY PagesCountAfter
<1> HIDE DEF s, d, c, Structs, Pagedirs, Copies
<1>2. CASE SamePages
  BY <1>1, <1>2 DEF SamePages, s, d, c
<1>3. ASSUME NEW t \in Tid, OneTakesOrFrees(t)
      PROVE  free' + (Cardinality(Structs') + Cardinality(Pagedirs')
                      + Cardinality(Copies')) = Pages
  <2>1. CASE TakesCopy(t)
    <3>1. Cardinality(Copies') = c + 1
      BY <1>1, <2>1, OnePage DEF TakesCopy, c
    <3> QED
      BY <1>1, <2>1, <3>1 DEF TakesCopy, s, d
  <2>2. CASE FreesCopy(t)
    <3>1. Cardinality(Copies') = c - 1
      BY <1>1, <2>2, OnePage DEF FreesCopy, c
    <3> QED
      BY <1>1, <2>2, <3>1 DEF FreesCopy, s, d
  <2>3. CASE TakesPagedir(t)
    <3>1. Cardinality(Pagedirs') = d + 1
      BY <1>1, <2>3, OnePage DEF TakesPagedir, d
    <3> QED
      BY <1>1, <2>3, <3>1 DEF TakesPagedir, s, c
  <2>4. CASE FreesPagedir(t)
    <3>1. Cardinality(Pagedirs') = d - 1
      BY <1>1, <2>4, OnePage DEF FreesPagedir, d
    <3> QED
      BY <1>1, <2>4, <3>1 DEF FreesPagedir, s, c
  <2>5. CASE FreesStruct(t)
    <3>1. Cardinality(Structs') = s - 1
      BY <1>1, <2>5, OnePage DEF FreesStruct, s
    <3> QED
      BY <1>1, <2>5, <3>1 DEF FreesStruct, d, c
  <2> QED
    BY <1>3, <2>1, <2>2, <2>3, <2>4, <2>5 DEF OneTakesOrFrees
<1>4. ASSUME NEW t \in Tid, NEW n \in Tid, Spawns(t, n)
      PROVE  free' + (Cardinality(Structs') + Cardinality(Pagedirs')
                      + Cardinality(Copies')) = Pages
  <2>1. Cardinality(Structs') = s + 1
    BY <1>1, <1>4, OnePage DEF Spawns, s
  <2>2. Cardinality(Copies') = c
    <3>1. Cardinality(Copies \ {t}) = c - 1 /\ Copies \ {t} \in SUBSET Tid
      BY <1>1, <1>4, OnePage DEF Spawns, Loses, c
    <3>2. Gains(Copies \ {t}, Copies', n)
      BY <1>4 DEF Spawns, Gains
    <3> QED
      BY <1>1, <3>1, <3>2, OnePage
  <2> QED
    BY <1>1, <1>4, <2>1, <2>2 DEF Spawns, d
<1> QED
  BY <1>2, <1>3, <1>4 DEF PagesStep

\* Where the copy of a command line is in hand.
Copying == {"load", "signal", "copied", "create", "loading"}

\* A thread that moves between two places where it has no command line in hand.
LEMMA QuietMove ==
  ASSUME ProcessInv, NEW t \in Tid, Exists(t), pc[t] \notin Copying,
         NEW l \in Location \ (Copying \cup {"none", "dead"}),
         pc' = [pc EXCEPT ![t] = l], UNCHANGED <<free, pagedir>>,
         \A u \in Tid : u # t => tid'[u] = tid[u]
  PROVE  PagesStep
<1>1. /\ \A u \in Tid : u # t => pc'[u] = pc[u]
      /\ pc'[t] = l
  BY DEF ProcessInv, TypeOK
<1>2. Structs' = Structs
  BY <1>1 DEF Structs, Exists
<1>3. Pagedirs' = Pagedirs
  BY DEF Pagedirs
<1>4. Copies' = Copies
  BY <1>1 DEF Copies, Copying
<1> QED
  BY <1>2, <1>3, <1>4 DEF PagesStep, SamePages

LEMMA CopyNamePages ==
  ASSUME ProcessInv, NEW t \in Tid, CopyName(t)
  PROVE  PagesStep
<1>1. CASE free = 0
  <2>1. /\ pc[t] = "copy" /\ pc' = [pc EXCEPT ![t] = "result"]
        /\ tid' = [tid EXCEPT ![t] = TidError]
        /\ UNCHANGED <<free, pagedir>>
    BY <1>1 DEF CopyName, Goto
  <2>2. \A u \in Tid : u # t => tid'[u] = tid[u]
    BY <2>1 DEF ProcessInv, TypeOK
  <2> QED
    BY <2>1, <2>2, QuietMove DEF Exists, Copying, Location
<1>2. CASE free > 0
  <2>1. /\ pc[t] = "copy" /\ pc' = [pc EXCEPT ![t] = "create"]
        /\ free' = free - 1 /\ UNCHANGED <<tid, pagedir>>
    BY <1>2 DEF CopyName, Goto
  <2>2. /\ \A u \in Tid : u # t => pc'[u] = pc[u]
        /\ pc'[t] = "create"
    BY <2>1 DEF ProcessInv, TypeOK
  <2>3. TakesCopy(t)
    BY <2>1, <2>2 DEF TakesCopy, Gains, Structs, Pagedirs, Copies, Exists
  <2> QED
    BY <2>3 DEF PagesStep, OneTakesOrFrees
<1> QED
  BY <1>1, <1>2 DEF CopyName

LEMMA ThreadCreatePages ==
  ASSUME ProcessInv, NEW t \in Tid, ThreadCreate(t)
  PROVE  PagesStep
<1>1. /\ pc \in [Tid -> Location] /\ tid \in [Tid -> Tid \cup {TidError}]
      /\ pc[t] = "create" /\ UNCHANGED pagedir
  BY DEF ProcessInv, TypeOK, ThreadCreate
<1>2. CASE free = 0
  <2>1. /\ pc' = [pc EXCEPT ![t] = "loading"] /\ tid' = [tid EXCEPT ![t] = TidError]
        /\ UNCHANGED free
    BY <1>2 DEF ThreadCreate, Goto
  <2>2. /\ \A u \in Tid : u # t => pc'[u] = pc[u] /\ tid'[u] = tid[u]
        /\ pc'[t] = "loading" /\ tid'[t] = TidError
    BY <1>1, <2>1
  <2>3. SamePages
    BY <1>1, <2>1, <2>2 DEF SamePages, Structs, Pagedirs, Copies, Exists
  <2> QED
    BY <2>3 DEF PagesStep
<1>3. CASE free > 0
  <2> DEFINE n == next_tid
  <2>1. /\ n \in Tid /\ free' = free - 1
        /\ pc' = [pc EXCEPT ![t] = "loading", ![n] = "load"]
        /\ tid' = [tid EXCEPT ![t] = n]
    BY <1>3 DEF ThreadCreate, TidsLeft
  <2>2. pc[n] = "none" /\ n # t /\ n # Main /\ n # TidError
    BY <1>1, <2>1 DEF ProcessInv, TypeOK, TidsInOrder, Tid, Main, TidError
  <2> HIDE DEF n
  <2>3. /\ \A u \in Tid : u # t /\ u # n => pc'[u] = pc[u] /\ tid'[u] = tid[u]
        /\ pc'[t] = "loading" /\ tid'[t] = n /\ pc'[n] = "load"
    BY <1>1, <2>1, <2>2
  <2>4. Gains(Structs, Structs', n)
    <3>1. n \notin Structs /\ n \in Structs'
      BY <2>1, <2>2, <2>3 DEF Structs, Exists
    <3>2. \A u \in Tid : u # n => (u \in Structs' <=> u \in Structs)
      BY <1>1, <2>3 DEF Structs, Exists
    <3>3. Structs' \subseteq Tid /\ Structs \subseteq Tid
      BY DEF Structs
    <3> QED
      BY <3>1, <3>2, <3>3 DEF Gains
  <2>5. Pagedirs' = Pagedirs
    BY <1>1 DEF Pagedirs
  <2>6. /\ t \in Copies /\ n \notin Copies
        /\ Copies' = (Copies \ {t}) \cup {n}
    <3>1. t \in Copies /\ n \notin Copies /\ t \notin Copies' /\ n \in Copies'
      BY <1>1, <2>1, <2>2, <2>3 DEF Copies
    <3>2. \A u \in Tid : u # t /\ u # n => (u \in Copies' <=> u \in Copies)
      BY <2>3 DEF Copies
    <3>3. Copies' \subseteq Tid /\ Copies \subseteq Tid
      BY DEF Copies
    <3> HIDE DEF Copies
    <3> QED
      BY <3>1, <3>2, <3>3, <2>1
  <2> QED
    BY <2>1, <2>4, <2>5, <2>6 DEF PagesStep, Spawns
<1> QED
  BY <1>2, <1>3 DEF ThreadCreate

LEMMA ExecuteReturnPages ==
  ASSUME ProcessInv, NEW t \in Tid, ExecuteReturn(t)
  PROVE  PagesStep
<1>1. /\ pc[t] = "loading" /\ pc' = [pc EXCEPT ![t] = "result"]
      /\ free' = IF tid[t] = TidError THEN free + 1 ELSE free
      /\ UNCHANGED <<tid, pagedir>>
  BY DEF ExecuteReturn, Goto
<1>2. /\ \A u \in Tid : u # t => pc'[u] = pc[u]
      /\ pc'[t] = "result"
  BY <1>1 DEF ProcessInv, TypeOK
<1>3. Structs' = Structs /\ Pagedirs' = Pagedirs
  BY <1>1, <1>2 DEF Structs, Pagedirs, Exists
<1>4. CASE tid[t] = TidError
  <2>1. Loses(Copies, Copies', t)
    BY <1>1, <1>2, <1>4 DEF Loses, Copies
  <2> QED
    BY <1>1, <1>3, <1>4, <2>1 DEF PagesStep, OneTakesOrFrees, FreesCopy
<1>5. CASE tid[t] # TidError
  <2>1. Copies' = Copies
    BY <1>1, <1>2, <1>5 DEF Copies
  <2> QED
    BY <1>1, <1>3, <1>5, <2>1 DEF PagesStep, SamePages
<1> QED
  BY <1>4, <1>5

LEMMA LoadPages ==
  ASSUME ProcessInv, PagedirsLoaded, NEW t \in Tid, Load(t)
  PROVE  PagesStep
<1>1. /\ pc[t] = "load" /\ pc' = [pc EXCEPT ![t] = "signal"]
      /\ pagedir' = [pagedir EXCEPT ![t] = free > 0]
      /\ free' = IF free > 0 THEN free - 1 ELSE free
      /\ UNCHANGED tid /\ ~pagedir[t]
  BY DEF Load, Goto, PagedirsLoaded
<1>2. /\ \A u \in Tid : u # t => pc'[u] = pc[u] /\ pagedir'[u] = pagedir[u]
      /\ pc'[t] = "signal" /\ (pagedir'[t] <=> free > 0)
  BY <1>1 DEF ProcessInv, TypeOK
<1>3. Structs' = Structs /\ Copies' = Copies
  BY <1>1, <1>2 DEF Structs, Copies, Exists
<1>4. CASE free > 0
  <2>1. Gains(Pagedirs, Pagedirs', t)
    BY <1>1, <1>2, <1>4 DEF Gains, Pagedirs
  <2> QED
    BY <1>1, <1>3, <1>4, <2>1 DEF PagesStep, OneTakesOrFrees, TakesPagedir
<1>5. CASE ~(free > 0)
  <2>1. Pagedirs' = Pagedirs
    BY <1>1, <1>2, <1>5 DEF Pagedirs
  <2> QED
    BY <1>1, <1>3, <1>5, <2>1 DEF PagesStep, SamePages
<1> QED
  BY <1>4, <1>5

LEMMA ReportPages ==
  ASSUME ProcessInv, NEW t \in Tid, Signal(t) \/ StartUser(t)
  PROVE  PagesStep
<1>1. CASE Signal(t)
  <2>1. /\ pc[t] = "signal" /\ pc' = [pc EXCEPT ![t] = "copied"]
        /\ UNCHANGED <<tid, free, pagedir>>
    BY <1>1 DEF Signal, Goto, memVars
  <2>2. /\ \A u \in Tid : u # t => pc'[u] = pc[u]
        /\ pc'[t] = "copied"
    BY <2>1 DEF ProcessInv, TypeOK
  <2>3. SamePages
    BY <2>1, <2>2 DEF SamePages, Structs, Pagedirs, Copies, Exists
  <2> QED
    BY <2>3 DEF PagesStep
<1>2. CASE StartUser(t)
  <2> DEFINE l == IF success[t] THEN "user" ELSE "zombie"
  <2>1. /\ pc[t] = "copied" /\ pc' = [pc EXCEPT ![t] = l]
        /\ free' = free + 1 /\ UNCHANGED <<tid, pagedir>>
    BY <1>2 DEF StartUser, Goto
  <2>2. l \in {"user", "zombie"}
    OBVIOUS
  <2> HIDE DEF l
  <2>3. /\ \A u \in Tid : u # t => pc'[u] = pc[u]
        /\ pc'[t] \in {"user", "zombie"}
    BY <2>1, <2>2 DEF ProcessInv, TypeOK
  <2>4. FreesCopy(t)
    BY <2>1, <2>3 DEF FreesCopy, Loses, Structs, Pagedirs, Copies, Exists
  <2> QED
    BY <2>4 DEF PagesStep, OneTakesOrFrees
<1> QED
  BY <1>1, <1>2

LEMMA EndPages ==
  ASSUME ProcessInv, MainStays, NEW t \in Tid, ProcessExit(t) \/ Destroy(t)
  PROVE  PagesStep
<1>1. CASE ProcessExit(t)
  <2>1. /\ pc[t] = "zombie" /\ pc' = [pc EXCEPT ![t] = "dying"]
        /\ pagedir' = [pagedir EXCEPT ![t] = FALSE]
        /\ free' = IF pagedir[t] THEN free + 1 ELSE free
        /\ UNCHANGED tid
    BY <1>1 DEF ProcessExit, Goto
  <2>2. /\ \A u \in Tid : u # t => pc'[u] = pc[u] /\ pagedir'[u] = pagedir[u]
        /\ pc'[t] = "dying" /\ ~pagedir'[t]
    BY <2>1 DEF ProcessInv, TypeOK
  <2>3. Structs' = Structs /\ Copies' = Copies
    BY <2>1, <2>2 DEF Structs, Copies, Exists
  <2>4. CASE pagedir[t]
    <3>1. Loses(Pagedirs, Pagedirs', t)
      BY <2>2, <2>4 DEF Loses, Pagedirs
    <3> QED
      BY <2>1, <2>3, <2>4, <3>1 DEF PagesStep, OneTakesOrFrees, FreesPagedir
  <2>5. CASE ~pagedir[t]
    <3>1. Pagedirs' = Pagedirs
      BY <2>2, <2>5 DEF Pagedirs
    <3> QED
      BY <2>1, <2>3, <2>5, <3>1 DEF PagesStep, SamePages
  <2> QED
    BY <2>4, <2>5
<1>2. CASE Destroy(t)
  <2>1. /\ pc[t] = "dying" /\ pc' = [pc EXCEPT ![t] = "dead"] /\ t # Main
        /\ free' = free + 1 /\ UNCHANGED <<tid, pagedir>>
    BY <1>2 DEF Destroy, Goto, MainStays
  <2>2. /\ \A u \in Tid : u # t => pc'[u] = pc[u]
        /\ pc'[t] = "dead"
    BY <2>1 DEF ProcessInv, TypeOK
  <2>3. FreesStruct(t)
    BY <2>1, <2>2 DEF FreesStruct, Loses, Structs, Pagedirs, Copies, Exists
  <2> QED
    BY <2>3 DEF PagesStep, OneTakesOrFrees
<1> QED
  BY <1>1, <1>2

\* sema_down() and sema_up() of the mutex take no page.
LEMMA FilePages ==
  ASSUME ProcessInv, NEW t \in Tid,
         (pc[t] \in {"user", "woken"} /\ SemaDown(t)) \/ FileReturn(t)
  PROVE  PagesStep
<1>1. ASSUME pc[t] \in {"user", "woken"}, SemaDown(t)
      PROVE  PagesStep
  <2>1. /\ UNCHANGED <<tid, free, pagedir>>
        /\ \/ pc' = [pc EXCEPT ![t] = "blocked"]
           \/ pc' = [pc EXCEPT ![t] = "file"]
    BY <1>1 DEF SemaDown, Goto, memVars
  <2> QED
    BY <1>1, <2>1, QuietMove DEF Exists, Copying, Location
<1>2. CASE FileReturn(t)
  <2>1. /\ pc[t] = "file" /\ UNCHANGED <<tid, free, pagedir>>
        /\ \/ pc' = [pc EXCEPT ![t] = "user"]
           \/ /\ mutex_waiters # <<>>
              /\ pc' = [pc EXCEPT ![t] = "user", ![Head(mutex_waiters)] = "woken"]
    BY <1>2 DEF FileReturn, Goto, memVars
  <2>2. CASE pc' = [pc EXCEPT ![t] = "user"]
    BY <2>1, <2>2, QuietMove DEF Exists, Copying, Location
  <2>3. CASE /\ mutex_waiters # <<>>
             /\ pc' = [pc EXCEPT ![t] = "user", ![Head(mutex_waiters)] = "woken"]
    <3> DEFINE w == Head(mutex_waiters)
    <3>1. w \in Tid /\ pc[w] = "blocked"
      BY <2>3 DEF ProcessInv, TypeOK, WaitersBlocked
    <3>2. /\ w # t /\ pc'[t] = "user" /\ pc'[w] = "woken"
          /\ \A u \in Tid : u # t /\ u # w => pc'[u] = pc[u]
      BY <2>1, <2>3, <3>1 DEF ProcessInv, TypeOK
    <3> HIDE DEF w
    <3>3. SamePages
      BY <2>1, <3>1, <3>2 DEF SamePages, Structs, Pagedirs, Copies, Exists
    <3> QED
      BY <3>3 DEF PagesStep
  <2> QED
    BY <2>1, <2>2, <2>3
<1> QED
  BY <1>1, <1>2

\* Calls and returns that have nothing to do with memory.
LEMMA OtherPages ==
  ASSUME ProcessInv, NEW t \in Tid, Exists(t), pc[t] \notin Copying,
         \/ RunTask /\ t = Main
         \/ Exec(t) \/ ExecReturn(t) \/ Collect(t) \/ ThreadExit(t)
         \/ \E c \in Tid \cup {TidError}, l \in {"user", "run"} : ProcessWait(t, c, l)
         \/ \E s \in Status : ExitWith(t, s)
  PROVE  PagesStep
<1>1. tid \in [Tid -> Tid \cup {TidError}] /\ pc \in [Tid -> Location]
  BY DEF ProcessInv, TypeOK
<1>2. /\ \E l \in {"copy", "result", "user", "run", "zombie", "exit", "wait"} :
           pc' = [pc EXCEPT ![t] = l]
      /\ UNCHANGED <<free, pagedir>>
  BY DEF RunTask, Exec, ExecReturn, Collect, ThreadExit, ProcessWait, ExitWith, Goto,
         memVars
<1>3. \A u \in Tid : u # t => tid'[u] = tid[u]
  BY <1>1 DEF RunTask, Exec, ExecReturn, Collect, ThreadExit, ProcessWait, ExitWith
<1> QED
  BY <1>2, <1>3, QuietMove DEF Copying, Location

LEMMA PagesSteps ==
  ASSUME ProcessInv, PagedirsLoaded, MainStays, "badexec" \notin Calls, [Next]_vars
  PROVE  PagesStep
<1>1. Main \in Tid /\ tid[Main] \in Tid \cup {TidError}
  BY ProcessAssumption DEF ProcessInv, TypeOK, Tid, Main
<1>2. CASE RunTask
  BY <1>1, <1>2, OtherPages DEF RunTask, Exists, Copying
<1>3. CASE TaskWait
  BY <1>1, <1>3, OtherPages DEF TaskWait, Exists, Copying
<1>4. CASE MainExit
  BY <1>1, <1>4, OtherPages DEF MainExit, Exists, Copying
<1>5. ASSUME NEW t \in Tid, User(t)
      PROVE  PagesStep
  <2>1. ~("badexec" \in Calls /\ CopyFault(t))
    OBVIOUS
  <2>2. CASE Exec(t)
    BY <2>2, OtherPages DEF Exec, Exists, Copying
  <2>3. CASE Wait(t)
    BY <2>3, OtherPages DEF Wait, Exists, Copying
  <2>4. CASE FileCall(t)
    BY <2>4, FilePages DEF FileCall
  <2>5. CASE Exit(t) \/ PageFault(t)
    BY <2>5, OtherPages DEF Exit, PageFault, Status, Exists, Copying
  <2>6. CASE Kill(t)
    BY <2>6, OtherPages DEF Kill, Exists, Copying
  <2> QED
    BY <1>5, <2>1, <2>2, <2>3, <2>4, <2>5, <2>6 DEF User
<1>6. ASSUME NEW t \in Tid, Kernel(t)
      PROVE  PagesStep
  <2>1. CASE CopyName(t) \/ ThreadCreate(t) \/ ExecuteReturn(t)
    BY <2>1, CopyNamePages, ThreadCreatePages, ExecuteReturnPages
  <2>2. CASE ExecReturn(t) \/ Collect(t) \/ ExitDone(t)
    BY <2>2, OtherPages DEF ExecReturn, Collect, ExitDone, Exists, Copying
  <2>3. CASE Load(t) \/ Signal(t) \/ StartUser(t)
    BY <2>3, LoadPages, ReportPages
  <2>4. CASE FileCallAgain(t) \/ FileReturn(t)
    BY <2>4, FilePages DEF FileCallAgain
  <2>5. CASE ProcessExit(t) \/ Destroy(t)
    BY <2>5, EndPages
  <2> QED
    BY <1>6, <2>1, <2>2, <2>3, <2>4, <2>5 DEF Kernel
<1>7. CASE UNCHANGED vars
  BY <1>7 DEF vars, memVars, PagesStep, SamePages, Structs, Pagedirs, Copies, Exists
<1> QED
  BY <1>2, <1>3, <1>4, <1>5, <1>6, <1>7 DEF Next

LEMMA PagedirsLoadedStep ==
  ASSUME ProcessInv, PagedirsLoaded, [Next]_vars
  PROVE  PagedirsLoaded'
<1>1. pc \in [Tid -> Location] /\ pagedir \in [Tid -> BOOLEAN]
  BY DEF ProcessInv, TypeOK
<1>2. ASSUME NEW u \in Tid
      PROVE  /\ pc'[u] \in {"none", "load"} => pc[u] \in {"none", "load"}
             /\ pagedir'[u] => (pagedir[u] \/ pc'[u] = "signal")
  <2>1. (pc' = pc /\ pagedir' = pagedir) \/ Next
    BY DEF vars, memVars
  <2>2. CASE pc' = pc /\ pagedir' = pagedir
    BY <2>2
  <2>3. CASE RunTask \/ TaskWait \/ MainExit
    BY <1>1, <2>3 DEF RunTask, TaskWait, MainExit, ThreadExit, ProcessWait, Goto, memVars
  <2>4. ASSUME NEW t \in Tid, User(t)
        PROVE  /\ pc'[u] \in {"none", "load"} => pc[u] \in {"none", "load"}
               /\ pagedir'[u] => (pagedir[u] \/ pc'[u] = "signal")
    BY <1>1, <2>4 DEF User, Exec, Wait, ProcessWait, FileCall, SemaDown, Exit, ExitWith,
       PageFault, CopyFault, Kill, ThreadExit, Goto, memVars
  <2>5. ASSUME NEW t \in Tid, FileReturn(t)
        PROVE  /\ pc'[u] \in {"none", "load"} => pc[u] \in {"none", "load"}
               /\ pagedir'[u] => (pagedir[u] \/ pc'[u] = "signal")
    BY <1>1, <2>5 DEF FileReturn, Goto, memVars
  <2>6. ASSUME NEW t \in Tid, ThreadCreate(t)
        PROVE  /\ pc'[u] \in {"none", "load"} => pc[u] \in {"none", "load"}
               /\ pagedir'[u] => (pagedir[u] \/ pc'[u] = "signal")
    <3>1. next_tid \in Tid => pc[next_tid] = "none"
      BY DEF ProcessInv, TypeOK, TidsInOrder, Tid
    <3>2. /\ UNCHANGED pagedir
          /\ \/ pc' = [pc EXCEPT ![t] = "loading"]
             \/ /\ next_tid \in Tid
                /\ pc' = [pc EXCEPT ![t] = "loading", ![next_tid] = "load"]
      BY <2>6 DEF ThreadCreate, Goto, TidsLeft
    <3> QED
      BY <1>1, <3>1, <3>2
  <2>7. ASSUME NEW t \in Tid, Load(t)
        PROVE  /\ pc'[u] \in {"none", "load"} => pc[u] \in {"none", "load"}
               /\ pagedir'[u] => (pagedir[u] \/ pc'[u] = "signal")
    BY <1>1, <2>7 DEF Load, Goto
  <2>8. ASSUME NEW t \in Tid,
               \/ CopyName(t) \/ ExecuteReturn(t) \/ ExecReturn(t) \/ Signal(t)
               \/ StartUser(t) \/ Collect(t) \/ FileCallAgain(t) \/ ExitDone(t)
               \/ ProcessExit(t) \/ Destroy(t)
        PROVE  /\ pc'[u] \in {"none", "load"} => pc[u] \in {"none", "load"}
               /\ pagedir'[u] => (pagedir[u] \/ pc'[u] = "signal")
    BY <1>1, <2>8 DEF CopyName, ExecuteReturn, ExecReturn, Signal, StartUser, Collect,
       FileCallAgain, SemaDown, ExitDone, ThreadExit, ProcessExit, Destroy, Goto, memVars
  <2> QED
    BY <2>1, <2>2, <2>3, <2>4, <2>5, <2>6, <2>7, <2>8 DEF Next, Kernel
<1> QED
  BY <1>2 DEF PagedirsLoaded

LEMMA MainStaysStep ==
  ASSUME ProcessInv, MainStays, [Next]_vars
  PROVE  MainStays'
<1>1. /\ pc \in [Tid -> Location] /\ tid \in [Tid -> Tid \cup {TidError}]
      /\ parent \in [Tid -> Tid] /\ deleted_from_parent \in [Tid -> BOOLEAN]
      /\ Main \in Tid /\ TidError # Main /\ next_tid # Main
  BY ProcessAssumption DEF ProcessInv, TypeOK, Tid, Main, TidError
<1>2. /\ pc[Main] \in {"run", "copy", "create", "loading", "result", "wait", "zombie"}
      /\ parent[Main] = Main /\ tid[Main] # Main /\ ~deleted_from_parent[Main]
  BY DEF MainStays
<1>3. CASE RunTask \/ TaskWait \/ MainExit
  BY <1>1, <1>2, <1>3
     DEF RunTask, TaskWait, MainExit, ThreadExit, ProcessWait, Goto, MainStays, familyVars,
         exitVars
<1>4. ASSUME NEW t \in Tid, User(t)
      PROVE  MainStays'
  <2>1. t # Main
    BY <1>2, <1>4 DEF User, Exec, Wait, FileCall, Exit, PageFault, CopyFault, Kill
  <2> QED
    BY <1>1, <1>2, <1>4, <2>1
       DEF User, Exec, Wait, ProcessWait, FileCall, SemaDown, Exit, ExitWith, PageFault,
           CopyFault, Kill, ThreadExit, Goto, MainStays, familyVars, exitVars
<1>5. ASSUME NEW t \in Tid, CopyName(t) \/ ExecuteReturn(t)
      PROVE  MainStays'
  BY <1>1, <1>2, <1>5 DEF CopyName, ExecuteReturn, Goto, MainStays, familyVars, exitVars
<1>6. ASSUME NEW t \in Tid, ThreadCreate(t)
      PROVE  MainStays'
  <2>1. CASE free = 0
    BY <1>1, <1>2, <1>6, <2>1 DEF ThreadCreate, Goto, MainStays, familyVars, exitVars
  <2>2. CASE free # 0
    <3>1. /\ pc' = [pc EXCEPT ![t] = "loading", ![next_tid] = "load"]
          /\ tid' = [tid EXCEPT ![t] = next_tid]
          /\ parent' = [parent EXCEPT ![next_tid] = t]
          /\ UNCHANGED deleted_from_parent /\ next_tid \in Tid
      BY <1>6, <2>2 DEF ThreadCreate, TidsLeft, exitVars
    <3> QED
      BY <1>1, <1>2, <3>1 DEF MainStays
  <2> QED
    BY <2>1, <2>2
<1>7. ASSUME NEW t \in Tid, Collect(t)
      PROVE  MainStays'
  <2>1. tid[t] # Main
    <3>1. tid[t] \in children[t] /\ tid[t] \in Tid
      BY <1>7 DEF Collect, ProcessInv, TypeOK, WaitsForChild
    <3>2. parent[tid[t]] = t
      BY <3>1 DEF ProcessInv, ChildLists
    <3> QED
      BY <1>2, <3>2
  <2> QED
    BY <1>1, <1>2, <1>7, <2>1 DEF Collect, Goto, MainStays
<1>8. ASSUME NEW t \in Tid, FileReturn(t)
      PROVE  MainStays'
  <2>1. mutex_waiters # <<>> => pc[Head(mutex_waiters)] = "blocked"
    BY DEF ProcessInv, TypeOK, WaitersBlocked
  <2> QED
    BY <1>1, <1>2, <1>8, <2>1 DEF FileReturn, Goto, MainStays, familyVars, exitVars
<1>9. ASSUME NEW t \in Tid,
             \/ ExecReturn(t) \/ Load(t) \/ Signal(t) \/ StartUser(t)
             \/ FileCallAgain(t) \/ ExitDone(t) \/ ProcessExit(t) \/ Destroy(t)
      PROVE  MainStays'
  <2>1. t # Main
    BY <1>2, <1>9 DEF ExecReturn, Load, Signal, StartUser, FileCallAgain, ExitDone,
       ProcessExit, Destroy
  <2> QED
    BY <1>1, <1>2, <1>9, <2>1
       DEF ExecReturn, Load, Signal, StartUser, FileCallAgain, SemaDown, ExitDone,
           ThreadExit, ProcessExit, Destroy, Goto, MainStays, familyVars, exitVars
<1>10. CASE UNCHANGED vars
  BY <1>10 DEF vars, familyVars, exitVars, MainStays
<1> QED
  BY <1>3, <1>4, <1>5, <1>6, <1>7, <1>8, <1>9, <1>10 DEF Next, Kernel

(***************************************************************************)
(* No page of a process is lost or freed twice, whatever path the process  *)
(* and its parent take to their ends: a failed thread_create(), a failed   *)
(* load(), an exit() or a fault before, while or after the parent waits.   *)
(* One path is left out by hypothesis, since it does lose a page: the      *)
(* fault in process_execute() while it copies the command line.            *)
(***************************************************************************)
THEOREM PagesAreAccounted ==
  ASSUME "badexec" \notin Calls
  PROVE  Spec => []PagesAccounted
<1>1. Init => PagesInv
  <2> SUFFICES ASSUME Init PROVE PagesInv
    OBVIOUS
  <2>1. PagedirsLoaded /\ MainStays
    BY ProcessAssumption
       DEF Init, PagedirsLoaded, MainStays, Tid, Main, TidError
  <2>2. Structs = {} /\ Pagedirs = {} /\ Copies = {}
    BY DEF Init, Structs, Pagedirs, Copies, Exists
  <2>3. PagesAccounted
    BY <2>2, PagesCount, FS_EmptySet, ProcessAssumption DEF Init
  <2> QED
    BY <2>1, <2>3 DEF PagesInv
<1>2. ProcessInv /\ PagesInv /\ [Next]_vars => PagesInv'
  BY PagesSteps, PagesStepCounts, PagedirsLoadedStep, MainStaysStep DEF PagesInv
<1>3. PagesInv => PagesAccounted
  BY DEF PagesInv
<1> QED
  BY <1>1, <1>2, <1>3, ProcessInvariance, PTL DEF Spec

=============================================================================
