------------------------- MODULE GrantKeeperProofs -------------------------
(***************************************************************************)
(* Safety of GrantKeeper for every set of threads, every bound on the      *)
(* grants and every time a grant is kept for.                              *)
(***************************************************************************)
EXTENDS GrantKeeper, FiniteSetTheorems, FunctionTheorems, SequenceTheorems,
        TLAPS

Waiting == {t \in Threads : get[t] = "wait"}

\* The grants of a queue are distinct and have been given out.
GoodQueue(q, n) ==
    /\ \A i, j \in 1 .. Len(q) : q[i] = q[j] => i = j
    /\ \A i \in 1 .. Len(q) : q[i] >= 1 /\ q[i] < n

\* A grant in a hand has been given out, is not in the queue and not in
\* another hand.
GoodHands(g, q, n) ==
    \A t \in Threads : g[t] # NoGrant =>
        /\ g[t] < n
        /\ \A i \in 1 .. Len(q) : q[i] # g[t]
        /\ \A u \in Threads : g[u] = g[t] => u = t

\* The invariant that is preserved by every step.
IInv == /\ TypeOK
        /\ next >= 1
        /\ IsFiniteSet(Waiting)
        /\ WaitersExact
        /\ GoodQueue(remaining, next)
        /\ GoodHands(granted, remaining, next)

-----------------------------------------------------------------------------
(***************************************************************************)
(* The queue.                                                              *)
(***************************************************************************)

\* What is left of a queue when its first n entries are dropped.
LEMMA DroppedQueue ==
    ASSUME NEW q \in Seq(Nat), NEW n \in 0 .. Len(q)
    PROVE  /\ SubSeq(q, n + 1, Len(q)) \in Seq(Nat)
           /\ Len(SubSeq(q, n + 1, Len(q))) = Len(q) - n
           /\ \A i \in 1 .. Len(q) - n : SubSeq(q, n + 1, Len(q))[i] = q[n + i]
<1> DEFINE S == SubSeq(q, n + 1, Len(q))
<1>1. Len(q) \in Nat /\ n \in Nat
  BY LenProperties
<1>2. \A i \in n + 1 .. Len(q) : q[i] \in Nat
  BY <1>1, ElementOfSeq
<1>3. S \in Seq(Nat) /\ Len(S) = IF n + 1 <= Len(q) THEN Len(q) - (n + 1) + 1 ELSE 0
  BY <1>1, <1>2, SubSeqProperties
<1>4. \A i \in 1 .. Len(q) - (n + 1) + 1 : S[i] = q[n + 1 + i - 1]
  BY <1>1, <1>2, SubSeqProperties
<1>5. Len(S) = Len(q) - n
  BY <1>1, <1>3
<1>6. \A i \in 1 .. Len(q) - n : S[i] = q[n + i]
  <2> TAKE i \in 1 .. Len(q) - n
  <2>1. i \in 1 .. Len(q) - (n + 1) + 1 /\ n + 1 + i - 1 = n + i
    BY <1>1
  <2> QED
    BY <1>4, <2>1
<1> QED
  BY <1>3, <1>5, <1>6
\* Get takes entry k of the queue and drops the ones before it: the queue
\* stays good, and the grant is in the one hand only.
LEMMA TakenFromQueue ==
    ASSUME NEW q \in Seq(Nat), NEW p \in Seq(Nat), NEW n \in Nat,
           NEW k \in 1 .. Len(q), NEW t \in Threads,
           NEW g \in [Threads -> Nat],
           Len(p) = Len(q) - k,
           \A i \in 1 .. Len(q) - k : p[i] = q[k + i],
           GoodQueue(q, n), GoodHands(g, q, n)
    PROVE  /\ GoodQueue(p, n)
           /\ GoodHands([g EXCEPT ![t] = q[k]], p, n)
<1> DEFINE h == [g EXCEPT ![t] = q[k]]
<1>1. Len(q) \in Nat /\ k \in Nat
  BY LenProperties
<1>2. \A i \in 1 .. Len(p) : p[i] = q[k + i] /\ k + i \in 1 .. Len(q) /\ k + i # k
  BY <1>1
<1>3. \A i, j \in 1 .. Len(p) : k + i = k + j => i = j
  BY <1>1
<1>4. GoodQueue(p, n)
  BY <1>2, <1>3 DEF GoodQueue
<1>5. GoodHands(h, p, n)
  <2> SUFFICES ASSUME NEW u \in Threads, h[u] # NoGrant
               PROVE  /\ h[u] < n
                      /\ \A i \in 1 .. Len(p) : p[i] # h[u]
                      /\ \A v \in Threads : h[v] = h[u] => v = u
    BY DEF GoodHands
  <2>1. q[k] < n /\ q[k] # NoGrant
    BY <1>1 DEF GoodQueue, NoGrant
  <2>2. h[t] = q[k] /\ \A v \in Threads \ {t} : h[v] = g[v]
    OBVIOUS
  <2>3. \A v \in Threads \ {t} : g[v] # q[k]
    BY <2>1 DEF GoodHands
  <2>4. \A i \in 1 .. Len(p) : p[i] # q[k]
    BY <1>2 DEF GoodQueue
  <2>5. CASE u = t
    BY <2>1, <2>2, <2>3, <2>4, <2>5
  <2>6. CASE u # t
    <3>1. h[u] = g[u] /\ g[u] # NoGrant
      BY <2>2, <2>6
    <3>2. /\ g[u] < n
          /\ \A i \in 1 .. Len(q) : q[i] # g[u]
          /\ \A v \in Threads : g[v] = g[u] => v = u
      BY <3>1 DEF GoodHands
    <3> QED
      BY <3>1, <3>2, <1>2, <2>2, <2>3, <2>6
  <2> QED
    BY <2>5, <2>6
<1> QED
  BY <1>4, <1>5

\* A reply with n grants is appended: their numbers are new.
LEMMA GrantsAppended ==
    ASSUME NEW q \in Seq(Nat), NEW n \in Nat, NEW nx \in Nat, nx >= 1,
           NEW g \in [Threads -> Nat],
           GoodQueue(q, nx), GoodHands(g, q, nx)
    PROVE  LET p == q \o [i \in 1 .. n |-> nx + i - 1]
           IN  /\ p \in Seq(Nat)
               /\ GoodQueue(p, nx + n)
               /\ GoodHands(g, p, nx + n)
<1> DEFINE r == [i \in 1 .. n |-> nx + i - 1]
           p == q \o r
<1>1. Len(q) \in Nat
  BY LenProperties
<1>2. r \in Seq(Nat) /\ Len(r) = n
  <2>1. \A i \in 1 .. n : nx + i - 1 \in Nat
    OBVIOUS
  <2> QED
    BY <2>1, IsASeq, LenProperties
<1> HIDE DEF r
<1>3. \A i \in 1 .. n : r[i] = nx + i - 1
  BY DEF r
<1>4. /\ p \in Seq(Nat)
      /\ Len(p) = Len(q) + n
      /\ \A i \in 1 .. Len(q) + n :
            p[i] = IF i <= Len(q) THEN q[i] ELSE r[i - Len(q)]
  BY <1>2, ConcatProperties
<1> HIDE DEF p
<1>5. ASSUME NEW i \in 1 .. Len(p)
      PROVE  \/ i \in 1 .. Len(q) /\ p[i] = q[i]
             \/ i > Len(q) /\ p[i] = nx + (i - Len(q)) - 1
  <2>1. CASE i <= Len(q)
    BY <1>1, <1>4, <2>1
  <2>2. CASE i > Len(q)
    <3>1. i - Len(q) \in 1 .. n /\ p[i] = r[i - Len(q)]
      BY <1>1, <1>4, <2>2
    <3> QED
      BY <1>3, <2>2, <3>1
  <2> QED
    BY <1>1, <2>1, <2>2
<1>6. \A i \in 1 .. Len(q) : q[i] \in Nat /\ q[i] >= 1 /\ q[i] < nx
  BY ElementOfSeq DEF GoodQueue
<1>7. GoodQueue(p, nx + n)
  <2>1. ASSUME NEW i \in 1 .. Len(p)
        PROVE  /\ p[i] \in Nat /\ p[i] >= 1 /\ p[i] < nx + n
               /\ i \in 1 .. Len(q) => p[i] = q[i] /\ p[i] < nx
               /\ i \notin 1 .. Len(q) => p[i] = nx + (i - Len(q)) - 1 /\ p[i] >= nx
    <3>1. i \in Nat /\ i >= 1 /\ i <= Len(q) + n
      BY <1>1, <1>4
    <3>2. CASE i \in 1 .. Len(q) /\ p[i] = q[i]
      BY <1>6, <3>2
    <3>3. CASE i > Len(q) /\ p[i] = nx + (i - Len(q)) - 1
      BY <1>1, <3>1, <3>3
    <3> QED
      BY <1>5, <3>2, <3>3
  <2>2. ASSUME NEW i \in 1 .. Len(p), NEW j \in 1 .. Len(p), p[i] = p[j]
        PROVE  i = j
    <3>1. CASE i \in 1 .. Len(q) /\ j \in 1 .. Len(q)
      BY <2>1, <2>2, <3>1 DEF GoodQueue
    <3>2. CASE i \notin 1 .. Len(q) /\ j \notin 1 .. Len(q)
      <4>1. i \in Nat /\ j \in Nat
        BY <1>1, <1>4
      <4>2. nx + (i - Len(q)) - 1 = nx + (j - Len(q)) - 1
        BY <2>1, <2>2, <3>2
      <4> QED
        BY <1>1, <4>1, <4>2
    <3>3. CASE i \in 1 .. Len(q) /\ j \notin 1 .. Len(q)
      BY <2>1, <2>2, <3>3
    <3>4. CASE i \notin 1 .. Len(q) /\ j \in 1 .. Len(q)
      BY <2>1, <2>2, <3>4
    <3> QED
      BY <3>1, <3>2, <3>3, <3>4
  <2> QED
    BY <2>1, <2>2 DEF GoodQueue
<1>8. GoodHands(g, p, nx + n)
  <2> SUFFICES ASSUME NEW u \in Threads, g[u] # NoGrant
               PROVE  /\ g[u] < nx + n
                      /\ \A i \in 1 .. Len(p) : p[i] # g[u]
                      /\ \A v \in Threads : g[v] = g[u] => v = u
    BY DEF GoodHands
  <2>1. g[u] \in Nat /\ g[u] < nx /\ \A i \in 1 .. Len(q) : q[i] # g[u]
    BY DEF GoodHands
  <2>2. \A i \in 1 .. Len(p) : p[i] # g[u]
    BY <1>1, <1>4, <1>5, <2>1
  <2>3. \A v \in Threads : g[v] = g[u] => v = u
    BY DEF GoodHands
  <2> QED
    BY <2>1, <2>2, <2>3
<1> QED
  BY <1>4, <1>7, <1>8 DEF p, r

\* As many different grants are in a good queue as it is long.
LEMMA QueueCounted ==
    ASSUME NEW q \in Seq(Nat), NEW n, GoodQueue(q, n)
    PROVE  Cardinality({q[i] : i \in 1 .. Len(q)}) = Len(q)
<1> DEFINE S == {q[i] : i \in 1 .. Len(q)}
<1>1. Len(q) \in Nat /\ q \in [1 .. Len(q) -> S]
  BY LenProperties
<1>2. q \in Bijection(1 .. Len(q), S)
  <2>1. \A a, b \in 1 .. Len(q) : q[a] = q[b] => a = b
    BY DEF GoodQueue
  <2>2. \A x \in S : \E a \in 1 .. Len(q) : q[a] = x
    OBVIOUS
  <2> QED
    BY <1>1, <2>1, <2>2, Fun_IsBij
<1>3. ExistsBijection(1 .. Len(q), S)
  BY <1>2, Fun_ExistsBij
<1> QED
  BY <1>1, <1>3, FS_CountingElements

-----------------------------------------------------------------------------
(***************************************************************************)
(* The steps.                                                              *)
(***************************************************************************)

\* Before the first Get there is no keeper, no grant and no waiter.
LEMMA InitIInv == Init => IInv
<1> SUFFICES ASSUME Init PROVE IInv
  OBVIOUS
<1>1. TypeOK
  <2>1. remaining \in Seq(Nat) /\ get \in [Threads -> {"idle", "enter", "wait", "got"}]
    BY EmptySeq DEF Init
  <2> QED
    BY <2>1 DEF Init, TypeOK, NoGrant
<1>2. Waiting = {}
  BY DEF Init, Waiting
<1>3. IsFiniteSet(Waiting) /\ WaitersExact
  BY <1>2, FS_EmptySet DEF Init, WaitersExact, Waiting
<1>4. GoodQueue(remaining, next) /\ GoodHands(granted, remaining, next)
  BY EmptySeq DEF Init, GoodQueue, GoodHands, NoGrant
<1> QED
  BY <1>1, <1>3, <1>4 DEF Init, IInv

\* A step that leaves the set of waiters and their number alone.
LEMMA WaitingUnchanged ==
    ASSUME IInv, waiters' = waiters,
           \A t \in Threads : get'[t] = "wait" <=> get[t] = "wait"
    PROVE  IsFiniteSet(Waiting') /\ WaitersExact'
<1>1. Waiting' = Waiting
  BY DEF Waiting
<1> QED
  BY <1>1 DEF IInv, WaitersExact, Waiting

\* Finding or making the keeper touches no grant.
LEMMA FindKeeperIInv ==
    ASSUME IInv, NEW t \in Threads, FindKeeper(t)
    PROVE  IInv'
<1>1. get' \in [Threads -> {"idle", "enter", "wait", "got"}]
  BY DEF IInv, TypeOK, FindKeeper
<1>2. \A u \in Threads : get'[u] = "wait" <=> get[u] = "wait"
  BY DEF IInv, TypeOK, FindKeeper
<1>3. TypeOK'
  BY <1>1 DEF IInv, TypeOK, FindKeeper
<1> QED
  BY <1>2, <1>3, WaitingUnchanged DEF IInv, FindKeeper

\* A grant at hand is popped from behind the expired ones.
LEMMA GetAtOnceIInv ==
    ASSUME IInv, NEW t \in Threads, NEW n \in 0 .. Len(remaining), GetAtOnce(t, n)
    PROVE  IInv'
<1> DEFINE p == SubSeq(remaining, n + 2, Len(remaining))
<1>1. remaining \in Seq(Nat) /\ Len(remaining) \in Nat /\ n + 1 \in 1 .. Len(remaining)
  BY LenProperties DEF IInv, TypeOK, GetAtOnce
<1>2. n + 1 \in 0 .. Len(remaining) /\ (n + 1) + 1 = n + 2
  BY <1>1
<1>3. /\ p \in Seq(Nat)
      /\ Len(p) = Len(remaining) - (n + 1)
      /\ \A i \in 1 .. Len(remaining) - (n + 1) : p[i] = remaining[(n + 1) + i]
  BY <1>1, <1>2, DroppedQueue
<1>4. /\ remaining' = p
      /\ granted' = [granted EXCEPT ![t] = remaining[n + 1]]
      /\ next' = next
  BY DEF GetAtOnce
<1> HIDE DEF p
<1>5. /\ GoodQueue(remaining', next')
      /\ GoodHands(granted', remaining', next')
  BY <1>1, <1>3, <1>4, TakenFromQueue DEF IInv, TypeOK
<1>6. remaining[n + 1] \in Nat
  BY <1>1, ElementOfSeq
<1>7. TypeOK'
  BY <1>3, <1>4, <1>6 DEF IInv, TypeOK, GetAtOnce
<1>8. \A u \in Threads : get'[u] = "wait" <=> get[u] = "wait"
  BY DEF IInv, TypeOK, GetAtOnce
<1> QED
  BY <1>5, <1>7, <1>8, WaitingUnchanged DEF IInv, GetAtOnce

\* With the expired ones gone the queue is empty, and there is one more waiter.
LEMMA GetWaitsIInv ==
    ASSUME IInv, NEW t \in Threads, GetWaits(t)
    PROVE  IInv'
<1>1. remaining' \in Seq(Nat) /\ Len(remaining') = 0
  BY EmptySeq DEF GetWaits
<1>2. TypeOK'
  <2>1. fetcher' \in {"none", "loop", "tested", "wait", "call", "exited"}
    BY DEF IInv, TypeOK, GetWaits, Notified
  <2>2. waiters' \in Nat
    BY DEF IInv, TypeOK, GetWaits
  <2>3. get' \in [Threads -> {"idle", "enter", "wait", "got"}]
    BY DEF IInv, TypeOK, GetWaits
  <2> QED
    BY <1>1, <2>1, <2>2, <2>3 DEF IInv, TypeOK, GetWaits
<1>3. Waiting' = Waiting \cup {t} /\ t \notin Waiting
  BY DEF IInv, TypeOK, Waiting, GetWaits
<1>4. IsFiniteSet(Waiting') /\ WaitersExact'
  BY <1>3, FS_AddElement DEF IInv, WaitersExact, Waiting, GetWaits
<1>5. GoodQueue(remaining', next') /\ GoodHands(granted', remaining', next')
  BY <1>1 DEF IInv, GetWaits, GoodQueue, GoodHands
<1> QED
  BY <1>2, <1>4, <1>5 DEF IInv, GetWaits

\* A waiter that leaves is not counted any more.
LEMMA WaiterLeaves ==
    ASSUME IInv, NEW t \in Threads, get[t] = "wait",
           NEW g \in {"idle", "got"}, get' = [get EXCEPT ![t] = g],
           waiters' = waiters - 1
    PROVE  IsFiniteSet(Waiting') /\ WaitersExact' /\ waiters' \in Nat
<1>1. Waiting' = Waiting \ {t} /\ t \in Waiting
  BY DEF IInv, TypeOK, Waiting
<1>2. IsFiniteSet(Waiting') /\ Cardinality(Waiting') = Cardinality(Waiting) - 1
  BY <1>1, FS_RemoveElement DEF IInv
<1>3. WaitersExact'
  BY <1>2 DEF IInv, WaitersExact, Waiting
<1> QED
  BY <1>2, <1>3, FS_CardinalityType DEF WaitersExact, Waiting

\* A waiter pops the first grant.
LEMMA GetTakesIInv ==
    ASSUME IInv, NEW t \in Threads, GetTakes(t)
    PROVE  IInv'
<1> DEFINE p == Tail(remaining)
<1>1. remaining \in Seq(Nat) /\ remaining # << >> /\ Len(remaining) \in Nat
  BY LenProperties DEF IInv, TypeOK, GetTakes
<1>2. /\ p \in Seq(Nat)
      /\ Len(p) = Len(remaining) - 1
      /\ \A i \in 1 .. Len(p) : p[i] = remaining[i + 1]
  BY <1>1, HeadTailProperties
<1>3. Len(remaining) # 0
  BY <1>1, EmptySeq
<1>4. 1 \in 1 .. Len(remaining) /\ Head(remaining) = remaining[1]
  BY <1>1, <1>3
<1>5. \A i \in 1 .. Len(remaining) - 1 : p[i] = remaining[1 + i]
  BY <1>1, <1>2
<1>6. /\ remaining' = p
      /\ granted' = [granted EXCEPT ![t] = remaining[1]]
      /\ next' = next
  BY <1>4 DEF GetTakes, Popped
<1> HIDE DEF p
<1>7. /\ GoodQueue(remaining', next')
      /\ GoodHands(granted', remaining', next')
  BY <1>1, <1>2, <1>4, <1>5, <1>6, TakenFromQueue DEF IInv, TypeOK
<1>8. IsFiniteSet(Waiting') /\ WaitersExact' /\ waiters' \in Nat
  BY WaiterLeaves DEF GetTakes
<1>9. remaining[1] \in Nat
  BY <1>1, <1>4, ElementOfSeq
<1>10. TypeOK'
  <2>1. get' \in [Threads -> {"idle", "enter", "wait", "got"}]
    BY DEF IInv, TypeOK, GetTakes
  <2> QED
    BY <1>2, <1>6, <1>8, <1>9, <2>1 DEF IInv, TypeOK, GetTakes
<1> QED
  BY <1>7, <1>8, <1>10 DEF IInv, GetTakes

\* A waiter gives up.
LEMMA GetTimesOutIInv ==
    ASSUME IInv, NEW t \in Threads, GetTimesOut(t)
    PROVE  IInv'
<1>1. IsFiniteSet(Waiting') /\ WaitersExact' /\ waiters' \in Nat
  BY WaiterLeaves DEF GetTimesOut, GivenUp
<1>2. TypeOK'
  BY <1>1 DEF IInv, TypeOK, GetTimesOut
<1> QED
  BY <1>1, <1>2 DEF IInv, GetTimesOut

\* A hand is empty again.
LEMMA FreeIInv ==
    ASSUME IInv, NEW t \in Threads, Free(t)
    PROVE  IInv'
<1>1. TypeOK'
  BY DEF IInv, TypeOK, Free, NoGrant
<1>2. \A u \in Threads : get'[u] = "wait" <=> get[u] = "wait"
  BY DEF IInv, TypeOK, Free
<1>3. GoodHands(granted', remaining', next')
  BY DEF IInv, TypeOK, Free, GoodHands
<1> QED
  BY <1>1, <1>2, <1>3, WaitingUnchanged DEF IInv, Free

\* The fetcher appends what the scheduler has granted.
LEMMA FetcherReceivesIInv ==
    ASSUME IInv, NEW n \in 1 .. asked + 1, FetcherReceives(n)
    PROVE  IInv'
<1>1. n \in Nat /\ next \in Nat /\ next >= 1 /\ remaining \in Seq(Nat)
      /\ granted \in [Threads -> Nat]
  BY DEF IInv, TypeOK
<1>2. /\ remaining' = remaining \o [i \in 1 .. n |-> next + i - 1]
      /\ next' = next + n
      /\ granted' = granted
  BY DEF FetcherReceives
<1>3. /\ remaining' \in Seq(Nat)
      /\ GoodQueue(remaining', next')
      /\ GoodHands(granted', remaining', next')
  BY <1>1, <1>2, GrantsAppended DEF IInv
<1>4. TypeOK'
  BY <1>1, <1>3 DEF IInv, TypeOK, FetcherReceives
<1> QED
  BY <1>1, <1>3, <1>4, WaitingUnchanged DEF IInv, FetcherReceives

\* The fetcher's other steps, Stop's and the scheduler's touch no grant.
LEMMA OtherStepsIInv ==
    ASSUME IInv,
           \/ FetcherTests \/ FetcherSleeps \/ FetcherFails
           \/ StopLeaving \/ StopNotifies
           \/ \E id \in 1 .. next - 1 : GrantLapses(id)
    PROVE  IInv'
<1>1. UNCHANGED <<remaining, waiters, get, granted, next>>
  BY DEF FetcherTests, FetcherSleeps, FetcherFails, StopLeaving, StopNotifies,
         GrantLapses
<1>2. TypeOK'
  <2>1. CASE FetcherTests
    BY <2>1 DEF IInv, TypeOK, FetcherTests
  <2>2. CASE FetcherSleeps \/ FetcherFails
    BY <2>2 DEF IInv, TypeOK, FetcherSleeps, FetcherFails
  <2>3. CASE StopLeaving
    BY <2>3 DEF IInv, TypeOK, StopLeaving
  <2>4. CASE StopNotifies
    BY <2>4 DEF IInv, TypeOK, StopNotifies, Notified
  <2>5. CASE \E id \in 1 .. next - 1 : GrantLapses(id)
    <3>1. PICK id \in 1 .. next - 1 : GrantLapses(id)
      BY <2>5
    <3>2. lapsed' \subseteq Nat
      BY <3>1 DEF IInv, TypeOK, GrantLapses
    <3> QED
      BY <3>1, <3>2 DEF IInv, TypeOK, GrantLapses
  <2> QED
    BY <2>1, <2>2, <2>3, <2>4, <2>5
<1> QED
  BY <1>1, <1>2, WaitingUnchanged DEF IInv

\* Every step preserves the inductive invariant.
LEMMA NextIInv ==
    ASSUME IInv, [Next]_vars
    PROVE  IInv'
<1>1. CASE \E t \in Threads : Getter(t) \/ Free(t)
  BY <1>1, FindKeeperIInv, GetAtOnceIInv, GetWaitsIInv, GetTakesIInv,
     GetTimesOutIInv, FreeIInv DEF Getter
<1>2. CASE Fetcher
  BY <1>2, FetcherReceivesIInv, OtherStepsIInv DEF Fetcher
<1>3. CASE \/ StopLeaving \/ StopNotifies
           \/ \E id \in 1 .. next - 1 : GrantLapses(id)
  BY <1>3, OtherStepsIInv
<1>4. CASE UNCHANGED vars
  BY <1>4 DEF vars, IInv, TypeOK, WaitersExact, Waiting, GoodQueue, GoodHands
<1> QED
  BY <1>1, <1>2, <1>3, <1>4 DEF Next

\* The invariant holds in every reachable state.
LEMMA IInvHolds == Spec => []IInv
<1>1. IInv /\ [Next]_vars => IInv'
  BY NextIInv
<1> QED
  BY InitIInv, <1>1, PTL DEF Spec

-----------------------------------------------------------------------------
(***************************************************************************)
(* The theorems.                                                           *)
(***************************************************************************)

\* The grant keeper's state has the declared types in every reachable state.
THEOREM TypesCorrect == Spec => []TypeOK
<1>1. IInv => TypeOK
  BY DEF IInv
<1> QED
  BY IInvHolds, <1>1, PTL

\* Whatever threads call Get, time out, take and free, and whatever the fetcher
\* brings meanwhile, a grant is once in the queue or in one thread's hand: two
\* tasks of a daemon never run under one grant.
THEOREM GrantsNeverShared == Spec => []GrantsInOnePlace
<1>1. IInv => GrantsInOnePlace
  <2> SUFFICES ASSUME IInv PROVE GrantsInOnePlace
    OBVIOUS
  <2>1. InQueue \cap InHand = {}
    BY DEF IInv, GoodHands, InQueue, InHand
  <2>2. Cardinality(InQueue) = Len(remaining)
    BY QueueCounted DEF IInv, TypeOK, InQueue
  <2>3. \A t, u \in Threads :
           t # u /\ granted[t] = granted[u] => granted[t] = NoGrant
    BY DEF IInv, GoodHands
  <2> QED
    BY <2>1, <2>2, <2>3 DEF GrantsInOnePlace
<1> QED
  BY IInvHolds, <1>1, PTL

\* `waiters', which tells the fetcher how many grants to ask for, is the number
\* of threads inside Get's wait, through every time-out and every grant taken.
THEOREM WaitersCounted == Spec => []WaitersExact
<1>1. IInv => WaitersExact
  BY DEF IInv
<1> QED
  BY IInvHolds, <1>1, PTL

=============================================================================
