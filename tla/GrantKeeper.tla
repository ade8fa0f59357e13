----------------------------- MODULE GrantKeeper -----------------------------
(***************************************************************************)
(* TaskGrantKeeper of a requesting daemon, for one compiler: the threads   *)
(* that perform tasks call Get, a fetcher thread (started by the first     *)
(* Get) asks the scheduler for as many grants as threads are waiting, and  *)
(* one more in advance.                                                    *)
(*                                                                         *)
(* An action is a critical section of the EnvGrantKeeper's mutex.  Stop    *)
(* does not take that mutex, so the fetcher's test of its condition and    *)
(* its going to sleep on it are two actions with the mutex held between.   *)
(***************************************************************************)
EXTENDS Integers, Sequences, FiniteSets

CONSTANTS
    Threads,     \* threads that perform tasks
    KeptFor,     \* kMaxWait - kNetworkDelayTolerance: how long a grant is good;
                 \* both are 5 s in the code
    MaxGrants    \* bound: grants asked for

ASSUME GrantKeeperAssumption ==
    /\ KeptFor \in Nat
    /\ MaxGrants \in Nat

VARIABLES
    created,   \* keepers_ has an entry for the compiler
    fetcher,   \* pc of GrantFetcherProc, or "none"
    asked,     \* immeadiate_reqs of the call in progress
    remaining, \* remaining: the queue of grants
    waiters,   \* waiters
    get,       \* thread -> "idle", "enter", "wait", "got"
    granted,   \* thread -> the grant Get has returned
    stop,      \* Stop: "no", "leaving" (leaving_ is set), "done" (notified)
    lapsed,    \* scheduler: grants whose time is over
    next       \* scheduler: the next grant id

vars == <<created, fetcher, asked, remaining, waiters, get, granted, stop,
          lapsed, next>>

leaving == stop # "no"

\* keeper->mutex is free.
Unlocked == fetcher # "tested"

NoGrant == 0

-----------------------------------------------------------------------------
(***************************************************************************)
(* Get.                                                                    *)
(***************************************************************************)

\* The keeper is found, or made and its fetcher started.  When the pool has
\* no thread the exception leaves Get, and leaves the keeper in the map.
FindKeeper(t) ==
    /\ get[t] = "idle"
    /\ stop # "leaving"
    /\ \/ /\ created
          /\ get' = [get EXCEPT ![t] = "enter"]
          /\ UNCHANGED <<created, fetcher>>
       \/ /\ ~created
          /\ created' = TRUE
          /\ fetcher' = "loop"
          /\ get' = [get EXCEPT ![t] = "enter"]
       \/ /\ ~created
          /\ created' = TRUE
          /\ UNCHANGED <<fetcher, get>>
    /\ UNCHANGED <<asked, remaining, waiters, granted, stop, lapsed, next>>

\* The grants at the front of the queue, as many as may have expired: expire_tp
\* is the arrival plus KeptFor, and when that is nothing every later look at the
\* clock finds all of them expired.
Expired == IF KeptFor = 0 THEN {Len(remaining)} ELSE 0 .. Len(remaining)

\* Variant: the fetcher is not told.
NotNotified == fetcher

\* need_more_cv.notify_all().
Notified == IF fetcher = "wait" THEN "loop" ELSE fetcher

\* n expired grants are dropped; then a grant is at hand, ...
GetAtOnce(t, n) ==
    /\ Unlocked
    /\ get[t] = "enter"
    /\ n \in Expired
    /\ n < Len(remaining)
    /\ granted' = [granted EXCEPT ![t] = remaining[n + 1]]
    /\ remaining' = SubSeq(remaining, n + 2, Len(remaining))
    /\ get' = [get EXCEPT ![t] = "got"]
    /\ UNCHANGED <<created, fetcher, asked, waiters, stop, lapsed, next>>

\* ... or none is left and the thread becomes a waiter.
GetWaits(t) ==
    /\ Unlocked
    /\ get[t] = "enter"
    /\ Len(remaining) \in Expired
    /\ remaining' = << >>
    /\ waiters' = waiters + 1
    /\ fetcher' = Notified
    /\ get' = [get EXCEPT ![t] = "wait"]
    /\ UNCHANGED <<created, asked, granted, stop, lapsed, next>>

\* Variant: the grant stays in the queue.
NotPopped == remaining

Popped == Tail(remaining)

\* available_cv.wait_for ends with a grant in the queue: no look at expire_tp.
GetTakes(t) ==
    /\ Unlocked
    /\ get[t] = "wait"
    /\ remaining # << >>
    /\ granted' = [granted EXCEPT ![t] = Head(remaining)]
    /\ remaining' = Popped
    /\ waiters' = waiters - 1
    /\ get' = [get EXCEPT ![t] = "got"]
    /\ UNCHANGED <<created, fetcher, asked, stop, lapsed, next>>

\* Variant: the waiter is still counted.
StillWaiting == waiters

GivenUp == waiters - 1

\* ... or with nothing: Get returns nullopt and its caller tries again.
GetTimesOut(t) ==
    /\ Unlocked
    /\ get[t] = "wait"
    /\ remaining = << >>
    /\ waiters' = GivenUp
    /\ get' = [get EXCEPT ![t] = "idle"]
    /\ UNCHANGED <<created, fetcher, asked, remaining, granted, stop, lapsed, next>>

\* The task is done with its grant (Free is a call to the scheduler).
Free(t) ==
    /\ get[t] = "got"
    /\ get' = [get EXCEPT ![t] = "idle"]
    /\ granted' = [granted EXCEPT ![t] = NoGrant]
    /\ UNCHANGED <<created, fetcher, asked, remaining, waiters, stop, lapsed, next>>

-----------------------------------------------------------------------------
(***************************************************************************)
(* GrantFetcherProc.  pc "loop" is before the test of the condition,       *)
(* "tested" after a test that failed, with the mutex held, "wait" asleep   *)
(* on need_more_cv, "call" in WaitForStaringTask.                          *)
(***************************************************************************)

FetcherTests ==
    /\ fetcher = "loop"
    /\ \/ /\ leaving
          /\ fetcher' = "exited"
          /\ UNCHANGED asked
       \/ /\ ~leaving /\ remaining = << >>
          /\ next + waiters + 1 <= MaxGrants + 1
          /\ fetcher' = "call"
          /\ asked' = waiters
       \/ /\ ~leaving /\ remaining # << >>
          /\ fetcher' = "tested"
          /\ UNCHANGED asked
    /\ UNCHANGED <<created, remaining, waiters, get, granted, stop, lapsed, next>>

FetcherSleeps ==
    /\ fetcher = "tested"
    /\ fetcher' = "wait"
    /\ UNCHANGED <<created, asked, remaining, waiters, get, granted, stop, lapsed,
                   next>>

\* The scheduler grants one task at least and asked + 1 at most.
FetcherReceives(n) ==
    /\ fetcher = "call"
    /\ remaining' = remaining \o [i \in 1 .. n |-> next + i - 1]
    /\ next' = next + n
    /\ fetcher' = "loop"
    /\ UNCHANGED <<created, asked, waiters, get, granted, stop, lapsed>>

\* The call fails: the fetcher sleeps for a moment and tries again.
FetcherFails ==
    /\ fetcher = "call"
    /\ fetcher' = "loop"
    /\ UNCHANGED <<created, asked, remaining, waiters, get, granted, stop, lapsed,
                   next>>

\* The scheduler lets a grant expire that nobody has kept alive.
GrantLapses(id) ==
    /\ id \notin lapsed
    /\ lapsed' = lapsed \cup {id}
    /\ UNCHANGED <<created, fetcher, asked, remaining, waiters, get, granted, stop,
                   next>>

-----------------------------------------------------------------------------
\* Stop sets leaving_ ...
StopLeaving ==
    /\ stop = "no"
    /\ stop' = "leaving"
    /\ UNCHANGED <<created, fetcher, asked, remaining, waiters, get, granted,
                   lapsed, next>>

\* ... and notifies every keeper, without its mutex.
StopNotifies ==
    /\ stop = "leaving"
    /\ stop' = "done"
    /\ fetcher' = Notified
    /\ UNCHANGED <<created, asked, remaining, waiters, get, granted, lapsed, next>>

-----------------------------------------------------------------------------
Init ==
    /\ created = FALSE
    /\ fetcher = "none"
    /\ asked = 0
    /\ remaining = << >>
    /\ waiters = 0
    /\ get = [t \in Threads |-> "idle"]
    /\ granted = [t \in Threads |-> NoGrant]
    /\ stop = "no"
    /\ lapsed = {}
    /\ next = 1

Fetcher == \/ FetcherTests
           \/ FetcherSleeps
           \/ \E n \in 1 .. asked + 1 : FetcherReceives(n)
           \/ FetcherFails

Getter(t) == \/ FindKeeper(t)
             \/ \E n \in 0 .. Len(remaining) : GetAtOnce(t, n)
             \/ GetWaits(t)
             \/ GetTakes(t)
             \/ GetTimesOut(t)

Next == \/ \E t \in Threads : Getter(t) \/ Free(t)
        \/ Fetcher
        \/ \E id \in 1 .. next - 1 : GrantLapses(id)
        \/ StopLeaving
        \/ StopNotifies

Spec == Init /\ [][Next]_vars

-----------------------------------------------------------------------------
(***************************************************************************)
(* Properties.                                                             *)
(***************************************************************************)

InQueue == {remaining[i] : i \in 1 .. Len(remaining)}

InHand == {granted[t] : t \in Threads} \ {NoGrant}

\* Types.
TypeOK ==
    /\ created \in BOOLEAN
    /\ fetcher \in {"none", "loop", "tested", "wait", "call", "exited"}
    /\ asked \in Nat
    /\ remaining \in Seq(Nat)
    /\ waiters \in Nat
    /\ get \in [Threads -> {"idle", "enter", "wait", "got"}]
    /\ granted \in [Threads -> Nat]
    /\ stop \in {"no", "leaving", "done"}
    /\ lapsed \subseteq Nat
    /\ next \in Nat

\* A grant is in one place: once in the queue, or in the hands of one thread;
\* two tasks never run under one grant.
GrantsInOnePlace ==
    /\ InQueue \cap InHand = {}
    /\ Cardinality(InQueue) = Len(remaining)
    /\ \A t, u \in Threads : t # u /\ granted[t] = granted[u] => granted[t] = NoGrant

\* `waiters', from which the fetcher computes what it asks for, is the number
\* of threads that wait.
WaitersExact == waiters = Cardinality({t \in Threads : get[t] = "wait"})

\* The fetcher and Stop run; a thread calls Get until it has a grant, and its
\* wait is a timed one.
FairSpec ==
    /\ Spec
    /\ WF_vars(Fetcher)
    /\ WF_vars(StopNotifies)
    /\ \A t \in Threads : WF_vars(Getter(t))

\* A thread that waits gets a grant, or at least the fetcher goes and asks the
\* scheduler: the two do not sleep facing each other for good.  (When the pool
\* had no thread for the fetcher, nobody will ask.)
WaitersAreServed ==
    \A t \in Threads : get[t] = "wait" ~> \/ get[t] = "got"
                                          \/ fetcher = "call"
                                          \/ leaving
                                          \/ fetcher = "none"
                                          \/ next + waiters > MaxGrants

=============================================================================
