---------------------------- MODULE MCScheduler ----------------------------
(***************************************************************************)
(* Small instances of Scheduler for TLC.                                   *)
(***************************************************************************)
EXTENDS Scheduler, TLC

Symmetry == Permutations(Callers) \cup Permutations(Handlers)
                \cup Permutations(ServantIds)

\* A usual heartbeat of a servant with c slots on c idle cores.
Normal(c) == [token |-> "servant", version |-> 1, next |-> "normal",
              cores |-> c, load |-> 0, low_memory |-> FALSE,
              concurrency |-> c, priority |-> "user", envs |-> {"gcc"}]

\* A request for i grants now and p in advance.
Ask(i, p) == [env |-> "gcc", min_version |-> 1, imm |-> i, pre |-> p]

\* One servant.
OneDaemon == {"d1"}
OneObserved == [d \in OneDaemon |-> "l1"]
OneSlotLeaving ==
    [d \in OneDaemon |-> {Normal(1), [Normal(1) EXCEPT !.next = "zero"]}]
OneSlotLowMemory ==
    [d \in OneDaemon |->
       {Normal(1), [Normal(1) EXCEPT !.low_memory = TRUE]}]

\* A servant with two slots on two cores that are both busy for others.
Overloaded == [d \in OneDaemon |-> {[Normal(2) EXCEPT !.load = 3]}]

AskOne == {Ask(1, 0)}
AskBoth == {Ask(1, 1)}
=============================================================================
