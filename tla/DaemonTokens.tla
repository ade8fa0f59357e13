---------------------------- MODULE DaemonTokens ----------------------------
(***************************************************************************)
(* The tokens with which one daemon calls another.  The scheduler keeps    *)
(* three of them, the oldest about to expire, the middle one in use, the   *)
(* newest being deployed, and rolls them over when it is asked for them    *)
(* after the rollout interval.  A servant learns all three from the        *)
(* answers to its heartbeats; a requesting daemon (ConfigKeeper) fetches   *)
(* the middle one and shows it to servants.                                *)
(*                                                                         *)
(* Tokens are random; here the n-th token ever made is n.  Each daemon has *)
(* at most one call of each kind in flight (one timer thread per kind).    *)
(***************************************************************************)
EXTENDS Integers, Sequences

CONSTANTS
    Servants,    \* daemons that verify tokens
    Clients,     \* daemons that show tokens
    MaxTokens,   \* bound: tokens made
    MaxRestarts  \* bound: restarts of the scheduler

ASSUME BoundsAssumption == MaxTokens \in Nat /\ MaxRestarts \in Nat

VARIABLES
    active,   \* active_daemon_tokens_, a deque of three
    minted,   \* tokens made so far
    due,      \* next_token_rollout_ has passed
    epoch,    \* which run of the scheduler process this is
    accepted, \* servant -> token_verifier_ and the epoch it is from
    beats,    \* servant -> the answer to its heartbeat, in flight
    serving,  \* client -> serving_daemon_token_ and the epoch it is from
    fetches   \* client -> the answer to its GetConfig, in flight

vars == <<active, minted, due, epoch, accepted, beats, serving, fetches>>

\* What a daemon knows before it has heard from the scheduler; as an answer
\* in flight: there is none.
Nothing == [tokens |-> {}, epoch |-> 0]

Knowledge == [tokens : SUBSET Nat, epoch : Nat]

-----------------------------------------------------------------------------
(***************************************************************************)
(* The scheduler.                                                          *)
(***************************************************************************)

\* The deque after a rollover.
Rolled == Append(Tail(active), minted)

\* ActiveDaemonTokens: the three tokens, rolled over when it is time.
ActiveDaemonTokens == IF due THEN Rolled ELSE active

Roll == /\ active' = ActiveDaemonTokens
        /\ minted' = IF due THEN minted + 1 ELSE minted
        /\ due' = FALSE

TokensOf(deque) == {deque[i] : i \in 1 .. Len(deque)}

\* Variant: the token that is being deployed is handed out.
NewestToken(deque) == {deque[3]}

\* The token GetConfig hands out.
ServingToken(deque) == {deque[2]}

\* HeartBeat answers with all three.
HeartBeat(s) ==
    /\ beats[s] = Nothing
    /\ Roll
    /\ beats' = [beats EXCEPT ![s] = [tokens |-> TokensOf(ActiveDaemonTokens),
                                      epoch |-> epoch]]
    /\ UNCHANGED <<epoch, accepted, serving, fetches>>

GetConfig(c) ==
    /\ fetches[c] = Nothing
    /\ Roll
    /\ fetches' = [fetches EXCEPT ![c] =
                     [tokens |-> ServingToken(ActiveDaemonTokens), epoch |-> epoch]]
    /\ UNCHANGED <<epoch, accepted, beats, serving>>

\* The scheduler starts again, with three new tokens.
SchedulerRestarts ==
    /\ epoch <= MaxRestarts
    /\ minted + 3 <= MaxTokens
    /\ active' = <<minted, minted + 1, minted + 2>>
    /\ minted' = minted + 3
    /\ due' = FALSE
    /\ epoch' = epoch + 1
    /\ UNCHANGED <<accepted, beats, serving, fetches>>

-----------------------------------------------------------------------------
(***************************************************************************)
(* The daemons.                                                            *)
(***************************************************************************)

\* The heartbeat's answer arrives: the verifier is replaced.
UpdateTokens(s) ==
    /\ beats[s] # Nothing
    /\ accepted' = [accepted EXCEPT ![s] = beats[s]]
    /\ beats' = [beats EXCEPT ![s] = Nothing]
    /\ UNCHANGED <<active, minted, due, epoch, serving, fetches>>

\* The call fails: what is known stays.
HeartBeatFails(s) ==
    /\ beats[s] # Nothing
    /\ beats' = [beats EXCEPT ![s] = Nothing]
    /\ UNCHANGED <<active, minted, due, epoch, accepted, serving, fetches>>

\* Variant: only the first token is stored.
StoredOnce(known, reply) == IF known = Nothing THEN reply ELSE known

\* serving_daemon_token_ after an answer.
Stored(known, reply) == reply

OnTimerFetchConfig(c) ==
    /\ fetches[c] # Nothing
    /\ serving' = [serving EXCEPT ![c] = Stored(@, fetches[c])]
    /\ fetches' = [fetches EXCEPT ![c] = Nothing]
    /\ UNCHANGED <<active, minted, due, epoch, accepted, beats>>

FetchFails(c) ==
    /\ fetches[c] # Nothing
    /\ fetches' = [fetches EXCEPT ![c] = Nothing]
    /\ UNCHANGED <<active, minted, due, epoch, accepted, beats, serving>>

ServantRestarts(s) ==
    /\ accepted' = [accepted EXCEPT ![s] = Nothing]
    /\ beats' = [beats EXCEPT ![s] = Nothing]
    /\ UNCHANGED <<active, minted, due, epoch, serving, fetches>>

ClientRestarts(c) ==
    /\ serving' = [serving EXCEPT ![c] = Nothing]
    /\ fetches' = [fetches EXCEPT ![c] = Nothing]
    /\ UNCHANGED <<active, minted, due, epoch, accepted, beats>>

\* IsTokenAcceptable, for the token client c shows to servant s.
IsTokenAcceptable(c, s) ==
    serving[c].tokens # {} /\ serving[c].tokens \subseteq accepted[s].tokens

-----------------------------------------------------------------------------
(***************************************************************************)
(* Time.  A rollout interval is 3000 seconds, a heartbeat is sent every    *)
(* second and the configuration fetched every ten: when an interval ends,  *)
(* what a daemon knows of this scheduler, and what is on its way to it,    *)
(* was handed out within the interval.                                     *)
(***************************************************************************)

UpToDate(k, tokens) == k.epoch = epoch => k.tokens = tokens

RolloutDue ==
    /\ ~due
    /\ minted < MaxTokens
    /\ \A s \in Servants : /\ UpToDate(accepted[s], TokensOf(active))
                           /\ UpToDate(beats[s], TokensOf(active))
    /\ \A c \in Clients : /\ UpToDate(serving[c], ServingToken(active))
                          /\ UpToDate(fetches[c], ServingToken(active))
    /\ due' = TRUE
    /\ UNCHANGED <<active, minted, epoch, accepted, beats, serving, fetches>>

Init ==
    /\ active = <<0, 1, 2>>
    /\ minted = 3
    /\ due = FALSE
    /\ epoch = 1
    /\ accepted = [s \in Servants |-> Nothing]
    /\ beats = [s \in Servants |-> Nothing]
    /\ serving = [c \in Clients |-> Nothing]
    /\ fetches = [c \in Clients |-> Nothing]

Next == \/ \E s \in Servants : \/ HeartBeat(s)
                               \/ UpdateTokens(s)
                               \/ HeartBeatFails(s)
                               \/ ServantRestarts(s)
        \/ \E c \in Clients : \/ GetConfig(c)
                              \/ OnTimerFetchConfig(c)
                              \/ FetchFails(c)
                              \/ ClientRestarts(c)
        \/ SchedulerRestarts
        \/ RolloutDue

Spec == Init /\ [][Next]_vars

-----------------------------------------------------------------------------
(***************************************************************************)
(* Properties.                                                             *)
(***************************************************************************)

\* The scheduler holds exactly three tokens (the DISTBU_CHECK in
\* ActiveDaemonTokens, on which GetConfig's index depends).
TypeOK ==
    /\ active \in Seq(Nat) /\ Len(active) = 3
    /\ minted \in Nat
    /\ due \in BOOLEAN
    /\ epoch \in Nat
    /\ accepted \in [Servants -> Knowledge]
    /\ beats \in [Servants -> Knowledge]
    /\ serving \in [Clients -> Knowledge]
    /\ fetches \in [Clients -> Knowledge]

\* A servant accepts the token of every client that has heard from the same
\* run of the scheduler as the servant, through every rollover, whichever of
\* the two has heard of it first.
TokensAgree ==
    \A s \in Servants, c \in Clients :
        accepted[s].epoch = epoch /\ serving[c].epoch = epoch
            => IsTokenAcceptable(c, s)

\* Heartbeats and fetches are repeated for ever and do not all fail.
Fairness ==
    /\ \A s \in Servants : WF_vars(HeartBeat(s)) /\ SF_vars(UpdateTokens(s))
    /\ \A c \in Clients : WF_vars(GetConfig(c)) /\ SF_vars(OnTimerFetchConfig(c))

\* Scheduler restarts are rare; daemons' restarts come to an end.
FairSpec == /\ Spec
            /\ Fairness
            /\ <>[][/\ \A s \in Servants : ~ServantRestarts(s)
                    /\ \A c \in Clients : ~ClientRestarts(c)]_vars

\* After a restart of the scheduler or of a daemon, calls are accepted again.
TokensAgreeAgain ==
    \A s \in Servants, c \in Clients : []<>IsTokenAcceptable(c, s)

=============================================================================
