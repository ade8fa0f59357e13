------------------------- MODULE DaemonTokensProofs -------------------------
(***************************************************************************)
(* Agreement of DaemonTokens for every set of servants and clients, every  *)
(* number of tokens and every number of restarts.                          *)
(***************************************************************************)
EXTENDS DaemonTokens, SequenceTheorems, TLAPS

\* What a servant knows of run e of the scheduler, whose deque is d: the tokens
\* of now, or, unless the next rollover is already due, those before the last
\* rollover, two of which are still active.
ServantKnows(k, d, late, e) ==
    /\ k.epoch <= e
    /\ k.epoch = e => \/ k.tokens = {d[1], d[2], d[3]}
                      \/ ~late /\ d[1] \in k.tokens /\ d[2] \in k.tokens

\* What a client knows: the serving token of now or of before the rollover.
ClientKnows(k, d, late, e) ==
    /\ k.epoch <= e
    /\ k.epoch = e => \/ k.tokens = {d[2]}
                      \/ ~late /\ k.tokens = {d[1]}

\* All daemons, and the answers on their way to them.
AllKnow ==
    /\ \A s \in Servants : /\ ServantKnows(accepted[s], active, due, epoch)
                           /\ ServantKnows(beats[s], active, due, epoch)
    /\ \A c \in Clients : /\ ClientKnows(serving[c], active, due, epoch)
                          /\ ClientKnows(fetches[c], active, due, epoch)

\* The invariant that is preserved by every step.
IInv == TypeOK /\ epoch > 0 /\ AllKnow

-----------------------------------------------------------------------------
\* Nothing is knowledge of no run of the scheduler.
LEMMA NothingIsOld ==
    ASSUME NEW d, NEW late, NEW e \in Nat, e > 0
    PROVE  /\ Nothing \in Knowledge
           /\ ServantKnows(Nothing, d, late, e)
           /\ ClientKnows(Nothing, d, late, e)
  BY DEF Nothing, Knowledge, ServantKnows, ClientKnows

\* The three tokens of a deque, one by one.
LEMMA TokensOfThree ==
    ASSUME NEW d \in Seq(Nat), Len(d) = 3
    PROVE  /\ TokensOf(d) = {d[1], d[2], d[3]}
           /\ TokensOf(d) \in SUBSET Nat
           /\ d[1] \in Nat /\ d[2] \in Nat /\ d[3] \in Nat
<1>1. 1 .. Len(d) = {1, 2, 3}
  <2>1. 1 .. 3 = {1, 2, 3}
    OBVIOUS
  <2> QED
    BY <2>1
<1>2. \A i \in 1 .. Len(d) : d[i] \in Nat
  BY ElementOfSeq
<1>3. d[1] \in Nat /\ d[2] \in Nat /\ d[3] \in Nat
  BY <1>1, <1>2
<1>4. TokensOf(d) = {d[1], d[2], d[3]}
  BY <1>1 DEF TokensOf
<1> QED
  BY <1>3, <1>4

\* Three naturals are a deque of three.
LEMMA ThreeNaturals ==
    ASSUME NEW x \in Nat, NEW y \in Nat, NEW z \in Nat
    PROVE  <<x, y, z>> \in Seq(Nat) /\ Len(<<x, y, z>>) = 3
<1>1. <<x, y, z>> \in Seq(Nat)
  OBVIOUS
<1>2. Len(<<x, y, z>>) = 3
  OBVIOUS
<1> QED
  BY <1>1, <1>2

\* Dropping the first of three and adding one leaves three, two of them old.
LEMMA ShiftOfThree ==
    ASSUME NEW d \in Seq(Nat), Len(d) = 3, NEW n \in Nat,
           NEW r, r = Append(Tail(d), n)
    PROVE  r \in Seq(Nat) /\ Len(r) = 3 /\ r[1] = d[2] /\ r[2] = d[3]
<1> DEFINE t == Tail(d)
<1>1. d # << >>
  BY EmptySeq
<1>2. t \in Seq(Nat)
  BY <1>1, HeadTailProperties
<1>3. Len(t) = Len(d) - 1
  BY <1>1, HeadTailProperties
<1>4. \A i \in 1 .. Len(t) : t[i] = d[i + 1]
  BY <1>1, HeadTailProperties
<1>5. t[1] = d[2] /\ t[2] = d[3]
  BY ONLY Len(d) = 3, <1>3, <1>4
<1>6. Len(t) = 2 /\ r = Append(t, n)
  BY <1>3
<1> HIDE DEF t
<1>7. r \in Seq(Nat)
  BY <1>2, <1>6, AppendProperties
<1>8. Len(r) = 3
  BY <1>2, <1>6, AppendProperties
<1>9. r[1] = t[1] /\ r[2] = t[2]
  BY <1>2, <1>6
<1> QED
  BY <1>5, <1>7, <1>8, <1>9

\* A new scheduler and daemons that know nothing satisfy the invariant.
LEMMA InitIInv == Init => IInv
<1> SUFFICES ASSUME Init PROVE IInv
  OBVIOUS
<1>1. active \in Seq(Nat) /\ Len(active) = 3
  <2>1. active = <<0, 1, 2>> /\ 0 \in Nat /\ 1 \in Nat /\ 2 \in Nat
    BY DEF Init
  <2> QED
    BY ONLY <2>1, ThreeNaturals, Zenon
<1>2. minted \in Nat /\ due \in BOOLEAN /\ epoch \in Nat /\ epoch > 0
  <2>1. minted = 3 /\ due = FALSE /\ epoch = 1
    BY Zenon DEF Init
  <2>2. minted \in Nat /\ epoch \in Nat /\ epoch > 0
    BY ONLY <2>1
  <2>3. due \in BOOLEAN
    BY ONLY <2>1, Zenon
  <2> QED
    BY ONLY <2>2, <2>3, Zenon
<1>3. Nothing \in Knowledge
  BY DEF Nothing, Knowledge
<1>4. TypeOK
  BY <1>1, <1>2, <1>3 DEF Init, TypeOK
<1>5. AllKnow
  BY <1>2, NothingIsOld DEF Init, AllKnow
<1> QED
  BY <1>2, <1>4, <1>5 DEF IInv

\* A rollover drops the oldest token and keeps three.
LEMMA RollTypes ==
    ASSUME TypeOK, Roll
    PROVE  /\ active' \in Seq(Nat) /\ Len(active') = 3
           /\ minted' \in Nat /\ due' = FALSE
           /\ active' = ActiveDaemonTokens
           /\ ~due => active' = active
           /\ due => active'[1] = active[2] /\ active'[2] = active[3]
<1>1. CASE due
  <2>1. active' = Append(Tail(active), minted)
    BY <1>1 DEF Roll, ActiveDaemonTokens, Rolled
  <2>2. active \in Seq(Nat) /\ Len(active) = 3 /\ minted \in Nat
    BY DEF TypeOK
  <2>3. /\ active' \in Seq(Nat) /\ Len(active') = 3
        /\ active'[1] = active[2] /\ active'[2] = active[3]
    BY ONLY <2>1, <2>2, ShiftOfThree, Zenon
  <2>4. minted' = minted + 1 /\ due' = FALSE /\ active' = ActiveDaemonTokens
    BY <1>1 DEF Roll
  <2> QED
    BY ONLY <1>1, <2>2, <2>3, <2>4
<1>2. CASE ~due
  BY <1>2 DEF Roll, ActiveDaemonTokens, TypeOK
<1> QED
  BY <1>1, <1>2

\* A rollover leaves nobody who was up to date more than one rollover behind.
LEMMA RollKeepsKnowledge ==
    ASSUME TypeOK, Roll, epoch' = epoch, NEW k \in Knowledge
    PROVE  /\ ServantKnows(k, active, due, epoch)
                 => ServantKnows(k, active', due', epoch')
           /\ ClientKnows(k, active, due, epoch)
                 => ClientKnows(k, active', due', epoch')
<1>1. CASE due
  BY <1>1, RollTypes DEF ServantKnows, ClientKnows
<1>2. CASE ~due
  BY <1>2, RollTypes DEF ServantKnows, ClientKnows
<1> QED
  BY <1>1, <1>2

\* The answer to a heartbeat is knowledge of the tokens of now.
LEMMA HeartBeatIInv ==
    ASSUME IInv, NEW s \in Servants, HeartBeat(s)
    PROVE  IInv'
<1> DEFINE k == [tokens |-> TokensOf(active'), epoch |-> epoch]
<1>1. /\ TypeOK /\ Roll /\ epoch' = epoch /\ accepted' = accepted
      /\ serving' = serving /\ fetches' = fetches /\ epoch \in Nat /\ epoch > 0
      /\ accepted \in [Servants -> Knowledge] /\ beats \in [Servants -> Knowledge]
      /\ serving \in [Clients -> Knowledge] /\ fetches \in [Clients -> Knowledge]
  BY DEF IInv, HeartBeat, TypeOK
<1>2. /\ active' \in Seq(Nat) /\ Len(active') = 3 /\ minted' \in Nat
      /\ due' = FALSE /\ active' = ActiveDaemonTokens
  BY <1>1, RollTypes
<1>3. beats' = [beats EXCEPT ![s] = k]
  BY <1>2 DEF HeartBeat
<1>4. k \in Knowledge /\ ServantKnows(k, active', due', epoch')
  BY <1>1, <1>2, TokensOfThree DEF Knowledge, ServantKnows
<1>5. TypeOK'
  BY <1>1, <1>2, <1>3, <1>4 DEF TypeOK
<1>6. ASSUME NEW t \in Servants
      PROVE  /\ ServantKnows(accepted'[t], active', due', epoch')
             /\ ServantKnows(beats'[t], active', due', epoch')
  <2>1. /\ ServantKnows(accepted[t], active', due', epoch')
        /\ ServantKnows(beats[t], active', due', epoch')
    BY <1>1, RollKeepsKnowledge DEF IInv, AllKnow
  <2>2. beats'[t] = IF t = s THEN k ELSE beats[t]
    BY <1>1, <1>3
  <2> QED
    BY <1>1, <1>4, <2>1, <2>2
<1>7. \A c \in Clients : /\ ClientKnows(serving'[c], active', due', epoch')
                         /\ ClientKnows(fetches'[c], active', due', epoch')
  BY <1>1, RollKeepsKnowledge DEF IInv, AllKnow
<1> QED
  BY <1>1, <1>5, <1>6, <1>7 DEF IInv, AllKnow

\* The answer to GetConfig is knowledge of the serving token of now.
LEMMA GetConfigIInv ==
    ASSUME IInv, NEW c \in Clients, GetConfig(c)
    PROVE  IInv'
<1> DEFINE k == [tokens |-> ServingToken(active'), epoch |-> epoch]
<1>1. /\ TypeOK /\ Roll /\ epoch' = epoch /\ accepted' = accepted
      /\ serving' = serving /\ beats' = beats /\ epoch \in Nat /\ epoch > 0
      /\ accepted \in [Servants -> Knowledge] /\ beats \in [Servants -> Knowledge]
      /\ serving \in [Clients -> Knowledge] /\ fetches \in [Clients -> Knowledge]
  BY DEF IInv, GetConfig, TypeOK
<1>2. /\ active' \in Seq(Nat) /\ Len(active') = 3 /\ minted' \in Nat
      /\ due' = FALSE /\ active' = ActiveDaemonTokens
  BY <1>1, RollTypes
<1>3. fetches' = [fetches EXCEPT ![c] = k]
  BY <1>2 DEF GetConfig
<1>4. k \in Knowledge /\ ClientKnows(k, active', due', epoch')
  BY <1>1, <1>2, TokensOfThree DEF Knowledge, ClientKnows, ServingToken
<1>5. TypeOK'
  BY <1>1, <1>2, <1>3, <1>4 DEF TypeOK
<1>6. \A s \in Servants : /\ ServantKnows(accepted'[s], active', due', epoch')
                          /\ ServantKnows(beats'[s], active', due', epoch')
  BY <1>1, RollKeepsKnowledge DEF IInv, AllKnow
<1>7. ASSUME NEW d \in Clients
      PROVE  /\ ClientKnows(serving'[d], active', due', epoch')
             /\ ClientKnows(fetches'[d], active', due', epoch')
  <2>1. /\ ClientKnows(serving[d], active', due', epoch')
        /\ ClientKnows(fetches[d], active', due', epoch')
    BY <1>1, RollKeepsKnowledge DEF IInv, AllKnow
  <2>2. fetches'[d] = IF d = c THEN k ELSE fetches[d]
    BY <1>1, <1>3
  <2> QED
    BY <1>1, <1>4, <2>1, <2>2
<1> QED
  BY <1>1, <1>5, <1>6, <1>7 DEF IInv, AllKnow

\* Three new tokens: nobody has heard from this run of the scheduler.
LEMMA SchedulerRestartsIInv ==
    ASSUME IInv, SchedulerRestarts
    PROVE  IInv'
<1>1. /\ minted' = minted + 3 /\ due' = FALSE /\ epoch' = epoch + 1
      /\ accepted' = accepted /\ beats' = beats
      /\ serving' = serving /\ fetches' = fetches
  BY DEF SchedulerRestarts
<1>2. /\ minted \in Nat /\ epoch \in Nat /\ epoch > 0
      /\ accepted \in [Servants -> Knowledge] /\ beats \in [Servants -> Knowledge]
      /\ serving \in [Clients -> Knowledge] /\ fetches \in [Clients -> Knowledge]
  BY DEF IInv, TypeOK
<1>3. active' \in Seq(Nat) /\ Len(active') = 3
  <2>1. minted \in Nat /\ minted + 1 \in Nat /\ minted + 2 \in Nat
    BY <1>2
  <2>2. active' = <<minted, minted + 1, minted + 2>>
    BY DEF SchedulerRestarts
  <2> QED
    BY ONLY <2>1, <2>2, ThreeNaturals, Zenon
<1>4. TypeOK' /\ epoch' > 0
  <2>1. minted' \in Nat /\ epoch' \in Nat /\ epoch' > 0
    BY ONLY <1>1, <1>2
  <2>2. due' \in BOOLEAN
    BY ONLY <1>1, Zenon
  <2> QED
    BY ONLY <1>1, <1>2, <1>3, <2>1, <2>2, Zenon DEF TypeOK
<1>5. \A k \in Knowledge : k.epoch <= epoch =>
         /\ ServantKnows(k, active', due', epoch')
         /\ ClientKnows(k, active', due', epoch')
  BY <1>1, <1>2 DEF Knowledge, ServantKnows, ClientKnows
<1>6. /\ \A s \in Servants : accepted[s].epoch <= epoch /\ beats[s].epoch <= epoch
      /\ \A c \in Clients : serving[c].epoch <= epoch /\ fetches[c].epoch <= epoch
  BY DEF IInv, AllKnow, ServantKnows, ClientKnows
<1>7. AllKnow'
  BY <1>1, <1>2, <1>5, <1>6 DEF AllKnow
<1> QED
  BY <1>4, <1>7 DEF IInv

\* A daemon takes an answer, loses it, or forgets what it knew.
LEMMA DaemonIInv ==
    ASSUME IInv,
           \/ \E s \in Servants : UpdateTokens(s) \/ HeartBeatFails(s) \/ ServantRestarts(s)
           \/ \E c \in Clients : OnTimerFetchConfig(c) \/ FetchFails(c) \/ ClientRestarts(c)
    PROVE  IInv'
<1>1. /\ active' = active /\ minted' = minted /\ due' = due /\ epoch' = epoch
      /\ TypeOK /\ epoch \in Nat /\ epoch > 0
  BY DEF UpdateTokens, HeartBeatFails, ServantRestarts, OnTimerFetchConfig,
         FetchFails, ClientRestarts, IInv, TypeOK
<1>2. /\ Nothing \in Knowledge
      /\ ServantKnows(Nothing, active, due, epoch)
      /\ ClientKnows(Nothing, active, due, epoch)
  BY <1>1, NothingIsOld
<1>3. /\ accepted' \in [Servants -> Knowledge] /\ beats' \in [Servants -> Knowledge]
      /\ serving' \in [Clients -> Knowledge] /\ fetches' \in [Clients -> Knowledge]
  BY <1>1, <1>2 DEF TypeOK, UpdateTokens, HeartBeatFails, ServantRestarts,
         OnTimerFetchConfig, FetchFails, ClientRestarts, Stored
<1>4. \A s \in Servants : /\ accepted'[s] \in {accepted[s], beats[s], Nothing}
                          /\ beats'[s] \in {beats[s], Nothing}
  BY <1>1 DEF TypeOK, UpdateTokens, HeartBeatFails, ServantRestarts,
         OnTimerFetchConfig, FetchFails, ClientRestarts
<1>5. \A c \in Clients : /\ serving'[c] \in {serving[c], fetches[c], Nothing}
                         /\ fetches'[c] \in {fetches[c], Nothing}
  BY <1>1 DEF TypeOK, UpdateTokens, HeartBeatFails, ServantRestarts,
         OnTimerFetchConfig, FetchFails, ClientRestarts, Stored
<1>6. AllKnow'
  BY <1>1, <1>2, <1>4, <1>5 DEF IInv, AllKnow
<1> QED
  BY <1>1, <1>3, <1>6 DEF IInv, TypeOK

\* The interval ends only when everybody is up to date.
LEMMA RolloutDueIInv ==
    ASSUME IInv, RolloutDue
    PROVE  IInv'
<1>1. /\ due' = TRUE /\ active' = active /\ minted' = minted /\ epoch' = epoch
      /\ accepted' = accepted /\ beats' = beats
      /\ serving' = serving /\ fetches' = fetches
  BY DEF RolloutDue
<1>2. TokensOf(active) = {active[1], active[2], active[3]}
  BY TokensOfThree DEF IInv, TypeOK
<1>3. ASSUME NEW s \in Servants
      PROVE  /\ ServantKnows(accepted[s], active, TRUE, epoch)
             /\ ServantKnows(beats[s], active, TRUE, epoch)
  BY <1>2 DEF IInv, AllKnow, ServantKnows, RolloutDue, UpToDate
<1>4. ASSUME NEW c \in Clients
      PROVE  /\ ClientKnows(serving[c], active, TRUE, epoch)
             /\ ClientKnows(fetches[c], active, TRUE, epoch)
  BY DEF IInv, AllKnow, ClientKnows, RolloutDue, UpToDate, ServingToken
<1> QED
  BY <1>1, <1>3, <1>4 DEF IInv, TypeOK, AllKnow

-----------------------------------------------------------------------------
\* Every step preserves the inductive invariant.
LEMMA NextIInv == IInv /\ [Next]_vars => IInv'
<1> SUFFICES ASSUME IInv, [Next]_vars PROVE IInv'
  OBVIOUS
<1>1. CASE \E s \in Servants : HeartBeat(s)
  BY <1>1, HeartBeatIInv
<1>2. CASE \E c \in Clients : GetConfig(c)
  BY <1>2, GetConfigIInv
<1>3. CASE SchedulerRestarts
  BY <1>3, SchedulerRestartsIInv
<1>4. CASE \/ \E s \in Servants : UpdateTokens(s) \/ HeartBeatFails(s) \/ ServantRestarts(s)
           \/ \E c \in Clients : OnTimerFetchConfig(c) \/ FetchFails(c) \/ ClientRestarts(c)
  BY <1>4, DaemonIInv
<1>5. CASE RolloutDue
  BY <1>5, RolloutDueIInv
<1>6. CASE UNCHANGED vars
  BY <1>6 DEF vars, IInv, TypeOK, AllKnow
<1> QED
  BY <1>1, <1>2, <1>3, <1>4, <1>5, <1>6 DEF Next

\* In every reachable state nobody who has heard from this run of the scheduler
\* is more than one rollover behind.
THEOREM IInvHolds == Spec => []IInv
  BY InitIInv, NextIInv, PTL DEF Spec

\* The scheduler always holds exactly three tokens, the assertion in
\* ActiveDaemonTokens.
THEOREM TypeCorrect == Spec => []TypeOK
<1>1. IInv => TypeOK
  BY DEF IInv
<1> QED
  BY <1>1, IInvHolds, PTL

\* A servant accepts the token of every client that has heard from the same run
\* of the scheduler, for any number of daemons, rollovers and restarts.
THEOREM Agreement == Spec => []TokensAgree
<1>1. ASSUME IInv PROVE TokensAgree
  <2> SUFFICES ASSUME NEW s \in Servants, NEW c \in Clients,
                      accepted[s].epoch = epoch, serving[c].epoch = epoch
               PROVE  IsTokenAcceptable(c, s)
    BY DEF TokensAgree
  <2>1. active[1] \in accepted[s].tokens /\ active[2] \in accepted[s].tokens
    BY <1>1 DEF IInv, AllKnow, ServantKnows
  <2>2. serving[c].tokens = {active[1]} \/ serving[c].tokens = {active[2]}
    BY <1>1 DEF IInv, AllKnow, ClientKnows
  <2> QED
    BY <2>1, <2>2 DEF IsTokenAcceptable
<1> QED
  BY <1>1, IInvHolds, PTL
=============================================================================
