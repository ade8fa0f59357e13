---------------------------- MODULE ClientProofs ----------------------------
(***************************************************************************)
(* Safety of Client for every number of clients, jobs, quotas, server      *)
(* threads, retries, compiler upgrades and calls cut off by a timeout.     *)
(***************************************************************************)
EXTENDS Client, FiniteSetTheorems, TLAPS

\* Client state s is one that waits for the answer to call k.
WaitsFor(s, k) ==
    \/ k.api = "acquire" /\ s.pc = "acquiring" /\ k.light = s.light
    \/ k.api = "release" /\ s.pc = "releasing"
    \/ k.api = "submit" /\ s.pc \in {"submitting", "resubmitting"} /\ k.stat = s.stat
    \/ k.api = "set_digest" /\ s.pc = "registering"
    \/ k.api = "wait" /\ s.pc = "waiting"

\* Client state s is of one that has given up a call.
HasGivenUp(s) == s.cut \/ s.pc = "exited"

\* A client waits for one call at most; a call nobody waits for is of a client
\* that has given one up; only Set writes.
CallInv ==
    /\ \A k \in calls :
          /\ k.n = 0 => WaitsFor(client[k.client], k)
          /\ k.n # 0 => HasGivenUp(client[k.client])
          /\ k.stage = "writing" => k.api = "set_digest"
    /\ \A j, k \in calls : j.client = k.client /\ j.n = 0 /\ k.n = 0 => j = k

\* Call k brings its client a permit.
BringsPermit(k) ==
    k.n = 0 /\ k.api = "acquire" /\ k.stage = "answered" /\ k.answer = "ok"

\* The clients that have a permit, or its answer on the way, and all answers.
Holders ==
    {c \in Clients : /\ ~client[c].cut
                     /\ Running(c) \/ \E k \in calls : k.client = c /\ BringsPermit(k)}

HeavyHolders == {c \in Holders : ~client[c].light}

QuotaInv ==
    /\ IsFiniteSet(permissions)
    /\ Cardinality(permissions) <= MaxHeavy + MaxLight
    /\ Holders \subseteq permissions
    /\ Cardinality(HeavyHolders) <= MaxHeavy

\* A digest is of the version its size and time were read from, or a later one.
Fits(e) == e.stat <= e.digest /\ e.digest <= installed

VersionInv ==
    /\ \A c \in Clients : client[c].stat <= installed
    /\ \A k \in calls : k.api = "set_digest" => Fits(k)
    /\ ~cache.raced => Fits(cache)

\* The invariant that is preserved by every step.
IInv == TypeOK /\ CallInv /\ QuotaInv /\ VersionInv

-----------------------------------------------------------------------------
\* The constants' types, one by one.
LEMMA Constants ==
    /\ MaxHeavy \in Nat /\ MaxHeavy > 0 /\ MaxLight \in Nat
    /\ MaxVersion \in Nat /\ MaxVersion > 0
    /\ MaxRetries \in Nat /\ MaxTimeouts \in Nat
<1>1. /\ MaxHeavy \in Nat /\ MaxHeavy > 0
      /\ MaxVersion \in Nat /\ MaxVersion > 0
      /\ MaxRetries \in Nat /\ MaxTimeouts \in Nat
  BY ClientAssumption
<1>2. MaxLight \in Nat
  BY <1>1 DEF MaxLight
<1> QED
  BY <1>1, <1>2

\* No client, no call and no permit satisfy the invariant.
LEMMA InitIInv == Init => IInv
<1> SUFFICES ASSUME Init PROVE IInv
  OBVIOUS
<1>1. At("start") \in ClientState
  BY Constants DEF At, ClientState
<1>2. TypeOK
  BY <1>1, Constants DEF Init, TypeOK, NoEntry, Versions
<1>3. CallInv
  BY DEF Init, CallInv
<1>4. QuotaInv
  <2>1. Holders = {} /\ HeavyHolders = {}
    BY DEF Init, Holders, HeavyHolders, Running, At
  <2> QED
    BY <2>1, FS_EmptySet, Constants DEF Init, QuotaInv
<1>5. VersionInv
  BY DEF Init, VersionInv, Fits, NoEntry, At
<1> QED
  BY <1>2, <1>3, <1>4, <1>5 DEF IInv

\* Fewer heavy holders are within the limit too.
LEMMA FewerHolders ==
    ASSUME QuotaInv, NEW H, H \subseteq HeavyHolders
    PROVE  Cardinality(H) <= MaxHeavy
<1>1. IsFiniteSet(HeavyHolders)
  <2>1. HeavyHolders \subseteq permissions
    BY DEF QuotaInv, HeavyHolders
  <2> QED
    BY <2>1, FS_Subset DEF QuotaInv
<1>2. IsFiniteSet(H) /\ Cardinality(H) <= Cardinality(HeavyHolders)
  BY <1>1, FS_Subset
<1>3. Cardinality(H) \in Nat /\ Cardinality(HeavyHolders) \in Nat
  BY <1>1, <1>2, FS_CardinalityType
<1> QED
  BY <1>2, <1>3, Constants DEF QuotaInv

-----------------------------------------------------------------------------
(***************************************************************************)
(* Steps of a client.                                                      *)
(***************************************************************************)

\* A client between two calls, that came there from the state it is in.
Calm(c, s) ==
    /\ s \in ClientState
    /\ s.pc \in {"acquire", "submit", "exited"}
    /\ s.pc = "exited" \/ s.cut = client[c].cut
    /\ s.stat \in {0, client[c].stat}

\* Asking for a quota.
LEMMA AcquireCalm ==
    ASSUME NEW s \in ClientState, NEW use \in {"rewrite", "fallback", "native"},
           NEW light \in BOOLEAN
    PROVE  /\ Acquire(s, use, light) \in ClientState
           /\ Acquire(s, use, light).pc = "acquire"
           /\ Acquire(s, use, light).cut = s.cut
           /\ Acquire(s, use, light).stat = s.stat
           /\ Acquire(s, use, light).retries = s.retries
  BY DEF Acquire, ClientState

\* Everywhere Compile goes after a call, it is between two calls.
LEMMA CompileCalm ==
    ASSUME TypeOK, NEW c \in Clients
    PROVE  /\ Calm(c, Native(c))
           /\ Calm(c, Rewrite(c))
           /\ Calm(c, CloudFailed(c))
           /\ Calm(c, NoQuota(c))
           /\ Calm(c, QuotaGone(c))
           /\ Calm(c, NoAnswer(c))
<1>1. client[c] \in ClientState
  BY DEF TypeOK
<1>2. Calm(c, Native(c))
  BY <1>1, AcquireCalm DEF Native, Calm, IsLightweight
<1>3. Calm(c, Rewrite(c))
  BY <1>1, AcquireCalm DEF Rewrite, Calm
<1>4. Calm(c, CloudFailed(c))
  <2>1. PICK s : s = [client[c] EXCEPT !.stat = 0]
    OBVIOUS
  <2>2. s \in ClientState /\ s.cut = client[c].cut /\ s.stat = 0
    BY <1>1, <2>1, Constants DEF ClientState
  <2>3. PICK light \in BOOLEAN : light = FALSE
    OBVIOUS
  <2>4. CloudFailed(c) = Acquire(s, "fallback", light)
    BY <2>1, <2>3 DEF CloudFailed
  <2> QED
    BY <2>2, <2>4, AcquireCalm DEF Calm
<1>5. Calm(c, Retry(c))
  <2>1. CASE client[c].retries > 0
    <3>1. PICK s : s = Rewrite(c)
      OBVIOUS
    <3>2. /\ s \in ClientState /\ s.pc = "acquire" /\ s.cut = client[c].cut
          /\ s.stat = client[c].stat /\ s.retries = client[c].retries
      BY <1>1, <3>1, AcquireCalm DEF Rewrite
    <3>3. s.retries - 1 \in 0 .. MaxRetries
      BY <2>1, <3>2, Constants DEF ClientState
    <3>4. Retry(c) = [s EXCEPT !.retries = s.retries - 1]
      BY <2>1, <3>1, <3>2 DEF Retry, ClientState
    <3> QED
      BY <3>2, <3>3, <3>4 DEF Calm, ClientState
  <2>2. CASE ~(client[c].retries > 0)
    BY <1>2, <2>2 DEF Retry
  <2> QED
    BY <2>1, <2>2
<1>6. Calm(c, NoQuota(c))
  <2>1. CASE client[c].use = "fallback"
    BY <1>5, <2>1 DEF NoQuota
  <2>2. CASE client[c].use # "fallback"
    BY <1>1, <2>2 DEF NoQuota, Calm, ClientState
  <2> QED
    BY <2>1, <2>2
<1>7. Calm(c, QuotaGone(c))
  <2>1. CASE client[c].then = "exit"
    <3>1. QuotaGone(c) = At("exited")
      BY <2>1 DEF QuotaGone
    <3> QED
      BY <3>1, Constants DEF At, Calm, ClientState
  <2>2. CASE client[c].then = "native"
    <3>1. PICK s : s = Native(c)
      OBVIOUS
    <3>2. QuotaGone(c) = [s EXCEPT !.then = "exit"]
      BY <2>2, <3>1 DEF QuotaGone
    <3>3. Calm(c, s)
      BY <1>2, <3>1
    <3> QED
      BY <3>2, <3>3 DEF Calm, ClientState
  <2>3. CASE client[c].then = "submit"
    <3>1. QuotaGone(c) = [client[c] EXCEPT !.pc = "submit", !.then = "exit"]
      BY <2>3 DEF QuotaGone
    <3> QED
      BY <1>1, <3>1 DEF Calm, ClientState
  <2> QED
    BY <1>1, <2>1, <2>2, <2>3 DEF ClientState
<1>8. Calm(c, NoAnswer(c))
  BY <1>4, <1>6, <1>7 DEF NoAnswer
<1> QED
  BY <1>2, <1>3, <1>4, <1>6, <1>7, <1>8

\* What a step of client c that leaves it in state s, with the calls K instead
\* of the one it waited for, has to see to.
Goes(c, s, K) ==
    /\ s \in ClientState /\ K \subseteq Call
    /\ client' = [client EXCEPT ![c] = s]
    /\ calls' = (calls \ Current(c)) \cup K
    /\ client[c].pc # "exited"
    /\ HasGivenUp(client[c]) => HasGivenUp(s)
    /\ s.stat <= installed
    /\ \A k \in K : /\ k.client = c
                    /\ k.n = 0 => WaitsFor(s, k)
                    /\ k.n # 0 => HasGivenUp(s)
                    /\ k.stage = "writing" => k.api = "set_digest"
                    /\ k.api = "set_digest" => Fits(k)
                    /\ ~BringsPermit(k)
    /\ \A j, k \in K : j.n = 0 /\ k.n = 0 => j = k
    /\ s.pc = "running" /\ ~s.cut =>
          /\ c \in Holders
          /\ s.light = client[c].light
    /\ UNCHANGED <<permissions, cache, installed>>

\* Such a step keeps the parts of the invariant that are not types.
LEMMA ClientGoes ==
    ASSUME TypeOK, CallInv, QuotaInv, VersionInv,
           NEW c \in Clients, NEW s, NEW K, Goes(c, s, K)
    PROVE  /\ client' \in [Clients -> ClientState] /\ calls' \subseteq Call
           /\ CallInv' /\ QuotaInv' /\ VersionInv'
<1>1. /\ client' \in [Clients -> ClientState] /\ calls' \subseteq Call
      /\ client'[c] = s
      /\ \A d \in Clients : d # c => client'[d] = client[d]
  BY DEF Goes, TypeOK
<1>2. /\ \A k \in calls' : k \in K \/ (k \in calls /\ ~(k.client = c /\ k.n = 0))
      /\ \A k \in K : k.client = c
      /\ \A k \in calls : k.client \in Clients
  BY DEF Goes, Current, TypeOK, Call
<1>3. CallInv'
  <2>1. ASSUME NEW k \in calls'
        PROVE  /\ k.n = 0 => WaitsFor(client'[k.client], k)
               /\ k.n # 0 => HasGivenUp(client'[k.client])
               /\ k.stage = "writing" => k.api = "set_digest"
    <3>1. CASE k \in K
      BY <1>1, <3>1 DEF Goes
    <3>2. CASE k \in calls /\ k.client = c /\ k.n # 0
      BY <1>1, <3>2 DEF CallInv, Goes
    <3>3. CASE k \in calls /\ k.client # c
      BY <1>1, <1>2, <3>3 DEF CallInv
    <3> QED
      BY <1>2, <2>1, <3>1, <3>2, <3>3
  <2>2. ASSUME NEW j \in calls', NEW k \in calls', j.client = k.client,
               j.n = 0, k.n = 0
        PROVE  j = k
    <3>1. CASE j.client = c
      <4>1. j \in K /\ k \in K
        BY <1>2, <2>2, <3>1
      <4> QED
        BY <2>2, <4>1 DEF Goes
    <3>2. CASE j.client # c
      BY <1>2, <2>2, <3>2 DEF CallInv
    <3> QED
      BY <3>1, <3>2
  <2> QED
    BY <2>1, <2>2 DEF CallInv, WaitsFor, HasGivenUp
<1>4. QuotaInv'
  <2>1. ASSUME NEW d \in Holders' PROVE d \in Holders /\ client'[d].light = client[d].light
    <3>1. d \in Clients /\ ~client'[d].cut
      BY <2>1 DEF Holders
    <3>2. CASE d # c
      <4>1. client'[d] = client[d]
        BY <1>1, <3>1, <3>2
      <4>2. Running(d) \/ \E k \in calls : k.client = d /\ BringsPermit(k)
        BY <1>2, <2>1, <3>2, <4>1 DEF Holders, Running, BringsPermit
      <4> QED
        BY <3>1, <4>1, <4>2 DEF Holders
    <3>3. CASE d = c
      <4>1. \A k \in calls' : ~(k.client = c /\ BringsPermit(k))
        BY <1>2 DEF BringsPermit, Goes
      <4>2. s.pc = "running" /\ ~s.cut
        BY <1>1, <2>1, <3>1, <3>3, <4>1 DEF Holders, Running, BringsPermit
      <4> QED
        BY <1>1, <3>3, <4>2 DEF Goes
    <3> QED
      BY <3>2, <3>3
  <2>2. Holders' \subseteq Holders /\ HeavyHolders' \subseteq HeavyHolders
    BY <2>1 DEF HeavyHolders
  <2>3. Cardinality(HeavyHolders') <= MaxHeavy
    BY <2>2, FewerHolders
  <2>4. permissions' = permissions
    BY DEF Goes
  <2> QED
    BY <2>2, <2>3, <2>4 DEF QuotaInv
<1>5. VersionInv'
  BY <1>1, <1>2 DEF VersionInv, Goes, Fits
<1> QED
  BY <1>1, <1>3, <1>4, <1>5

\* A client that ends or gives its call up leaves the call in the daemon.
LEMMA GivenUpGoes ==
    ASSUME TypeOK, CallInv, VersionInv, NEW c \in Clients,
           NEW s \in ClientState, HasGivenUp(s),
           s.pc # "running", s.stat <= installed,
           NEW n \in 0 .. MaxTimeouts + 1, n # 0 \/ daemon # "up",
           client[c].pc # "exited",
           client' = [client EXCEPT ![c] = s],
           calls' = GivenUp(c, n),
           UNCHANGED <<permissions, cache, installed>>
    PROVE  \E K : Goes(c, s, K)
<1> DEFINE J == {j \in Current(c) : j.stage # "answered" /\ daemon = "up"}
           K == {[k EXCEPT !.n = n] : k \in J}
<1>1. calls' = (calls \ Current(c)) \cup K
  BY DEF GivenUp
<1>2. ASSUME NEW k \in K
      PROVE  /\ k \in Call /\ k.client = c /\ k.n = n /\ n # 0
             /\ k.stage = "writing" => k.api = "set_digest"
             /\ k.api = "set_digest" => Fits(k)
  <2>1. PICK j \in J : k = [j EXCEPT !.n = n]
    OBVIOUS
  <2>2. j \in Call /\ j \in calls /\ j.client = c /\ daemon = "up"
    BY DEF Current, TypeOK
  <2>3. /\ k \in Call /\ k.client = c /\ k.n = n /\ k.api = j.api
        /\ k.stage = j.stage /\ k.stat = j.stat /\ k.digest = j.digest
    BY <2>1, <2>2 DEF Call
  <2> QED
    BY <2>2, <2>3 DEF CallInv, VersionInv, Fits
<1> HIDE DEF K
<1>3. Goes(c, s, K)
  BY <1>1, <1>2 DEF Goes, BringsPermit
<1> QED
  BY <1>3

\* A client that is not in a call has none in the daemon that it waits for.
LEMMA NotCalling ==
    ASSUME CallInv, NEW c \in Clients, client[c].pc \notin Calling
    PROVE  Current(c) = {}
  BY DEF CallInv, Current, WaitsFor, Calling

\* A client goes on to its next state without a call.
LEMMA CalmGoes ==
    ASSUME TypeOK, CallInv, VersionInv, NEW c \in Clients, NEW s, Calm(c, s),
           client[c].pc # "exited",
           client' = [client EXCEPT ![c] = s],
           calls' = calls \ Current(c),
           UNCHANGED <<permissions, cache, installed>>
    PROVE  Goes(c, s, {})
<1>1. s.stat <= installed
  BY Constants DEF Calm, VersionInv, TypeOK, Versions
<1> QED
  BY <1>1 DEF Goes, Calm, HasGivenUp

\* What a new call looks like.
LEMMA NewCallTypes ==
    ASSUME NEW c \in Clients, NEW api \in Apis, NEW light \in BOOLEAN,
           NEW stat \in 0 .. MaxVersion, NEW digest \in 0 .. MaxVersion,
           NEW k, k = NewCall(c, api, light, stat, digest)
    PROVE  /\ k \in Call
           /\ k.client = c /\ k.n = 0 /\ k.api = api /\ k.light = light
           /\ k.stat = stat /\ k.digest = digest
           /\ k.stage = "queued"
  BY Constants DEF NewCall, Call, Answers

\* A client makes a call.
LEMMA SendGoes ==
    ASSUME TypeOK, NEW c \in Clients, NEW t \in ClientState, NEW k \in Call,
           client[c].pc # "exited", t.pc \in Calling,
           t.cut = client[c].cut, t.stat <= installed,
           client' = [client EXCEPT ![c] = t],
           calls' = (calls \ Current(c)) \cup {k},
           k.client = c, k.n = 0, k.stage = "queued",
           WaitsFor(t, k),
           k.api = "set_digest" => Fits(k),
           UNCHANGED <<permissions, cache, installed>>
    PROVE  Goes(c, t, {k})
  BY DEF Goes, HasGivenUp, BringsPermit, Calling

\* The steps of a client that do not end a call.
LEMMA OwnStepGoes ==
    ASSUME IInv, NEW c \in Clients,
           \/ Start(c) \/ TryAcquireTaskQuota(c)
           \/ ProgramEnds(c) \/ SubmitCompileTask(c)
    PROVE  \E s, K : Goes(c, s, K)
<1>0. TypeOK /\ CallInv /\ VersionInv
  BY DEF IInv
<1>1. /\ client[c] \in ClientState
      /\ client[c].stat <= installed /\ installed \in 0 .. MaxVersion
      /\ 0 \in 0 .. MaxVersion
  BY <1>0, Constants DEF TypeOK, VersionInv, Versions
<1>2. client[c].pc \in {"start", "acquire", "running", "submit"}
  BY DEF Start, TryAcquireTaskQuota, ProgramEnds, SubmitCompileTask
<1>3. UNCHANGED <<permissions, cache, installed>>
  BY DEF Start, TryAcquireTaskQuota, ProgramEnds, SubmitCompileTask, daemonVars
<1>4. Current(c) = {} /\ calls \ Current(c) = calls /\ client[c].pc # "exited"
  BY <1>0, <1>2, NotCalling DEF Calling
<1>5. PICK light \in BOOLEAN : light = FALSE
  OBVIOUS
<1>6. CASE Start(c)
  <2>1. PICK s : /\ s \in {Rewrite(c), Native(c)}
                 /\ client' = [client EXCEPT ![c] = s]
    BY <1>6 DEF Start
  <2>2. Calm(c, s) /\ calls' = calls \ Current(c)
    BY <1>0, <1>4, <1>6, <2>1, CompileCalm DEF Start
  <2>3. Goes(c, s, {})
    BY <1>0, <1>3, <1>4, <2>1, <2>2, CalmGoes
  <2> QED
    BY <2>3
<1>7. CASE TryAcquireTaskQuota(c)
  <2>1. PICK t : t = [client[c] EXCEPT !.pc = "acquiring"]
    OBVIOUS
  <2>2. PICK k : k = NewCall(c, "acquire", client[c].light, 0, 0)
    OBVIOUS
  <2>3. /\ client' = [client EXCEPT ![c] = t]
        /\ calls' = (calls \ Current(c)) \cup {k}
    BY <1>4, <1>7, <2>1, <2>2 DEF TryAcquireTaskQuota, Send
  <2>4. /\ t \in ClientState /\ t.pc = "acquiring" /\ t.cut = client[c].cut
        /\ t.stat = client[c].stat /\ t.light = client[c].light
        /\ client[c].light \in BOOLEAN
    BY <1>1, <2>1 DEF ClientState, Calling
  <2>5. /\ k \in Call /\ k.client = c /\ k.n = 0 /\ k.api = "acquire"
        /\ k.light = client[c].light /\ k.stage = "queued"
    BY <1>1, <2>2, <2>4, NewCallTypes DEF Apis
  <2>6. WaitsFor(t, k) /\ t.pc \in Calling
    BY <2>4, <2>5 DEF WaitsFor, Calling
  <2>7. Goes(c, t, {k})
    BY <1>0, <1>1, <1>3, <1>4, <2>3, <2>4, <2>5, <2>6, SendGoes
  <2> QED
    BY <2>7
<1>8. CASE ProgramEnds(c)
  <2>1. PICK then \in {"submit", "native", "exit"} :
           Send(c, [client[c] EXCEPT !.then = then], "releasing",
                NewCall(c, "release", FALSE, 0, 0))
    BY <1>8 DEF ProgramEnds
  <2>2. PICK s : s = [client[c] EXCEPT !.then = then]
    OBVIOUS
  <2>3. PICK t : t = [s EXCEPT !.pc = "releasing"]
    OBVIOUS
  <2>4. PICK k : k = NewCall(c, "release", light, 0, 0)
    OBVIOUS
  <2>5. /\ client' = [client EXCEPT ![c] = t]
        /\ calls' = (calls \ Current(c)) \cup {k}
    BY <1>4, <1>5, <2>1, <2>2, <2>3, <2>4 DEF Send
  <2>6. s \in ClientState /\ s.cut = client[c].cut /\ s.stat = client[c].stat
    BY <1>1, <2>2 DEF ClientState
  <2>7. /\ t \in ClientState /\ t.pc = "releasing" /\ t.cut = client[c].cut
        /\ t.stat = client[c].stat
    BY <2>3, <2>6 DEF ClientState, Calling
  <2>8. /\ k \in Call /\ k.client = c /\ k.n = 0 /\ k.api = "release"
        /\ k.stage = "queued"
    BY <1>1, <2>4, NewCallTypes DEF Apis
  <2>9. WaitsFor(t, k) /\ t.pc \in Calling
    BY <2>7, <2>8 DEF WaitsFor, Calling
  <2>10. Goes(c, t, {k})
    BY <1>0, <1>1, <1>3, <1>4, <2>5, <2>7, <2>8, <2>9, SendGoes
  <2> QED
    BY <2>10
<1>9. CASE SubmitCompileTask(c)
  <2>1. PICK s : s = [client[c] EXCEPT !.stat = installed]
    OBVIOUS
  <2>2. PICK t : t = [s EXCEPT !.pc = "submitting"]
    OBVIOUS
  <2>3. PICK k : k = NewCall(c, "submit", light, installed, 0)
    OBVIOUS
  <2>4. /\ client' = [client EXCEPT ![c] = t]
        /\ calls' = (calls \ Current(c)) \cup {k}
    BY <1>4, <1>5, <1>9, <2>1, <2>2, <2>3 DEF SubmitCompileTask, Send
  <2>5. s \in ClientState /\ s.cut = client[c].cut /\ s.stat = installed
    BY <1>1, <2>1 DEF ClientState
  <2>6. /\ t \in ClientState /\ t.pc = "submitting" /\ t.cut = client[c].cut
        /\ t.stat = installed
    BY <2>2, <2>5 DEF ClientState, Calling
  <2>7. /\ k \in Call /\ k.client = c /\ k.n = 0 /\ k.api = "submit"
        /\ k.stage = "queued" /\ k.stat = installed
    BY <1>1, <2>3, NewCallTypes DEF Apis
  <2>8. WaitsFor(t, k) /\ t.pc \in Calling
    BY <2>6, <2>7 DEF WaitsFor, Calling
  <2>9. t.stat <= installed
    BY <1>1, <2>6, Constants
  <2>10. Goes(c, t, {k})
    BY <1>0, <1>3, <1>4, <2>4, <2>6, <2>7, <2>8, <2>9, SendGoes
  <2> QED
    BY <2>10
<1> QED
  BY <1>6, <1>7, <1>8, <1>9

\* After an answer that leads to no call the client is between two calls, or
\* runs with the permit the answer brought.
LEMMA AnsweredGoes ==
    ASSUME TypeOK, CallInv, VersionInv, NEW c \in Clients, NEW k \in Current(c),
           k.stage = "answered",
           client' = [client EXCEPT ![c] = Answered(c, k.answer)],
           calls' = calls \ Current(c),
           UNCHANGED <<permissions, cache, installed>>
    PROVE  \E s, K : Goes(c, s, K)
<1>1. /\ k \in calls /\ k.client = c /\ k.n = 0 /\ WaitsFor(client[c], k)
      /\ client[c] \in ClientState
  BY DEF Current, CallInv, TypeOK
<1>2. client[c].pc # "exited"
  BY <1>1 DEF WaitsFor
<1>3. CASE client[c].pc = "acquiring" /\ k.answer = "ok"
  <2>1. PICK s : s = [client[c] EXCEPT !.pc = "running"]
    OBVIOUS
  <2>2. client' = [client EXCEPT ![c] = s]
    BY <1>3, <2>1 DEF Answered
  <2>3. /\ s \in ClientState /\ s.pc = "running" /\ s.cut = client[c].cut
        /\ s.light = client[c].light /\ s.stat = client[c].stat
    BY <1>1, <2>1 DEF ClientState
  <2>4. BringsPermit(k)
    BY <1>1, <1>3 DEF WaitsFor, BringsPermit
  <2>5. ~s.cut => c \in Holders
    BY <1>1, <2>3, <2>4 DEF Holders
  <2>6. Goes(c, s, {})
    BY <1>2, <2>2, <2>3, <2>5 DEF Goes, HasGivenUp, VersionInv
  <2> QED
    BY <2>6
<1>4. CASE ~(client[c].pc = "acquiring" /\ k.answer = "ok")
  <2>1. PICK s : s = Answered(c, k.answer)
    OBVIOUS
  <2>2. Calm(c, At("exited"))
    BY Constants DEF At, Calm, ClientState
  <2>3. Calm(c, s)
    BY <1>4, <2>1, <2>2, CompileCalm DEF Answered
  <2>4. Goes(c, s, {})
    BY <1>2, <2>1, <2>3, CalmGoes
  <2> QED
    BY <2>4
<1> QED
  BY <1>3, <1>4

\* The next call is one the client then waits for.
LEMMA FollowUpGoes ==
    ASSUME TypeOK, CallInv, VersionInv, NEW c \in Clients, NEW k \in Current(c),
           NEW f \in FollowUp(c, k.answer),
           client' = [client EXCEPT ![c].pc = f[1]],
           calls' = (calls \ Current(c)) \cup {f[2]},
           UNCHANGED <<permissions, cache, installed>>
    PROVE  \E s, K : Goes(c, s, K)
<1>1. /\ WaitsFor(client[c], k)
      /\ client[c] \in ClientState /\ client[c].stat \in 0 .. MaxVersion
      /\ client[c].stat <= installed /\ installed \in 0 .. MaxVersion
      /\ 0 \in 0 .. MaxVersion
  BY Constants DEF Current, CallInv, VersionInv, TypeOK, ClientState, Versions
<1>2. client[c].pc # "exited"
  BY <1>1 DEF WaitsFor
<1>3. PICK light \in BOOLEAN : light = FALSE
  OBVIOUS
<1>4. PICK t : t = [client[c] EXCEPT !.pc = f[1]]
  OBVIOUS
<1>5. PICK j : j = f[2]
  OBVIOUS
<1>6. client' = [client EXCEPT ![c] = t] /\ calls' = (calls \ Current(c)) \cup {j}
  BY <1>1, <1>4, <1>5 DEF TypeOK
<1>7. ASSUME f[1] \in Calling
      PROVE  /\ t \in ClientState /\ t.pc = f[1] /\ t.cut = client[c].cut
             /\ t.stat = client[c].stat /\ t.stat <= installed
  BY <1>1, <1>4, <1>7 DEF ClientState
<1>8. CASE f = <<"registering", NewCall(c, "set_digest", light, client[c].stat, installed)>>
  <2>1. f[1] = "registering" /\ f[1] \in Calling
    BY <1>8 DEF Calling
  <2>2. /\ j \in Call /\ j.client = c /\ j.n = 0 /\ j.api = "set_digest"
        /\ j.stage = "queued" /\ j.stat = client[c].stat /\ j.digest = installed
    BY <1>1, <1>5, <1>8, NewCallTypes DEF Apis
  <2>3. WaitsFor(t, j) /\ t.pc \in Calling
    BY <1>7, <2>1, <2>2 DEF WaitsFor
  <2>4. Fits(j)
    BY <1>1, <2>2, Constants DEF Fits
  <2>5. Goes(c, t, {j})
    BY <1>2, <1>6, <1>7, <2>1, <2>2, <2>3, <2>4, SendGoes
  <2> QED
    BY <2>5
<1>9. CASE f = <<"resubmitting", NewCall(c, "submit", light, client[c].stat, 0)>>
  <2>1. f[1] = "resubmitting" /\ f[1] \in Calling
    BY <1>9 DEF Calling
  <2>2. /\ j \in Call /\ j.client = c /\ j.n = 0 /\ j.api = "submit"
        /\ j.stage = "queued" /\ j.stat = client[c].stat
    BY <1>1, <1>5, <1>9, NewCallTypes DEF Apis
  <2>3. WaitsFor(t, j) /\ t.pc \in Calling
    BY <1>7, <2>1, <2>2 DEF WaitsFor
  <2>4. Goes(c, t, {j})
    BY <1>2, <1>6, <1>7, <2>1, <2>2, <2>3, SendGoes
  <2> QED
    BY <2>4
<1>10. CASE f = <<"waiting", NewCall(c, "wait", light, 0, 0)>>
  <2>1. f[1] = "waiting" /\ f[1] \in Calling
    BY <1>10 DEF Calling
  <2>2. /\ j \in Call /\ j.client = c /\ j.n = 0 /\ j.api = "wait"
        /\ j.stage = "queued"
    BY <1>1, <1>5, <1>10, NewCallTypes DEF Apis
  <2>3. WaitsFor(t, j) /\ t.pc \in Calling
    BY <1>7, <2>1, <2>2 DEF WaitsFor
  <2>4. Goes(c, t, {j})
    BY <1>2, <1>6, <1>7, <2>1, <2>2, <2>3, SendGoes
  <2> QED
    BY <2>4
<1> QED
  BY <1>3, <1>8, <1>9, <1>10 DEF FollowUp

\* A client takes an answer.
LEMMA ReceiveGoes ==
    ASSUME IInv, NEW c \in Clients, Receive(c)
    PROVE  \E s, K : Goes(c, s, K)
<1>0. TypeOK /\ CallInv /\ VersionInv
  BY DEF IInv
<1>1. UNCHANGED <<permissions, cache, installed>>
  BY DEF Receive, daemonVars
<1>2. PICK k \in Current(c) :
          /\ k.stage = "answered"
          /\ \/ /\ client' = [client EXCEPT ![c] = Answered(c, k.answer)]
                /\ calls' = calls \ {k}
             \/ \E f \in FollowUp(c, k.answer) :
                   /\ client' = [client EXCEPT ![c].pc = f[1]]
                   /\ calls' = (calls \ {k}) \cup {f[2]}
  BY DEF Receive
<1>3. Current(c) = {k}
  BY <1>0, <1>2 DEF CallInv, Current
<1>4. CASE /\ client' = [client EXCEPT ![c] = Answered(c, k.answer)]
           /\ calls' = calls \ {k}
  BY <1>0, <1>1, <1>2, <1>3, <1>4, AnsweredGoes
<1>5. ASSUME NEW f \in FollowUp(c, k.answer),
             client' = [client EXCEPT ![c].pc = f[1]],
             calls' = (calls \ {k}) \cup {f[2]}
      PROVE  \E s, K : Goes(c, s, K)
  BY <1>0, <1>1, <1>2, <1>3, <1>5, FollowUpGoes
<1> QED
  BY <1>2, <1>4, <1>5

\* A client gives a call up, is killed, or vanishes under the timer's eyes.
LEMMA EndsGoes ==
    ASSUME IInv, NEW c \in Clients,
           CallFails(c) \/ Die(c) \/ IsAliveProcAborts(c)
    PROVE  \E s, K : Goes(c, s, K)
<1>0. TypeOK /\ CallInv /\ VersionInv
  BY DEF IInv
<1>1. UNCHANGED <<permissions, cache, installed>>
  BY DEF CallFails, Die, IsAliveProcAborts, daemonVars
<1>2. CASE CallFails(c)
  <2>1. PICK q : q = NoAnswer(c)
    OBVIOUS
  <2>2. PICK s : s = [q EXCEPT !.cut = TRUE]
    OBVIOUS
  <2>3. Calm(c, q)
    BY <1>0, <2>1, CompileCalm
  <2>4. /\ s \in ClientState /\ s.pc = q.pc /\ s.stat = q.stat /\ s.cut
    BY <2>2, <2>3 DEF Calm, ClientState
  <2>5. HasGivenUp(s) /\ s.pc # "running" /\ s.stat <= installed
    BY <1>0, <2>3, <2>4, Constants DEF HasGivenUp, Calm, VersionInv, TypeOK, Versions
  <2>6. /\ client[c].pc # "exited"
        /\ client' = [client EXCEPT ![c] = s]
        /\ calls' = GivenUp(c, timeouts')
    BY <1>2, <2>1, <2>2 DEF CallFails, Calling
  <2>7. timeouts' \in 0 .. MaxTimeouts + 1 /\ (timeouts' # 0 \/ daemon # "up")
    BY <1>0, <1>2, Constants DEF CallFails, TypeOK
  <2>8. PICK n \in 0 .. MaxTimeouts + 1 : n = timeouts'
    BY <2>7
  <2> QED
    BY <1>0, <1>1, <2>4, <2>5, <2>6, <2>7, <2>8, GivenUpGoes
<1>3. CASE Die(c) \/ IsAliveProcAborts(c)
  <2>1. PICK s : s = At("exited")
    OBVIOUS
  <2>2. s \in ClientState /\ s.pc = "exited" /\ s.stat = 0
    BY <2>1, Constants DEF At, ClientState
  <2>3. HasGivenUp(s) /\ s.pc # "running" /\ s.stat <= installed
    BY <1>0, <2>2 DEF HasGivenUp, TypeOK, Versions
  <2>4. PICK n : n = MaxTimeouts + 1
    OBVIOUS
  <2>5. n \in 0 .. MaxTimeouts + 1 /\ n # 0
    BY <2>4, Constants
  <2>6. /\ client[c].pc # "exited"
        /\ client' = [client EXCEPT ![c] = s]
        /\ calls' = GivenUp(c, n)
    BY <1>3, <2>1, <2>4 DEF Die, IsAliveProcAborts, IsAliveProc
  <2> QED
    BY <1>0, <1>1, <2>2, <2>3, <2>5, <2>6, GivenUpGoes
<1> QED
  BY <1>2, <1>3

\* Every step of a client keeps the invariant.
LEMMA ClientIInv ==
    ASSUME IInv, NEW c \in Clients,
           ClientStep(c) \/ CallFails(c) \/ Die(c) \/ IsAliveProcAborts(c)
    PROVE  IInv'
<1>1. PICK s, K : Goes(c, s, K)
  BY OwnStepGoes, ReceiveGoes, EndsGoes DEF ClientStep
<1>2. /\ client' \in [Clients -> ClientState] /\ calls' \subseteq Call
      /\ CallInv' /\ QuotaInv' /\ VersionInv'
  BY <1>1, ClientGoes DEF IInv
<1>3. UNCHANGED <<permissions, cache, installed>>
  BY <1>1 DEF Goes
<1>4. task' \in [Clients -> {"none", "running", "compiled", "failed", "rejected"}]
  <2>1. task' = task \/ task' = [task EXCEPT ![c] = "none"]
    BY DEF ClientStep, Start, TryAcquireTaskQuota, ProgramEnds, SubmitCompileTask,
           Receive, CallFails, Die, IsAliveProcAborts, daemonVars
  <2> QED
    BY <2>1 DEF IInv, TypeOK
<1>5. timeouts' \in 0 .. MaxTimeouts
  <2>1. timeouts' = timeouts \/ (timeouts < MaxTimeouts /\ timeouts' = timeouts + 1)
    BY DEF ClientStep, Start, TryAcquireTaskQuota, ProgramEnds, SubmitCompileTask,
           Receive, CallFails, Die, IsAliveProcAborts
  <2> QED
    BY <2>1, Constants DEF IInv, TypeOK
<1>6. daemon' \in {"up", "dead"}
  BY DEF ClientStep, Start, TryAcquireTaskQuota, ProgramEnds, SubmitCompileTask,
         Receive, CallFails, Die, IsAliveProcAborts, daemonVars, IInv, TypeOK
<1>7. TypeOK'
  BY <1>2, <1>3, <1>4, <1>5, <1>6 DEF IInv, TypeOK
<1> QED
  BY <1>2, <1>7 DEF IInv

\* A client that is started again has no call and no permit.
LEMMA StartAgainIInv ==
    ASSUME IInv, NEW c \in Clients, StartAgain(c)
    PROVE  IInv'
<1>1. /\ client' = [client EXCEPT ![c] = At("start")]
      /\ \A k \in calls : k.client # c
      /\ UNCHANGED <<permissions, calls, task, cache, daemon, installed, timeouts>>
  BY DEF StartAgain, daemonVars
<1>2. /\ At("start") \in ClientState
      /\ At("start").pc = "start" /\ At("start").stat = 0
  BY Constants DEF At, ClientState
<1>3. /\ client' \in [Clients -> ClientState] /\ client'[c] = At("start")
      /\ \A d \in Clients \ {c} : client'[d] = client[d]
  BY <1>1, <1>2 DEF IInv, TypeOK
<1>4. TypeOK'
  BY <1>1, <1>3 DEF IInv, TypeOK, Versions
<1>5. CallInv'
  <2>1. \A k \in calls : k.client \in Clients /\ client'[k.client] = client[k.client]
    BY <1>1, <1>3 DEF IInv, TypeOK, Call
  <2> QED
    BY <1>1, <2>1 DEF IInv, CallInv, WaitsFor, HasGivenUp
<1>6. Holders' \subseteq Holders /\ HeavyHolders' \subseteq HeavyHolders
  <2>1. c \notin Holders'
    BY <1>1, <1>2, <1>3 DEF Holders, Running
  <2>2. \A d \in Clients \ {c} : d \in Holders' => d \in Holders
    BY <1>1, <1>3 DEF Holders, Running, BringsPermit
  <2>3. Holders' \subseteq Clients
    BY DEF Holders
  <2>4. Holders' \subseteq Holders
    BY <2>1, <2>2, <2>3
  <2> QED
    BY <1>3, <2>1, <2>3, <2>4 DEF HeavyHolders
<1>7. QuotaInv'
  <2>1. Cardinality(HeavyHolders') <= MaxHeavy
    BY <1>6, FewerHolders DEF IInv
  <2> QED
    BY <1>1, <1>6, <2>1 DEF IInv, QuotaInv
<1>8. VersionInv'
  <2>1. 0 <= installed
    BY Constants DEF IInv, TypeOK, Versions
  <2> QED
    BY <1>1, <1>2, <1>3, <2>1 DEF IInv, VersionInv, Fits
<1> QED
  BY <1>4, <1>5, <1>7, <1>8 DEF IInv

-----------------------------------------------------------------------------
(***************************************************************************)
(* Steps of the daemon.                                                    *)
(***************************************************************************)

\* Call j is call k, a step of its handler later.
Later(k, j) ==
    /\ j \in Call
    /\ j.client = k.client /\ j.n = k.n /\ j.api = k.api /\ j.light = k.light
    /\ j.stat = k.stat /\ j.digest = k.digest
    /\ j.stage = "writing" => j.api = "set_digest"

\* The daemon works on call k: it is answered to somebody or to nobody, or
\* goes on.
WorksOn(k, j) ==
    /\ Later(k, j)
    /\ calls' = calls \ {k} \/ calls' = (calls \ {k}) \cup {j}
    /\ UNCHANGED client

\* What work on a call keeps.
LEMMA DaemonWorks ==
    ASSUME TypeOK, CallInv, NEW k \in calls, NEW j, WorksOn(k, j)
    PROVE  /\ calls' \subseteq Call
           /\ CallInv'
           /\ VersionInv /\ UNCHANGED <<cache, installed>> => VersionInv'
           /\ Holders' \subseteq Holders
                 \cup {c \in Clients : c = k.client /\ BringsPermit(j)}
           /\ \A c \in Clients : client'[c] = client[c]
<1>1. /\ Later(k, j) /\ client' = client
      /\ \A i \in calls' : i = j \/ (i \in calls /\ i # k)
      /\ calls' \subseteq Call
  BY DEF WorksOn, Later, TypeOK
<1>2. CallInv'
  <2>1. ASSUME NEW i \in calls'
        PROVE  /\ i.n = 0 => WaitsFor(client'[i.client], i)
               /\ i.n # 0 => HasGivenUp(client'[i.client])
               /\ i.stage = "writing" => i.api = "set_digest"
    <3>1. CASE i = j
      BY <1>1, <3>1 DEF CallInv, Later, WaitsFor
    <3>2. CASE i \in calls
      BY <1>1, <3>2 DEF CallInv
    <3> QED
      BY <1>1, <2>1, <3>1, <3>2
  <2>2. ASSUME NEW i \in calls', NEW m \in calls', i.client = m.client,
               i.n = 0, m.n = 0
        PROVE  i = m
    <3>1. CASE i = j /\ m = j
      BY <3>1
    <3>2. CASE i = j /\ m \in calls /\ m # k
      BY <1>1, <2>2, <3>2 DEF CallInv, Later
    <3>3. CASE i \in calls /\ i # k /\ m = j
      BY <1>1, <2>2, <3>3 DEF CallInv, Later
    <3>4. CASE i \in calls /\ m \in calls
      BY <2>2, <3>4 DEF CallInv
    <3> QED
      BY <1>1, <2>2, <3>1, <3>2, <3>3, <3>4
  <2> QED
    BY <2>1, <2>2 DEF CallInv, WaitsFor, HasGivenUp
<1>3. VersionInv /\ UNCHANGED <<cache, installed>> => VersionInv'
  BY <1>1 DEF VersionInv, Fits, Later
<1>4. ASSUME NEW c \in Holders'
      PROVE  c \in Holders \/ (c \in Clients /\ c = k.client /\ BringsPermit(j))
  <2>1. c \in Clients /\ ~client[c].cut
    BY <1>1, <1>4 DEF Holders
  <2>2. \/ Running(c)
        \/ \E i \in calls' : i.client = c /\ BringsPermit(i)
    BY <1>1, <1>4 DEF Holders, Running, BringsPermit
  <2> QED
    BY <1>1, <2>1, <2>2 DEF Holders, Later
<1> QED
  BY <1>1, <1>2, <1>3, <1>4

\* Answering is work on a call, and so is moving on.
LEMMA AnswerWorks ==
    ASSUME TypeOK, NEW k \in calls, NEW a \in Answers, Answer(k, a), UNCHANGED client
    PROVE  \E j : WorksOn(k, j) /\ j.stage = "answered" /\ j.answer = a
<1>1. PICK j : j = [k EXCEPT !.stage = "answered", !.answer = a]
  OBVIOUS
<1>2. k \in Call
  BY DEF TypeOK
<1>3. Later(k, j) /\ j.stage = "answered" /\ j.answer = a
  BY <1>1, <1>2 DEF Later, Call
<1>4. calls' = calls \ {k} \/ calls' = (calls \ {k}) \cup {j}
  BY <1>1 DEF Answer
<1> QED
  BY <1>3, <1>4 DEF WorksOn

\* So is a call that goes on to its next stage.
LEMMA MoveWorks ==
    ASSUME TypeOK, NEW k \in calls, NEW stage \in {"waiting", "writing"},
           stage = "writing" => k.api = "set_digest",
           Move(k, stage), UNCHANGED client
    PROVE  \E j : WorksOn(k, j) /\ j.stage = stage
<1>1. PICK j : j = [k EXCEPT !.stage = stage]
  OBVIOUS
<1>2. k \in Call
  BY DEF TypeOK
<1>3. Later(k, j) /\ j.stage = stage
  BY <1>1, <1>2 DEF Later, Call
<1>4. calls' = (calls \ {k}) \cup {j}
  BY <1>1 DEF Move
<1> QED
  BY <1>3, <1>4 DEF WorksOn

\* While nobody is let in and nobody is thrown out, quotas stay kept.
LEMMA SamePermits ==
    ASSUME QuotaInv, UNCHANGED permissions, Holders' \subseteq Holders,
           \A c \in Clients : client'[c] = client[c]
    PROVE  QuotaInv'
<1>1. HeavyHolders' \subseteq HeavyHolders
  BY DEF HeavyHolders, Holders
<1>2. Cardinality(HeavyHolders') <= MaxHeavy
  BY <1>1, FewerHolders
<1> QED
  BY <1>2 DEF QuotaInv

\* The table of tasks has its type after any step on it.
TasksTyped ==
    task \in [Clients -> {"none", "running", "compiled", "failed", "rejected"}]

\* The handlers that touch neither the permits nor the cache.
LEMMA QuietServeIInv ==
    ASSUME IInv, NEW k \in calls,
           \/ AcquireWaits(k) \/ AcquireTimesOut(k) \/ SetBegins(k)
           \/ SubmitCxxTask(k) \/ WaitForTask(k) \/ WaitEnds(k)
    PROVE  IInv'
<1>0. TypeOK /\ CallInv /\ QuotaInv /\ VersionInv /\ TasksTyped
  BY DEF IInv, TypeOK, TasksTyped
<1>1. UNCHANGED <<client, permissions, cache, installed, timeouts, daemon>>
  BY DEF AcquireWaits, AcquireTimesOut, SetBegins, SubmitCxxTask, WaitForTask,
         WaitEnds, daemonVars
<1>2. k.client \in Clients /\ k \in Call
  BY <1>0 DEF TypeOK, Call
<1>3. TasksTyped'
  <2>1. \/ UNCHANGED task
        \/ task' = [task EXCEPT ![k.client] = "running"]
        \/ task' = [task EXCEPT ![k.client] = "none"]
    BY DEF AcquireWaits, AcquireTimesOut, SetBegins, SubmitCxxTask, WaitForTask,
           WaitEnds, daemonVars
  <2> QED
    BY <1>0, <1>2, <2>1 DEF TasksTyped
<1>4. \E j : WorksOn(k, j) /\ ~BringsPermit(j)
  <2>1. ASSUME NEW stage \in {"waiting", "writing"},
               stage = "writing" => k.api = "set_digest", Move(k, stage)
        PROVE  \E j : WorksOn(k, j) /\ ~BringsPermit(j)
    BY <1>0, <1>1, <2>1, MoveWorks DEF BringsPermit
  <2>2. ASSUME NEW a \in Answers, Answer(k, a), k.api # "acquire" \/ a # "ok"
        PROVE  \E j : WorksOn(k, j) /\ ~BringsPermit(j)
    BY <1>0, <1>1, <2>2, AnswerWorks DEF BringsPermit, WorksOn, Later
  <2>3. CASE AcquireWaits(k) \/ SetBegins(k)
    BY <2>1, <2>3 DEF AcquireWaits, SetBegins, Served
  <2>4. CASE AcquireTimesOut(k)
    BY <2>2, <2>4 DEF AcquireTimesOut, Answers
  <2>5. CASE SubmitCxxTask(k)
    <3>1. /\ k.api = "submit"
          /\ Answer(k, "ok") \/ Answer(k, "bad_request") \/ Answer(k, "error")
      BY <2>5 DEF SubmitCxxTask, Served
    <3> QED
      BY <2>2, <3>1 DEF Answers
  <2>6. CASE WaitForTask(k) \/ WaitEnds(k)
    <3>1. task[k.client] \in Answers \/ task[k.client] = "running"
      BY <1>0, <1>2 DEF TasksTyped, Answers
    <3>2. /\ k.api = "wait"
          /\ \/ Move(k, "waiting")
             \/ \E a \in {"none", "not_found", "unavailable"} : Answer(k, a)
             \/ task[k.client] # "running" /\ Answer(k, task[k.client])
      BY <2>6 DEF WaitForTask, WaitEnds, Served
    <3>3. {"none", "not_found", "unavailable"} \subseteq Answers
      BY DEF Answers
    <3> QED
      BY <2>1, <2>2, <3>1, <3>2, <3>3
  <2> QED
    BY <2>3, <2>4, <2>5, <2>6
<1>5. PICK j : WorksOn(k, j) /\ ~BringsPermit(j)
  BY <1>4
<1>6. /\ calls' \subseteq Call /\ CallInv' /\ VersionInv'
      /\ Holders' \subseteq Holders
      /\ \A c \in Clients : client'[c] = client[c]
  BY <1>0, <1>1, <1>5, DaemonWorks
<1>7. QuotaInv'
  BY <1>0, <1>1, <1>6, SamePermits
<1>8. TypeOK'
  BY <1>0, <1>1, <1>3, <1>6 DEF TypeOK, TasksTyped
<1> QED
  BY <1>6, <1>7, <1>8 DEF IInv

\* The permit is entered in the step that answers; for a heavy one the table,
\* with light and forgotten ones in it, had fewer than MaxHeavy entries.
LEMMA AcquireQuotaIInv ==
    ASSUME IInv, NEW k \in calls, AcquireQuota(k)
    PROVE  IInv'
<1>0. TypeOK /\ CallInv /\ QuotaInv /\ VersionInv
  BY DEF IInv
<1>1. /\ UNCHANGED <<client, task, cache, installed, timeouts, daemon>>
      /\ permissions' = permissions \cup {k.client}
      /\ Answer(k, "ok") /\ k.api = "acquire" /\ Room(k.light)
  BY DEF AcquireQuota, Served
<1>2. k.client \in Clients /\ k.light \in BOOLEAN
  BY <1>0 DEF TypeOK, Call
<1>3. PICK j : WorksOn(k, j) /\ j.stage = "answered" /\ j.answer = "ok"
  BY <1>0, <1>1, AnswerWorks DEF Answers
<1>4. /\ calls' \subseteq Call /\ CallInv' /\ VersionInv'
      /\ Holders' \subseteq Holders
            \cup {c \in Clients : c = k.client /\ BringsPermit(j)}
      /\ \A c \in Clients : client'[c] = client[c]
  BY <1>0, <1>1, <1>3, DaemonWorks
<1>5. /\ IsFiniteSet(permissions')
      /\ Cardinality(permissions) \in Nat /\ Cardinality(permissions') \in Nat
      /\ Cardinality(permissions') <= Cardinality(permissions) + 1
  <2>1. /\ IsFiniteSet(permissions')
        /\ Cardinality(permissions') \in
              {Cardinality(permissions), Cardinality(permissions) + 1}
    BY <1>0, <1>1, FS_AddElement DEF QuotaInv
  <2>2. Cardinality(permissions) \in Nat
    BY <1>0, FS_CardinalityType DEF QuotaInv
  <2> QED
    BY <2>1, <2>2
<1>6. Cardinality(permissions') <= MaxHeavy + MaxLight
  BY <1>1, <1>2, <1>5, Constants DEF Room
<1>7. Holders' \subseteq permissions'
  BY <1>0, <1>1, <1>4 DEF QuotaInv
<1>8. Cardinality(HeavyHolders') <= MaxHeavy
  <2>1. CASE Holders' \subseteq Holders
    <3>1. HeavyHolders' \subseteq HeavyHolders
      BY <1>4, <2>1 DEF HeavyHolders, Holders
    <3> QED
      BY <1>0, <3>1, FewerHolders
  <2>2. CASE client[k.client].light
    <3>1. HeavyHolders' \subseteq HeavyHolders
      BY <1>4, <2>2 DEF HeavyHolders, Holders
    <3> QED
      BY <1>0, <3>1, FewerHolders
  <2>3. CASE BringsPermit(j) /\ ~client[k.client].light
    <3>1. k.n = 0
      BY <1>3, <2>3 DEF BringsPermit, WorksOn, Later
    <3>2. k.light = client[k.client].light
      BY <1>0, <1>1, <3>1 DEF CallInv, WaitsFor
    <3>3. Cardinality(permissions) < MaxHeavy
      BY <1>1, <2>3, <3>2, Constants DEF Room
    <3>4. HeavyHolders' \subseteq permissions'
      BY <1>7 DEF HeavyHolders
    <3>5. IsFiniteSet(HeavyHolders') /\ Cardinality(HeavyHolders') <= Cardinality(permissions')
      BY <1>5, <3>4, FS_Subset
    <3>6. Cardinality(HeavyHolders') \in Nat
      BY <3>5, FS_CardinalityType
    <3> QED
      BY <1>5, <3>3, <3>5, <3>6, Constants
  <2>4. BringsPermit(j) \/ Holders' \subseteq Holders
    BY <1>4
  <2> QED
    BY <2>1, <2>2, <2>3, <2>4
<1>9. QuotaInv'
  BY <1>5, <1>6, <1>7, <1>8 DEF QuotaInv
<1>10. TypeOK'
  BY <1>0, <1>1, <1>2, <1>4 DEF TypeOK
<1> QED
  BY <1>4, <1>9, <1>10 DEF IInv

\* A permit is dropped for a client that gives it back, or gave a call up.
LEMMA ReleaseQuotaIInv ==
    ASSUME IInv, NEW k \in calls, ReleaseQuota(k)
    PROVE  IInv'
<1>0. TypeOK /\ CallInv /\ QuotaInv /\ VersionInv
  BY DEF IInv
<1>1. /\ UNCHANGED <<client, task, cache, installed, timeouts, daemon>>
      /\ permissions' = permissions \ {k.client}
      /\ Answer(k, "ok") /\ k.api = "release"
  BY DEF ReleaseQuota, Served
<1>2. PICK j : WorksOn(k, j)
  BY <1>0, <1>1, AnswerWorks DEF Answers
<1>3. /\ calls' \subseteq Call /\ CallInv' /\ VersionInv'
      /\ Holders' \subseteq Holders
            \cup {c \in Clients : c = k.client /\ BringsPermit(j)}
      /\ \A c \in Clients : client'[c] = client[c]
  BY <1>0, <1>1, <1>2, DaemonWorks
<1>4. ~BringsPermit(j)
  BY <1>1, <1>2 DEF BringsPermit, WorksOn, Later
<1>5. k.client \notin Holders
  <2>1. CASE k.n = 0
    <3>1. client[k.client].pc = "releasing"
      BY <1>0, <1>1, <2>1 DEF CallInv, WaitsFor
    <3>2. \A i \in calls : i.client = k.client => ~BringsPermit(i)
      BY <1>0, <1>1, <2>1 DEF CallInv, BringsPermit
    <3> QED
      BY <3>1, <3>2 DEF Holders, Running
  <2>2. CASE k.n # 0
    <3>1. client[k.client].cut \/ client[k.client].pc = "exited"
      BY <1>0, <2>2 DEF CallInv, HasGivenUp
    <3>2. CASE client[k.client].cut
      BY <3>2 DEF Holders
    <3>3. CASE client[k.client].pc = "exited"
      <4>1. \A i \in calls : i.client = k.client => ~BringsPermit(i)
        BY <1>0, <3>3 DEF CallInv, BringsPermit, WaitsFor
      <4> QED
        BY <3>3, <4>1 DEF Holders, Running
    <3> QED
      BY <3>1, <3>2, <3>3
  <2> QED
    BY <2>1, <2>2
<1>6. /\ IsFiniteSet(permissions')
      /\ Cardinality(permissions') <= MaxHeavy + MaxLight
  <2>1. IsFiniteSet(permissions') /\ Cardinality(permissions') <= Cardinality(permissions)
    BY <1>0, <1>1, FS_Subset DEF QuotaInv
  <2>2. Cardinality(permissions) \in Nat /\ Cardinality(permissions') \in Nat
    BY <1>0, <2>1, FS_CardinalityType DEF QuotaInv
  <2> QED
    BY <1>0, <2>1, <2>2, Constants DEF QuotaInv
<1>7. Holders' \subseteq permissions' /\ HeavyHolders' \subseteq HeavyHolders
  BY <1>0, <1>1, <1>3, <1>4, <1>5 DEF QuotaInv, HeavyHolders, Holders
<1>8. QuotaInv'
  BY <1>0, <1>6, <1>7, FewerHolders DEF QuotaInv
<1>9. TypeOK'
  BY <1>0, <1>1, <1>3 DEF TypeOK
<1> QED
  BY <1>3, <1>8, <1>9 DEF IInv

\* Set writes an entry that fits, or one that is marked as raced for good.
LEMMA SetFileDigestIInv ==
    ASSUME IInv, NEW k \in calls, SetFileDigest(k)
    PROVE  IInv'
<1>0. TypeOK /\ CallInv /\ QuotaInv /\ VersionInv
  BY DEF IInv
<1>1. /\ UNCHANGED <<client, permissions, task, installed, timeouts, daemon>>
      /\ Answer(k, "ok") /\ k.stage = "writing"
  BY DEF SetFileDigest
<1>2. /\ k.api = "set_digest" /\ Fits(k) /\ k \in Call
      /\ Writing \subseteq Call
  BY <1>0, <1>1 DEF CallInv, VersionInv, TypeOK, Writing
<1>3. PICK j : WorksOn(k, j)
  BY <1>0, <1>1, AnswerWorks DEF Answers
<1>4. /\ calls' \subseteq Call /\ CallInv'
      /\ Holders' \subseteq Holders
            \cup {c \in Clients : c = k.client /\ BringsPermit(j)}
      /\ \A c \in Clients : client'[c] = client[c]
  BY <1>0, <1>3, DaemonWorks
<1>5. ~BringsPermit(j)
  BY <1>2, <1>3 DEF BringsPermit, WorksOn, Later
<1>6. QuotaInv'
  BY <1>0, <1>1, <1>4, <1>5, SamePermits
<1>7. /\ cache' \in [stat : 0 .. MaxVersion, digest : 0 .. MaxVersion, raced : BOOLEAN]
      /\ ~cache'.raced => Fits(cache)'
  <2>1. cache \in [stat : 0 .. MaxVersion, digest : 0 .. MaxVersion, raced : BOOLEAN]
    BY <1>0 DEF TypeOK
  <2>2. CASE cache' = [cache EXCEPT !.stat = k.stat, !.digest = k.digest]
    BY <1>1, <1>2, <2>1, <2>2 DEF Call, Fits
  <2>3. ASSUME NEW w \in Writing, NEW v \in Writing,
               cache' = [stat |-> w.stat, digest |-> v.digest, raced |-> TRUE]
        PROVE  /\ cache' \in [stat : 0 .. MaxVersion, digest : 0 .. MaxVersion,
                              raced : BOOLEAN]
               /\ cache'.raced
    BY <1>2, <2>3 DEF Call
  <2> QED
    BY <2>2, <2>3 DEF SetFileDigest
<1>8. \A i \in calls' : i.api = "set_digest" => Fits(i)'
  <2>1. \A i \in calls' : i = j \/ i \in calls
    BY <1>3 DEF WorksOn
  <2> QED
    BY <1>0, <1>1, <1>2, <1>3, <2>1 DEF VersionInv, Fits, WorksOn, Later
<1>9. VersionInv'
  BY <1>0, <1>1, <1>7, <1>8 DEF VersionInv
<1>10. TypeOK'
  BY <1>0, <1>1, <1>4, <1>7 DEF TypeOK
<1> QED
  BY <1>4, <1>6, <1>9, <1>10 DEF IInv

\* The timer throws out the dead only, and a holder is not dead.
LEMMA ReapIInv ==
    ASSUME IInv, OnTimerCheckAliveProc
    PROVE  IInv'
<1>0. TypeOK /\ CallInv /\ QuotaInv /\ VersionInv
  BY DEF IInv
<1>1. /\ UNCHANGED <<client, calls, task, cache, installed, timeouts, daemon>>
      /\ permissions' = Reaped
  BY DEF OnTimerCheckAliveProc
<1>2. \A c \in Holders : client[c].pc # "exited"
  BY <1>0 DEF Holders, Running, CallInv, WaitsFor, BringsPermit
<1>3. Holders' = Holders /\ HeavyHolders' = HeavyHolders
  BY <1>1 DEF Holders, HeavyHolders, Running, BringsPermit
<1>4. Holders' \subseteq permissions' /\ permissions' \subseteq permissions
  BY <1>0, <1>1, <1>2, <1>3 DEF Reaped, IsAliveProc, QuotaInv, Holders
<1>5. /\ IsFiniteSet(permissions')
      /\ Cardinality(permissions') <= MaxHeavy + MaxLight
  <2>1. IsFiniteSet(permissions') /\ Cardinality(permissions') <= Cardinality(permissions)
    BY <1>0, <1>4, FS_Subset DEF QuotaInv
  <2>2. Cardinality(permissions) \in Nat /\ Cardinality(permissions') \in Nat
    BY <1>0, <2>1, FS_CardinalityType DEF QuotaInv
  <2> QED
    BY <1>0, <2>1, <2>2, Constants DEF QuotaInv
<1>6. QuotaInv'
  BY <1>0, <1>3, <1>4, <1>5 DEF QuotaInv
<1>7. TypeOK' /\ CallInv' /\ VersionInv'
  BY <1>0, <1>1, <1>4 DEF TypeOK, CallInv, WaitsFor, HasGivenUp, VersionInv, Fits
<1> QED
  BY <1>6, <1>7 DEF IInv

\* Steps of the dispatcher and of the environment, and a crash.
LEMMA OutsideIInv ==
    ASSUME IInv, UNCHANGED <<client, permissions, calls, cache, timeouts>>,
           TasksTyped', daemon' \in {"up", "dead"},
           installed' \in Versions, installed <= installed'
    PROVE  IInv'
<1>1. TypeOK'
  BY DEF IInv, TypeOK, TasksTyped
<1>2. CallInv'
  BY DEF IInv, CallInv, WaitsFor, HasGivenUp
<1>3. Holders' = Holders /\ HeavyHolders' = HeavyHolders
  BY DEF Holders, HeavyHolders, Running, BringsPermit
<1>4. QuotaInv'
  BY <1>3 DEF IInv, QuotaInv
<1>5. VersionInv'
  <2>1. installed \in Nat /\ installed' \in Nat
    BY Constants DEF IInv, TypeOK, Versions
  <2>2. \A c \in Clients : client[c].stat \in Nat
    BY Constants DEF IInv, TypeOK, ClientState
  <2>3. \A k \in calls : k.digest \in Nat
    BY Constants DEF IInv, TypeOK, Call
  <2>4. cache.digest \in Nat
    BY Constants DEF IInv, TypeOK
  <2> QED
    BY <2>1, <2>2, <2>3, <2>4 DEF IInv, VersionInv, Fits
<1> QED
  BY <1>1, <1>2, <1>4, <1>5 DEF IInv

\* Every step keeps the inductive invariant.
LEMMA NextIInv == IInv /\ [Next]_vars => IInv'
<1> SUFFICES ASSUME IInv, [Next]_vars PROVE IInv'
  OBVIOUS
<1>1. /\ TasksTyped /\ installed \in Versions /\ installed <= installed
      /\ daemon \in {"up", "dead"}
  BY Constants DEF IInv, TypeOK, TasksTyped, Versions
<1>2. CASE UNCHANGED vars
  BY <1>1, <1>2, OutsideIInv DEF vars, TasksTyped
<1>3. ASSUME NEW k \in calls, Serve(k) \/ Expire(k) PROVE IInv'
  BY <1>3, QuietServeIInv, AcquireQuotaIInv, ReleaseQuotaIInv, SetFileDigestIInv
     DEF Serve, Expire
<1>4. ASSUME NEW k \in calls, RaceCrashes(k) PROVE IInv'
  BY <1>1, <1>4, OutsideIInv DEF RaceCrashes, Crash, TasksTyped
<1>5. ASSUME NEW c \in Clients, TaskEnds(c) \/ TaskCleared(c) PROVE IInv'
  <2>1. TasksTyped'
    BY <1>1, <1>5 DEF TaskEnds, TaskCleared, TasksTyped
  <2> QED
    BY <1>1, <1>5, <2>1, OutsideIInv DEF TaskEnds, TaskCleared
<1>6. CASE Upgrade
  <2>1. installed' \in Versions /\ installed <= installed'
    BY <1>1, <1>6, Constants DEF Upgrade, Versions
  <2>2. UNCHANGED <<client, permissions, calls, task, cache, timeouts, daemon>>
    BY <1>6 DEF Upgrade, daemonVars
  <2> QED
    BY <1>1, <2>1, <2>2, OutsideIInv DEF TasksTyped
<1> QED
  BY <1>2, <1>3, <1>4, <1>5, <1>6, ClientIInv, StartAgainIInv, ReapIInv
     DEF Next, Finished

\* IInv holds in every reachable state.
LEMMA IInvHolds == Spec => []IInv
  BY InitIInv, NextIInv, PTL DEF Spec

\* Clients, calls, permits and the cache entry have their types, and no client
\* retries more often than Compile lets it.
THEOREM TypesCorrect == Spec => []TypeOK
<1>1. IInv => TypeOK
  BY DEF IInv
<1> QED
  BY <1>1, IInvHolds, PTL

\* For any number of clients, quotas and lost calls, the monitor's permits bound
\* what runs: a client all of whose calls were answered runs with a permit, and
\* heavy programs never exceed max_heavy_tasks_.
THEOREM NoOverload == Spec => []QuotaPreventsOverload
<1>1. ASSUME IInv PROVE QuotaPreventsOverload
  <2> DEFINE R == {c \in Clients : Running(c) /\ ~client[c].cut}
             H == {c \in R : ~client[c].light}
  <2>1. R \subseteq Holders /\ H \subseteq HeavyHolders
    BY DEF Holders, HeavyHolders
  <2>2. R \subseteq permissions
    BY <1>1, <2>1 DEF IInv, QuotaInv
  <2>3. Cardinality(H) <= MaxHeavy
    <3> HIDE DEF H
    <3> QED
      BY <1>1, <2>1, FewerHolders DEF IInv
  <2>4. Cardinality(R) <= MaxHeavy + MaxLight
    <3>1. IsFiniteSet(permissions) /\ Cardinality(permissions) <= MaxHeavy + MaxLight
      BY <1>1 DEF IInv, QuotaInv
    <3> HIDE DEF R
    <3>2. IsFiniteSet(R) /\ Cardinality(R) <= Cardinality(permissions)
      BY <2>2, <3>1, FS_Subset
    <3>3. Cardinality(R) \in Nat /\ Cardinality(permissions) \in Nat
      BY <3>1, <3>2, FS_CardinalityType
    <3> QED
      BY <3>1, <3>2, <3>3, Constants
  <2> QED
    BY <2>2, <2>3, <2>4 DEF QuotaPreventsOverload
<1> QED
  BY <1>1, IInvHolds, PTL

\* A step submits under the digest the cache gives for the version its client
\* looked at, and an entry that was not raced fits.
LEMMA StepUnderInstalled ==
    ASSUME IInv, [Next]_vars
    PROVE  UnderInstalledCompiler
<1> SUFFICES ASSUME NEW c \in Clients, task[c] # "running", task'[c] = "running",
                    ~cache.raced
             PROVE  cache.digest \in client[c].stat .. installed
  BY DEF UnderInstalledCompiler
<1>1. task \in [Clients -> {"none", "running", "compiled", "failed", "rejected"}]
  BY DEF IInv, TypeOK
<1>2. PICK k \in calls : SubmitCxxTask(k)
  <2>1. ~UNCHANGED task /\ \A d \in Clients : task' # [task EXCEPT ![d] = "none"]
    BY <1>1
  <2>2. ASSUME NEW d \in Clients, TaskEnds(d) PROVE FALSE
    BY <1>1, <2>2 DEF TaskEnds
  <2>3. ASSUME NEW d \in Clients, ClientStep(d) \/ CallFails(d) \/ Die(d)
                                    \/ StartAgain(d)
        PROVE  FALSE
    BY <2>1, <2>3 DEF ClientStep, Start, TryAcquireTaskQuota, ProgramEnds,
       SubmitCompileTask, Receive, CallFails, Die, StartAgain, daemonVars
  <2>4. ASSUME NEW k \in calls, Serve(k) \/ Expire(k) \/ RaceCrashes(k),
               ~SubmitCxxTask(k)
        PROVE  FALSE
    <3>1. k.client \in Clients
      BY DEF IInv, TypeOK, Call
    <3> QED
      BY <2>1, <2>4, <3>1 DEF Serve, AcquireQuota, AcquireWaits, ReleaseQuota,
         SetBegins, SetFileDigest, WaitForTask, Expire, AcquireTimesOut, WaitEnds,
         RaceCrashes, Crash, daemonVars
  <2> QED
    BY <2>1, <2>2, <2>3, <2>4 DEF Next, vars, OnTimerCheckAliveProc,
       IsAliveProcAborts, TaskCleared, Upgrade, Finished, daemonVars
<1>3. /\ Prepared(k) /\ k.n = 0 /\ k.api = "submit"
      /\ task' = [task EXCEPT ![k.client] = "running"]
  BY <1>2 DEF SubmitCxxTask, Served
<1>4. k.client = c
  BY <1>1, <1>3
<1>5. cache.stat = client[c].stat
  BY <1>3, <1>4 DEF Prepared, TryGet, IInv, CallInv, WaitsFor
<1>6. cache.stat <= cache.digest /\ cache.digest <= installed
  BY DEF IInv, VersionInv, Fits
<1>7. cache.stat \in Nat /\ cache.digest \in Nat /\ installed \in Nat
  BY Constants DEF IInv, TypeOK, Versions
<1> QED
  BY <1>5, <1>6, <1>7

\* Whoever registered the digest, and whenever the compiler was upgraded, a task
\* goes to the cloud under the digest of a compiler that was installed when its
\* client looked at it or since; only an entry left by a race may be another.
THEOREM SubmissionsNameTheirCompiler == Spec => SubmittedCompilerWasInstalled
<1>1. IInv /\ [Next]_vars => UnderInstalledCompiler
  BY StepUnderInstalled
<1> QED
  BY <1>1, IInvHolds, PTL DEF Spec, SubmittedCompilerWasInstalled

=============================================================================
