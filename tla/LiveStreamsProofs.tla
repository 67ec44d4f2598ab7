------------------------- MODULE LiveStreamsProofs -------------------------
(* The safety properties of LiveStreams, for any number of tabs, requests   *)
(* and faults, and any cap of at least two streams; and that its streams    *)
(* are the pool of StreamPool.                                              *)
EXTENDS LiveStreams, FiniteSetTheorems, TLAPS

\* A request is in a Set while its stream is live, and that Set is the one in
\* the Map.
LiveIsHome ==
    \A c \in Conn : /\ request[c] = "live" => home[c] \in SetObject /\ home[c] = current
                    /\ request[c] # "live" => home[c] = NoSet

\* The ages of the live streams are 0, 1, ..., n - 1, each once, below the cap.
AgesAreRanks ==
    /\ \A c \in Conn : request[c] = "live" => age[c] < Cap
    /\ \A c, d \in Conn : request[c] = "live" /\ request[d] = "live" /\ c # d
                             => age[c] # age[d]
    /\ \A c \in Conn : \A k \in Nat :
          request[c] = "live" /\ k < age[c]
             => \E d \in Conn : request[d] = "live" /\ age[d] = k

ServerInv == LiveIsHome /\ AgesAreRanks

TabInv == HeldTabTries /\ ReleasedTabRests

-----------------------------------------------------------------------------
LEMMA TypeInit == Init => TypeOK
BY DEF Init, TypeOK

LEMMA TypeNext == TypeOK /\ [Next]_vars => TypeOK'
<1> SUFFICES ASSUME TypeOK, [Next]_vars PROVE TypeOK'
  OBVIOUS
<1> USE DEF TypeOK
<1>1. ASSUME NEW t \in Tab, TabStep(t) PROVE TypeOK'
  <2>1. CASE Retain(t)
    BY <2>1 DEF Retain, Opened, serverVars
  <2>2. CASE Release(t)
    BY <2>2 DEF Release, serverVars
  <2>3. CASE ReleaseFires(t)
    BY <2>3 DEF ReleaseFires, serverVars
  <2>4. CASE ReconnectFires(t)
    BY <2>4 DEF ReconnectFires, Opened, serverVars
  <2>5. CASE Unload(t)
    BY <2>5 DEF Unload, serverVars
  <2>6. CASE SendRequest(t)
    BY <2>6 DEF SendRequest
  <2>7. CASE SeesOpen(t)
    BY <2>7 DEF SeesOpen, serverVars
  <2>8. CASE SeesEnd(t)
    BY <2>8 DEF SeesEnd, Reconnecting, serverVars
  <2>9. CASE Break(t)
    BY <2>9 DEF Break, Reconnecting, serverVars
  <2>10. CASE Refuse(t)
    BY <2>10 DEF Refuse
  <2> QED
    BY <1>1, <2>1, <2>2, <2>3, <2>4, <2>5, <2>6, <2>7, <2>8, <2>9, <2>10 DEF TabStep
<1>2. ASSUME NEW c \in Conn, ServerStep(c) PROVE TypeOK'
  <2>1. ASSUME NEW s \in SetObject, SubscribeInto(c, s), UNCHANGED <<tabVars, visits, faults>>
        PROVE TypeOK'
    <3>1. request' \in [Conn -> {"free", "auth", "live"}]
      BY <2>1 DEF SubscribeInto
    <3>2. home' \in [Conn -> SetObject \cup {NoSet}]
      BY <2>1 DEF SubscribeInto
    <3>3. age' \in [Conn -> Nat]
      BY <2>1 DEF SubscribeInto
    <3>4. current' \in SetObject \cup {NoSet}
      BY <2>1 DEF SubscribeInto
    <3> QED
      BY <2>1, <3>1, <3>2, <3>3, <3>4 DEF tabVars
  <2>2. CASE Subscribe(c)
    BY <2>1, <2>2 DEF Subscribe
  <2>3. CASE NoticeClose(c)
    <3>1. age' \in [Conn -> Nat]
      <4>1. \A d \in Conn : age[d] \in Nat
        OBVIOUS
      <4>2. \A d \in Conn : age[d] > age[c] => age[d] - 1 \in Nat
        BY <4>1
      <4> QED
        BY <2>3, <4>1, <4>2 DEF NoticeClose, Finalize
    <3> QED
      BY <2>3, <3>1 DEF NoticeClose, Finalize, tabVars
  <2>4. CASE Abandon(c)
    BY <2>4 DEF Abandon, tabVars
  <2> QED
    BY <1>2, <2>2, <2>3, <2>4 DEF ServerStep
<1>3. CASE Restart
  BY <1>3 DEF Restart, tabVars
<1>4. CASE UNCHANGED vars
  BY <1>4 DEF vars, tabVars, serverVars
<1> QED
  BY <1>1, <1>2, <1>3, <1>4 DEF Next

\* TypeOK: the values of the variables, whatever the constants.
THEOREM LiveStreamTypes == Spec => []TypeOK
BY TypeInit, TypeNext, PTL DEF Spec

-----------------------------------------------------------------------------
\* What subscribe() does to the streams that were live: the newest Cap - 1
\* stay, one older each, and when there were any, the newest of all is kept.
LEMMA SubscribeKeeps ==
    ASSUME TypeOK, ServerInv, NEW c \in Conn, request[c] = "auth",
           NEW s \in SetObject, SubscribeInto(c, s),
           current = s \/ (current = NoSet /\ Members(s) = {})
    PROVE  /\ \A d \in Conn : request'[d] = "live"
                 <=> d = c \/ (request[d] = "live" /\ age[d] + 1 < Cap)
           /\ \A d \in Conn : d # c /\ request'[d] = "live" => age'[d] = age[d] + 1
           /\ age'[c] = 0
           /\ \A d \in Conn : request'[d] = "live" => home'[d] = s
           /\ \A d \in Conn : request'[d] # "live" => home'[d] = NoSet
           /\ current' = s
<1> USE DEF TypeOK
<1>1. c \notin Members(s) /\ s # NoSet
  BY NoneAssumption DEF ServerInv, LiveIsHome, Members
<1>2. \A d \in Conn : d \in Members(s) <=> request[d] = "live"
  BY NoneAssumption DEF ServerInv, LiveIsHome, Members
<1>3. \A d \in Conn : d \in Evicted(s) <=> request[d] = "live" /\ age[d] + 1 >= Cap
  BY <1>2 DEF Evicted
<1>4. Members(s) # {} => Members(s) \ Evicted(s) # {}
  <2> SUFFICES ASSUME NEW d \in Members(s) PROVE Members(s) \ Evicted(s) # {}
    OBVIOUS
  <2>1. d \in Conn /\ request[d] = "live" /\ age[d] \in Nat
    BY <1>2 DEF Members
  <2>2. PICK e \in Conn : request[e] = "live" /\ age[e] = 0
    <3>1. CASE age[d] = 0
      BY <2>1, <3>1
    <3>2. CASE age[d] # 0
      BY <2>1, <3>2 DEF ServerInv, AgesAreRanks
    <3> QED
      BY <3>1, <3>2
  <2>3. e \in Members(s) /\ e \notin Evicted(s)
    BY <1>2, <1>3, <2>2, CapAssumption
  <2> QED
    BY <2>3
<1>5. current' = s
  BY <1>4 DEF SubscribeInto, Evicted
<1>6. \A d \in Conn : request'[d] = IF d = c THEN "live"
                                    ELSE IF d \in Evicted(s) THEN "free" ELSE request[d]
  BY DEF SubscribeInto
<1>7. \A d \in Conn : home'[d] = IF d = c THEN s
                                 ELSE IF d \in Evicted(s) THEN NoSet ELSE home[d]
  BY DEF SubscribeInto
<1>8. \A d \in Conn : age'[d] = IF d = c \/ d \in Evicted(s) THEN 0
                                ELSE IF d \in Members(s) \ Evicted(s) THEN age[d] + 1 ELSE age[d]
  BY DEF SubscribeInto
<1>9. \A d \in Conn : request'[d] = "live"
                 <=> d = c \/ (request[d] = "live" /\ age[d] + 1 < Cap)
  BY <1>3, <1>6, CapAssumption
<1>10. \A d \in Conn : d # c /\ request'[d] = "live" => age'[d] = age[d] + 1
  BY <1>2, <1>3, <1>6, <1>8
<1>11. \A d \in Conn : request'[d] = "live" => home'[d] = s
  BY <1>2, <1>3, <1>6, <1>7 DEF Members
<1>12. \A d \in Conn : request'[d] # "live" => home'[d] = NoSet
  BY <1>6, <1>7 DEF ServerInv, LiveIsHome
<1> QED
  BY <1>5, <1>8, <1>9, <1>10, <1>11, <1>12

LEMMA SubscribeKeepsInv ==
    ASSUME TypeOK, ServerInv, NEW c \in Conn, Subscribe(c)
    PROVE  ServerInv'
<1>1. PICK s \in SetObject : /\ SubscribeInto(c, s)
                             /\ current = s \/ (current = NoSet /\ Members(s) = {})
  BY DEF Subscribe, TypeOK
<1>2. request[c] = "auth"
  BY DEF Subscribe
<1>3. /\ \A d \in Conn : request'[d] = "live"
                 <=> d = c \/ (request[d] = "live" /\ age[d] + 1 < Cap)
      /\ \A d \in Conn : d # c /\ request'[d] = "live" => age'[d] = age[d] + 1
      /\ age'[c] = 0
      /\ \A d \in Conn : request'[d] = "live" => home'[d] = s
      /\ \A d \in Conn : request'[d] # "live" => home'[d] = NoSet
      /\ current' = s
  BY <1>1, <1>2, SubscribeKeeps
<1>4. \A d \in Conn : age[d] \in Nat
  BY DEF TypeOK
<1>5. LiveIsHome'
  BY <1>3 DEF LiveIsHome
<1>6. \A d \in Conn : request'[d] = "live" => age'[d] < Cap
  BY <1>3, <1>4, CapAssumption
<1>7. \A d, e \in Conn : request'[d] = "live" /\ request'[e] = "live" /\ d # e
                            => age'[d] # age'[e]
  BY <1>3, <1>4 DEF ServerInv, AgesAreRanks
<1>8. ASSUME NEW d \in Conn, NEW k \in Nat, request'[d] = "live", k < age'[d]
      PROVE  \E e \in Conn : request'[e] = "live" /\ age'[e] = k
  <2>1. CASE k = 0
    BY <1>3, <2>1
  <2>2. CASE k # 0
    <3>1. d # c /\ request[d] = "live" /\ age[d] + 1 < Cap /\ k - 1 \in Nat /\ k - 1 < age[d]
      BY <1>2, <1>3, <1>4, <1>8, <2>2
    <3>2. PICK e \in Conn : request[e] = "live" /\ age[e] = k - 1
      BY <3>1 DEF ServerInv, AgesAreRanks
    <3>3. e # c /\ age[e] + 1 < Cap
      BY <1>2, <1>4, <3>1, <3>2, CapAssumption
    <3>4. request'[e] = "live" /\ age'[e] = k
      BY <1>3, <3>2, <3>3
    <3> QED
      BY <3>4
  <2> QED
    BY <2>1, <2>2
<1> QED
  BY <1>5, <1>6, <1>7, <1>8 DEF ServerInv, AgesAreRanks

LEMMA NoticeKeepsInv ==
    ASSUME TypeOK, ServerInv, NEW c \in Conn, NoticeClose(c)
    PROVE  ServerInv'
<1> USE DEF TypeOK
<1>1. request[c] = "live"
  BY DEF NoticeClose
<1>2. \A d \in Conn : request'[d] = "live" <=> d # c /\ request[d] = "live"
  BY DEF NoticeClose, Finalize
<1>3. \A d \in Conn : home'[d] = IF d = c THEN NoSet ELSE home[d]
  BY DEF NoticeClose, Finalize
<1>4. \A d \in Conn : request'[d] = "live" =>
          age'[d] = IF age[d] > age[c] THEN age[d] - 1 ELSE age[d]
  BY <1>1, <1>2 DEF NoticeClose, Finalize, ServerInv, LiveIsHome
<1>5. \A d \in Conn : age[d] \in Nat
  OBVIOUS
<1>6. \A d \in Conn : request'[d] = "live" => current' = current
  <2> SUFFICES ASSUME NEW d \in Conn, request'[d] = "live" PROVE current' = current
    OBVIOUS
  <2>1. d # c /\ home[d] = home[c]
    BY <1>1, <1>2 DEF ServerInv, LiveIsHome
  <2>2. Members(home[c]) # {c}
    BY <2>1 DEF Members
  <2> QED
    BY <2>2 DEF NoticeClose, Finalize
<1>7. LiveIsHome'
  BY <1>2, <1>3, <1>6 DEF ServerInv, LiveIsHome
<1>8. \A d \in Conn : request'[d] = "live" => age'[d] < Cap
  BY <1>2, <1>4, <1>5, CapAssumption DEF ServerInv, AgesAreRanks
<1>9. ASSUME NEW d \in Conn, NEW e \in Conn, request'[d] = "live", request'[e] = "live", d # e
      PROVE  age'[d] # age'[e]
  <2>1. age[d] # age[e] /\ age[d] # age[c] /\ age[e] # age[c]
    BY <1>1, <1>2, <1>9 DEF ServerInv, AgesAreRanks
  <2> QED
    BY <1>4, <1>5, <1>9, <2>1
<1>10. ASSUME NEW d \in Conn, NEW k \in Nat, request'[d] = "live", k < age'[d]
       PROVE  \E e \in Conn : request'[e] = "live" /\ age'[e] = k
  <2>1. request[d] = "live" /\ d # c /\ k < age[d] /\ age[d] # age[c]
    BY <1>1, <1>2, <1>4, <1>5, <1>10 DEF ServerInv, AgesAreRanks
  <2>2. CASE k < age[c]
    <3>1. PICK e \in Conn : request[e] = "live" /\ age[e] = k
      BY <1>1, <2>2 DEF ServerInv, AgesAreRanks
    <3>2. e # c
      BY <1>5, <2>2, <3>1
    <3> QED
      BY <1>2, <1>4, <1>5, <2>2, <3>1, <3>2
  <2>3. CASE ~(k < age[c])
    <3>1. age[d] > age[c] /\ k + 1 < age[d] /\ k + 1 \in Nat
      BY <1>4, <1>5, <1>10, <2>1, <2>3
    <3>2. PICK e \in Conn : request[e] = "live" /\ age[e] = k + 1
      BY <2>1, <3>1 DEF ServerInv, AgesAreRanks
    <3>3. e # c /\ age[e] > age[c]
      BY <1>5, <2>3, <3>2
    <3> QED
      BY <1>2, <1>4, <1>5, <3>2, <3>3
  <2> QED
    BY <2>2, <2>3
<1> QED
  BY <1>7, <1>8, <1>9, <1>10 DEF ServerInv, AgesAreRanks

LEMMA ServerNext == TypeOK /\ ServerInv /\ [Next]_vars => ServerInv'
<1> SUFFICES ASSUME TypeOK, ServerInv, [Next]_vars PROVE ServerInv'
  OBVIOUS
<1>1. ASSUME UNCHANGED <<home, age, current>>,
             \A c \in Conn : request'[c] = "live" <=> request[c] = "live"
      PROVE  ServerInv'
  BY <1>1 DEF ServerInv, LiveIsHome, AgesAreRanks
<1>2. ASSUME NEW t \in Tab, TabStep(t) PROVE ServerInv'
  <2>1. CASE SendRequest(t)
    BY <1>1, <2>1 DEF SendRequest, Forgotten, TypeOK
  <2>2. CASE Refuse(t)
    BY <1>1, <2>2 DEF Refuse, TypeOK
  <2>3. CASE UNCHANGED serverVars
    BY <1>1, <2>3 DEF serverVars
  <2> QED
    BY <1>2, <2>1, <2>2, <2>3
       DEF TabStep, Retain, Release, ReleaseFires, ReconnectFires, Unload, SeesOpen,
           SeesEnd, Break, Reconnecting
<1>3. ASSUME NEW c \in Conn, ServerStep(c) PROVE ServerInv'
  <2>1. CASE Abandon(c)
    BY <1>1, <2>1 DEF Abandon, TypeOK
  <2> QED
    BY <1>3, <2>1, SubscribeKeepsInv, NoticeKeepsInv DEF ServerStep
<1>4. CASE Restart
  BY <1>4 DEF Restart, ServerInv, LiveIsHome, AgesAreRanks
<1>5. CASE UNCHANGED vars
  BY <1>1, <1>5 DEF vars, serverVars
<1> QED
  BY <1>2, <1>3, <1>4, <1>5 DEF Next

LEMMA ServerAlways == Spec => [](TypeOK /\ ServerInv)
<1>1. Init => ServerInv
  BY DEF Init, ServerInv, LiveIsHome, AgesAreRanks
<1> QED
  BY <1>1, ServerNext, TypeInit, TypeNext, PTL DEF Spec

\* StreamsReached: emit() reaches every live stream, for every cap above one.
THEOREM EveryStreamReached == Spec => []StreamsReached
<1>1. ServerInv => StreamsReached
  BY NoneAssumption DEF ServerInv, LiveIsHome, StreamsReached
<1> QED
  BY <1>1, ServerAlways, PTL

\* StreamsCapped: distinct ages below the cap number at most Cap streams.
THEOREM NeverOverTheCap == Spec => []StreamsCapped
<1>1. TypeOK /\ ServerInv => StreamsCapped
  <2> SUFFICES ASSUME TypeOK, ServerInv PROVE StreamsCapped
    OBVIOUS
  <2> DEFINE Rank == [c \in Live |-> age[c]]
  <2>1. \A c \in Live : age[c] \in 0..(Cap - 1)
    BY CapAssumption DEF ServerInv, AgesAreRanks, TypeOK, Live
  <2>2. \A c, d \in Live : age[c] = age[d] => c = d
    BY DEF ServerInv, AgesAreRanks, Live
  <2>3. Rank \in Injection(Live, 0..(Cap - 1))
    <3>1. Rank \in [Live -> 0..(Cap - 1)]
      BY <2>1
    <3>2. \A c, d \in Live : Rank[c] = Rank[d] => c = d
      BY <2>2
    <3> HIDE DEF Rank
    <3> QED
      BY <3>1, <3>2 DEF Injection, IsInjective
  <2>4. /\ IsFiniteSet(0..(Cap - 1))
        /\ Cardinality(0..(Cap - 1)) = Cap
    BY FS_Interval, CapAssumption
  <2> HIDE DEF Rank
  <2>5. Cardinality(Live) <= Cardinality(0..(Cap - 1))
    BY <2>3, <2>4, FS_Injection
  <2> QED
    BY <2>4, <2>5 DEF StreamsCapped, Live
<1> QED
  BY <1>1, ServerAlways, PTL

-----------------------------------------------------------------------------
LEMMA TabInvNext == TypeOK /\ TabInv /\ [Next]_vars => TabInv'
<1> SUFFICES ASSUME TypeOK, TabInv, [Next]_vars PROVE TabInv'
  OBVIOUS
<1> USE DEF TypeOK, TabInv, HeldTabTries, ReleasedTabRests
<1>1. ASSUME NEW t \in Tab, TabStep(t) PROVE TabInv'
  <2>1. CASE Retain(t)
    BY <2>1 DEF Retain, Opened
  <2>2. CASE Release(t)
    <3>1. \A u \in Tab : /\ u # t => holders'[u] = holders[u] /\ releaseTimer'[u] = releaseTimer[u]
                         /\ es'[u] = es[u] /\ link'[u] = link[u]
                         /\ reconnectTimer'[u] = reconnectTimer[u]
      BY <2>2 DEF Release
    <3>2. holders[t] \in Nat /\ holders[t] > 0 /\ holders'[t] = holders[t] - 1
      BY <2>2 DEF Release
    <3>3. holders[t] = 1 => releaseTimer'[t]
      BY <2>2 DEF Release
    <3>4. HeldTabTries'
      BY <3>1, <3>2
    <3>5. ReleasedTabRests'
      BY <3>1, <3>2, <3>3
    <3> QED
      BY <3>4, <3>5
  <2>3. CASE ReleaseFires(t)
    BY <2>3 DEF ReleaseFires
  <2>4. CASE ReconnectFires(t)
    BY <2>4 DEF ReconnectFires, Opened
  <2>5. CASE Unload(t)
    BY <2>5 DEF Unload
  <2>6. CASE SendRequest(t)
    BY <2>6, NoneAssumption DEF SendRequest
  <2>7. CASE SeesOpen(t)
    BY <2>7 DEF SeesOpen
  <2>8. CASE SeesEnd(t)
    BY <2>8 DEF SeesEnd, Reconnecting
  <2>9. CASE Break(t)
    BY <2>9 DEF Break, Reconnecting
  <2>10. CASE Refuse(t)
    BY <2>10 DEF Refuse
  <2> QED
    BY <1>1, <2>1, <2>2, <2>3, <2>4, <2>5, <2>6, <2>7, <2>8, <2>9, <2>10 DEF TabStep
<1>2. CASE UNCHANGED tabVars
  BY <1>2 DEF tabVars
<1> QED
  BY <1>1, <1>2 DEF Next, vars, ServerStep, Subscribe, NoticeClose, Abandon, Restart

LEMMA TabAlways == Spec => [](TypeOK /\ TabInv)
<1>1. Init => TabInv
  BY DEF Init, TabInv, HeldTabTries, ReleasedTabRests
<1> QED
  BY <1>1, TabInvNext, TypeInit, TypeNext, PTL DEF Spec

\* HeldTabTries: no tab that wants events is left without a source or a timer.
THEOREM NoHeldTabIsSilent == Spec => []HeldTabTries
BY TabAlways, PTL DEF TabInv

\* ReleasedTabRests: no released tab reopens its stream.
THEOREM NoReleasedTabReopens == Spec => []ReleasedTabRests
BY TabAlways, PTL DEF TabInv


-----------------------------------------------------------------------------
(* LiveStreams implements StreamPool.                                      *)

PoolStep == Pool!Next \/ UNCHANGED Pool!pool

LEMMA SameCardinality == \A S : Pool!Cardinality(S) = Cardinality(S)
  BY Zenon DEF Pool!Cardinality, Cardinality

\* Ages are ranks: there are Cap streams exactly when one has the age Cap - 1,
\* and that one was opened before all others.
LEMMA FullMeansOldest ==
    ASSUME TypeOK, ServerInv
    PROVE  /\ \A o \in Live : age[o] + 1 >= Cap =>
                 /\ Cardinality(Live) = Cap
                 /\ Pool!Oldest(o)
                 /\ \A d \in Live \ {o} : age[d] + 1 < Cap
           /\ (\A d \in Live : age[d] + 1 < Cap) => Cardinality(Live) < Cap
<1> DEFINE Rank == [c \in Live |-> age[c]]
<1>1. /\ \A c \in Live : age[c] \in 0..(Cap - 1)
      /\ \A c, d \in Live : age[c] = age[d] => c = d
  BY CapAssumption DEF ServerInv, AgesAreRanks, TypeOK, Live
<1>2. /\ IsFiniteSet(0..(Cap - 1)) /\ Cardinality(0..(Cap - 1)) = Cap
      /\ IsFiniteSet(0..(Cap - 2)) /\ Cardinality(0..(Cap - 2)) = Cap - 1
  BY FS_Interval, CapAssumption
<1>3. Rank \in Injection(Live, 0..(Cap - 1))
  <2>1. Rank \in [Live -> 0..(Cap - 1)] /\ \A c, d \in Live : Rank[c] = Rank[d] => c = d
    BY <1>1
  <2> HIDE DEF Rank
  <2> QED
    BY <2>1 DEF Injection, IsInjective
<1>4. IsFiniteSet(Live) /\ Cardinality(Live) <= Cap
  <2> HIDE DEF Rank
  <2> QED
    BY <1>2, <1>3, FS_Injection
<1>5. ASSUME NEW o \in Live, age[o] + 1 >= Cap
      PROVE  /\ Cardinality(Live) = Cap
             /\ Pool!Oldest(o)
             /\ \A d \in Live \ {o} : age[d] + 1 < Cap
  <2>1. age[o] = Cap - 1
    BY <1>1, <1>5, CapAssumption
  <2>2. \A d \in Live \ {o} : age[d] < age[o] /\ age[d] + 1 < Cap
    <3> SUFFICES ASSUME NEW d \in Live \ {o} PROVE age[d] < age[o] /\ age[d] + 1 < Cap
      OBVIOUS
    <3>1. age[d] \in 0..(Cap - 1) /\ age[d] # age[o]
      BY <1>1
    <3> QED
      BY <2>1, <3>1, CapAssumption
  <2>3. Pool!Oldest(o)
    BY <2>2, <1>1, <1>5 DEF Pool!Oldest, Earlier
  <2>4. \A k \in 0..(Cap - 1) : \E d \in Live : age[d] = k
    <3> SUFFICES ASSUME NEW k \in 0..(Cap - 1) PROVE \E d \in Live : age[d] = k
      OBVIOUS
    <3>1. CASE k = Cap - 1
      BY <2>1, <3>1
    <3>2. CASE k # Cap - 1
      <4>1. k \in Nat /\ k < age[o] /\ o \in Conn /\ request[o] = "live"
        BY <2>1, <3>2, CapAssumption DEF Live
      <4>2. PICK d \in Conn : request[d] = "live" /\ age[d] = k
        BY <4>1 DEF ServerInv, AgesAreRanks
      <4> QED
        BY <4>2 DEF Live
    <3> QED
      BY <3>1, <3>2
  <2> DEFINE Holder == [k \in 0..(Cap - 1) |-> CHOOSE d \in Live : age[d] = k]
  <2>5. /\ Holder \in [0..(Cap - 1) -> Live]
        /\ \A k \in 0..(Cap - 1) : age[Holder[k]] = k
    BY <2>4
  <2> HIDE DEF Holder
  <2>6. Holder \in Injection(0..(Cap - 1), Live)
    <3>1. \A k, l \in 0..(Cap - 1) : Holder[k] = Holder[l] => k = l
      BY <2>5
    <3> QED
      BY <2>5, <3>1 DEF Injection, IsInjective
  <2>7. Cap <= Cardinality(Live)
    BY <1>2, <1>4, <2>6, FS_Injection
  <2>8. Cardinality(Live) \in Nat
    BY <1>4, FS_CardinalityType
  <2>9. Cardinality(Live) = Cap
    BY <1>4, <2>7, <2>8, CapAssumption
  <2> QED
    BY <2>2, <2>3, <2>9
<1>6. ASSUME \A d \in Live : age[d] + 1 < Cap
      PROVE  Cardinality(Live) < Cap
  <2>1. \A c \in Live : age[c] \in 0..(Cap - 2)
    BY <1>1, <1>6, CapAssumption
  <2>2. Rank \in Injection(Live, 0..(Cap - 2))
    <3>1. Rank \in [Live -> 0..(Cap - 2)] /\ \A c, d \in Live : Rank[c] = Rank[d] => c = d
      BY <1>1, <2>1
    <3> HIDE DEF Rank
    <3> QED
      BY <3>1 DEF Injection, IsInjective
  <2>3. Cardinality(Live) <= Cap - 1
    <3> HIDE DEF Rank
    <3> QED
      BY <1>2, <2>2, FS_Injection
  <2> QED
    BY <1>4, <2>3, FS_CardinalityType, CapAssumption
<1> QED
  BY <1>5, <1>6

\* What is emitted goes to the live streams.
LEMMA HeardIsLive == ServerInv => Heard = Live
<1> SUFFICES ASSUME ServerInv PROVE Heard = Live
  OBVIOUS
<1>1. \A c \in Conn : request[c] = "live" => home[c] = current /\ current # NoSet
  BY NoneAssumption DEF ServerInv, LiveIsHome
<1>2. \A c \in Conn : home[c] # NoSet => request[c] = "live"
  BY DEF ServerInv, LiveIsHome
<1>3. CASE current = NoSet
  BY <1>1, <1>3 DEF Heard, Live
<1>4. CASE current # NoSet
  BY <1>1, <1>2, <1>4 DEF Heard, Live, Members
<1> QED
  BY <1>3, <1>4

LEMMA JoinIsPool ==
    ASSUME TypeOK, ServerInv, NEW c \in Conn, Subscribe(c)
    PROVE  PoolStep
<1> DEFINE kept == {d \in Live : age[d] + 1 < Cap}
<1>1. PICK s \in SetObject : /\ SubscribeInto(c, s)
                             /\ current = s \/ (current = NoSet /\ Members(s) = {})
  BY DEF Subscribe, TypeOK
<1>2. request[c] = "auth" /\ UNCHANGED link
  BY DEF Subscribe, tabVars
<1>3. /\ \A d \in Conn : request'[d] = "live"
                 <=> d = c \/ (request[d] = "live" /\ age[d] + 1 < Cap)
      /\ \A d \in Conn : d # c /\ request'[d] = "live" => age'[d] = age[d] + 1
      /\ age'[c] = 0
  BY <1>1, <1>2, SubscribeKeeps
<1>4. c \notin Live /\ UNCHANGED Wanted
  BY <1>2 DEF Live, Wanted
<1>5. Live' = kept \cup {c}
  BY <1>3 DEF Live
<1>6. Heard' = Live'
  <2>1. ServerInv'
    BY SubscribeKeepsInv
  <2>2. (Heard = Live)'
    BY <2>1, HeardIsLive, PTL
  <2> QED
    BY <2>2
<1>7. \A d \in Conn : age[d] \in Nat
  BY DEF TypeOK
<1>8. Earlier' = (Earlier \cap (kept \X kept)) \cup (kept \X {c})
  <2>1. \A x \in kept : x \in Live /\ x \in Conn /\ x # c /\ age'[x] = age[x] + 1
    BY <1>3, <1>4, <1>5 DEF Live
  <2>2. ASSUME NEW x, NEW y, <<x, y>> \in Earlier'
        PROVE  <<x, y>> \in (Earlier \cap (kept \X kept)) \cup (kept \X {c})
    <3>1. x \in kept \cup {c} /\ y \in kept \cup {c} /\ age'[x] > age'[y]
      BY <1>5, <2>2 DEF Earlier
    <3>2. CASE x = c
      BY <3>1, <3>2, <2>1, <1>3, <1>7
    <3>3. CASE x \in kept /\ y = c
      BY <3>3
    <3>4. CASE x \in kept /\ y \in kept
      BY <3>1, <3>4, <2>1, <1>7 DEF Earlier
    <3> QED
      BY <3>1, <3>2, <3>3, <3>4
  <2>3. ASSUME NEW x, NEW y, <<x, y>> \in (Earlier \cap (kept \X kept)) \cup (kept \X {c})
        PROVE  <<x, y>> \in Earlier'
    <3>1. CASE x \in kept /\ y = c
      BY <3>1, <2>1, <1>3, <1>5, <1>7 DEF Earlier
    <3>2. CASE x \in kept /\ y \in kept /\ age[x] > age[y]
      BY <3>2, <2>1, <1>5, <1>7 DEF Earlier
    <3> QED
      BY <2>3, <3>1, <3>2 DEF Earlier
  <2>4. \A z \in Earlier' : z = <<z[1], z[2]>>
    BY DEF Earlier
  <2>5. \A z \in (Earlier \cap (kept \X kept)) \cup (kept \X {c}) : z = <<z[1], z[2]>>
    OBVIOUS
  <2> HIDE DEF kept
  <2> QED
    BY <2>2, <2>3, <2>4, <2>5
<1>9. Pool!Admit(c, kept)
  BY <1>4, <1>5, <1>6, <1>8 DEF Pool!Admit
<1>10. CASE \A d \in Live : age[d] + 1 < Cap
  <2>1. kept = Live /\ Cardinality(Live) < Cap
    BY <1>10, FullMeansOldest
  <2>2. Pool!Join(c)
    BY <1>4, <1>9, <2>1, SameCardinality DEF Pool!Join
  <2> QED
    BY <2>2 DEF PoolStep, Pool!Next
<1>11. CASE \E o \in Live : ~(age[o] + 1 < Cap)
  <2>1. PICK o \in Live : age[o] + 1 >= Cap
    BY <1>7, <1>11, CapAssumption DEF Live
  <2>2. /\ Cardinality(Live) = Cap /\ Pool!Oldest(o)
        /\ \A d \in Live \ {o} : age[d] + 1 < Cap
    BY <2>1, FullMeansOldest
  <2>3. kept = Live \ {o}
    BY <1>7, <2>1, <2>2, CapAssumption DEF Live
  <2>4. Pool!Join(c)
    BY <1>4, <1>9, <2>2, <2>3, SameCardinality DEF Pool!Join
  <2> QED
    BY <2>4 DEF PoolStep, Pool!Next
<1> QED
  BY <1>10, <1>11

LEMMA DropIsPool ==
    ASSUME TypeOK, ServerInv, NEW c \in Conn, NoticeClose(c)
    PROVE  PoolStep
<1> USE DEF TypeOK
<1>1. request[c] = "live" /\ UNCHANGED link
  BY DEF NoticeClose, tabVars
<1>2. c \in Live \ Wanted /\ UNCHANGED Wanted
  BY <1>1 DEF NoticeClose, Live, Wanted
<1>3. Live' = Live \ {c}
  BY DEF NoticeClose, Finalize, Live
<1>4. Heard' = Live'
  <2>1. ServerInv'
    BY NoticeKeepsInv
  <2>2. (Heard = Live)'
    BY <2>1, HeardIsLive, PTL
  <2> QED
    BY <2>2
<1>5. \A d \in Live' :
          /\ d \in Conn /\ age[d] \in Nat /\ age[d] # age[c]
          /\ age'[d] = IF age[d] > age[c] THEN age[d] - 1 ELSE age[d]
  <2> SUFFICES ASSUME NEW d \in Live'
               PROVE  /\ d \in Conn /\ age[d] \in Nat /\ age[d] # age[c]
                      /\ age'[d] = IF age[d] > age[c] THEN age[d] - 1 ELSE age[d]
    OBVIOUS
  <2>1. d \in Conn /\ d # c /\ request[d] = "live"
    BY <1>3 DEF Live
  <2>2. home[d] = home[c] /\ age[d] # age[c]
    BY <1>1, <2>1 DEF ServerInv, LiveIsHome, AgesAreRanks
  <2> QED
    BY <2>1, <2>2 DEF NoticeClose, Finalize
<1>6. age[c] \in Nat
  OBVIOUS
<1>7. \A x, y \in Live' : age'[x] > age'[y] <=> age[x] > age[y]
  BY <1>5, <1>6
<1>8. Earlier' = Earlier \cap (Live' \X Live')
  <2>1. Live' \subseteq Live
    BY <1>3
  <2>2. Earlier' = {x \in Live' \X Live' : age'[x[1]] > age'[x[2]]}
    BY DEF Earlier
  <2>3. \A x \in Live' \X Live' : age'[x[1]] > age'[x[2]] <=> age[x[1]] > age[x[2]]
    BY <1>7
  <2>4. \A x \in Live' \X Live' : x \in Live \X Live
    BY <2>1
  <2> QED
    BY <2>2, <2>3, <2>4 DEF Earlier
<1>9. Pool!Drop(c)
  BY <1>2, <1>3, <1>4, <1>8 DEF Pool!Drop
<1> QED
  BY <1>9 DEF PoolStep, Pool!Next

\* Nothing else but a restart touches an open stream.
LEMMA HeedIsPool ==
    ASSUME TypeOK, ServerInv, UNCHANGED <<home, age, current>>,
           \A c \in Conn : request'[c] = "live" <=> request[c] = "live",
           \A t \in Tab : link'[t] = link[t] \/ link'[t] = NoConn
                          \/ (link'[t] \in Conn /\ request[link'[t]] # "live")
    PROVE  PoolStep
<1>1. Live' = Live /\ Earlier' = Earlier
  BY DEF Live, Earlier
<1>2. Heard' = Heard
  BY DEF Heard, Members
<1>3. Wanted' \subseteq Wanted \cup (Conn \ Live)
  BY NoneAssumption DEF Wanted, Live
<1>4. Pool!Heed
  BY <1>1, <1>2, <1>3 DEF Pool!Heed
<1> QED
  BY <1>4 DEF PoolStep, Pool!Next

LEMMA PoolNext == TypeOK /\ ServerInv /\ [Next]_vars => [Pool!Next]_(Pool!pool)
<1> SUFFICES ASSUME TypeOK, ServerInv, [Next]_vars PROVE PoolStep
  BY DEF PoolStep
<1>1. ASSUME NEW t \in Tab, TabStep(t) PROVE PoolStep
  <2>1. CASE SendRequest(t)
    <3>1. PICK c \in Conn : /\ Forgotten(c)
                            /\ link' = [link EXCEPT ![t] = c]
                            /\ request' = [request EXCEPT ![c] = "auth"]
      BY <2>1 DEF SendRequest
    <3> QED
      BY <2>1, <3>1, HeedIsPool DEF SendRequest, Forgotten, TypeOK
  <2>2. CASE Refuse(t)
    <3>1. PICK c \in Conn : c = link[t] /\ request[c] = "auth"
      BY <2>2 DEF Refuse, TypeOK
    <3>2. /\ request' = [request EXCEPT ![c] = "free"]
          /\ link' = [link EXCEPT ![t] = NoConn]
          /\ UNCHANGED <<home, age, current>>
      BY <2>2, <3>1 DEF Refuse
    <3> QED
      BY <3>1, <3>2, HeedIsPool DEF TypeOK
  <2>3. CASE UNCHANGED serverVars /\ (UNCHANGED link \/ link' = [link EXCEPT ![t] = NoConn])
    BY <2>3, HeedIsPool DEF serverVars, TypeOK
  <2> QED
    BY <1>1, <2>1, <2>2, <2>3
       DEF TabStep, Retain, Release, ReleaseFires, ReconnectFires, Unload, SeesOpen,
           SeesEnd, Break, Reconnecting
<1>2. ASSUME NEW c \in Conn, ServerStep(c) PROVE PoolStep
  <2>1. CASE Abandon(c)
    BY <2>1, HeedIsPool DEF Abandon, TypeOK, tabVars
  <2> QED
    BY <1>2, <2>1, JoinIsPool, DropIsPool DEF ServerStep
<1>3. CASE Restart
  <2>1. Live' = {} /\ Heard' = {} /\ Earlier' = {} /\ UNCHANGED Wanted
    BY <1>3 DEF Restart, Live, Heard, Earlier, Wanted, tabVars
  <2>2. Pool!Stop
    BY <2>1 DEF Pool!Stop
  <2> QED
    BY <2>2 DEF PoolStep, Pool!Next
<1>4. CASE UNCHANGED vars
  BY <1>4, HeedIsPool DEF vars, serverVars, tabVars
<1> QED
  BY <1>1, <1>2, <1>3, <1>4 DEF Next

\* Whatever order evictions, finalizers, restarts and reconnections come in,
\* emit() reaches every stream, and subscribe() ends none but the oldest of
\* Cap: the streams of a user are StreamPool's, for every Cap of at least two.
THEOREM PoolIsImplemented == Spec => ImplementsPool
<1>1. Init => Pool!Init
  BY NoneAssumption DEF Init, Pool!Init, Live, Heard, Wanted, Earlier
<1> QED
  BY <1>1, ServerAlways, PoolNext, PTL DEF Spec, ImplementsPool, Pool!Spec
=============================================================================
