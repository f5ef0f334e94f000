--------------------------- MODULE AudioCache_proof ---------------------------
(* The audio cache for any number of requests, tracks and entries: its two        *)
(* dictionaries agree and stay within the limit, a track has one flight, its       *)
(* fetches are stored in their order, and what left the cache does not come back.  *)
EXTENDS AudioCache, FiniteSetTheorems, TLAPS

\* A call that leads is the one its track's flight names.
LeadersOK == \A c \in Calls : call[c].pc \in Leading => inflight[call[c].track] = c

\* Fetches are numbered once: two entries never hold the same one.
NumbersOK ==
  /\ \A e \in cache : e.info.fetch <= fetches
  /\ \A e, f \in cache : e.info.fetch = f.info.fetch => e = f
  /\ \A v \in dropped : v <= fetches
  /\ \A k \in Tracks : latest[k] <= fetches

\* What is about to be stored is newer than what was, and was never in the cache.
PutsOK ==
  /\ \A c \in Calls : call[c].pc = "put" =>
       /\ call[c].info \in Infos
       /\ latest[call[c].track] < call[c].info.fetch
       /\ call[c].info.fetch <= fetches
       /\ call[c].info.fetch \notin dropped
       /\ \A e \in cache : e.info.fetch # call[c].info.fetch
  /\ \A c, d \in Calls :
       (call[c].pc = "put" /\ call[d].pc = "put" /\ call[c].info.fetch = call[d].info.fetch)
         => c = d

LimitOK == IsFiniteSet(cache) /\ WithinLimit

\* No entry holds a fetch that left: DroppedStaysOut, entry by entry.
OutOK == \A e \in cache : e.info.fetch \notin dropped

IInv ==
  /\ TypeOK
  /\ LeadersOK
  /\ NumbersOK
  /\ PutsOK
  /\ DictionariesAgree
  /\ LimitOK
  /\ OutOK

CallStates ==
  [pc : Running, track : Tracks, forced : BOOLEAN, info : Infos \union {NoInfo}] \union {Idle}

LEMMA InitInvariant == Init => IInv
<1> SUFFICES ASSUME Init PROVE IInv
  OBVIOUS
<1>1. \A c \in Calls : call[c] = Idle /\ Idle.pc = "idle"
  BY DEF Init, Idle
<1>2. IsFiniteSet(cache) /\ Cardinality(cache) = 0
  BY FS_EmptySet DEF Init
<1> USE <1>1, <1>2, AudioAssumption DEF Init
<1>3. TypeOK
  BY DEF TypeOK
<1>4. LeadersOK /\ PutsOK
  BY DEF LeadersOK, Leading, PutsOK
<1>5. NumbersOK /\ DictionariesAgree /\ OutOK
  BY DEF NumbersOK, DictionariesAgree, OutOK
<1>6. LimitOK
  BY DEF LimitOK, WithinLimit
<1> QED BY <1>3, <1>4, <1>5, <1>6 DEF IInv

-----------------------------------------------------------------------------
(* Steps that move calls and leave the cache alone. *)

\* A call that goes to a place that neither leads nor stores keeps what is known of calls.
LEMMA CallMoves ==
  ASSUME TypeOK, NEW c \in Calls, NEW r \in CallStates,
         call' = [call EXCEPT ![c] = r]
  PROVE  /\ call' \in [Calls -> CallStates]
         /\ call'[c] = r
         /\ \A d \in Calls : d # c => call'[d] = call[d]
  BY DEF TypeOK, CallStates

\* A call that runs has a track.
LEMMA RunningCall ==
  ASSUME TypeOK, NEW c \in Calls, call[c].pc \in Running
  PROVE  /\ call[c].track \in Tracks /\ call[c].forced \in BOOLEAN
         /\ call[c].info \in Infos \union {NoInfo}
         /\ call[c] = [pc |-> call[c].pc, track |-> call[c].track,
                       forced |-> call[c].forced, info |-> call[c].info]
<1>1. call[c] # Idle
  BY DEF Idle, Running, Leading
<1>2. call[c] \in [pc : Running, track : Tracks, forced : BOOLEAN, info : Infos \union {NoInfo}]
  BY <1>1 DEF TypeOK
<1> QED BY <1>2

\* A call that goes on keeps its track and its answer.
LEMMA GotoGoes ==
  ASSUME TypeOK, NEW c \in Calls, call[c].pc \in Running, NEW pc \in Running,
         Goto(c, pc)
  PROVE  /\ call' \in [Calls -> CallStates]
         /\ call'[c].pc = pc /\ call'[c].track = call[c].track /\ call'[c].info = call[c].info
         /\ \A d \in Calls : d # c => call'[d] = call[d]
<1>1. /\ call[c].track \in Tracks /\ call[c].forced \in BOOLEAN
      /\ call[c].info \in Infos \union {NoInfo}
      /\ call[c] = [pc |-> call[c].pc, track |-> call[c].track,
                    forced |-> call[c].forced, info |-> call[c].info]
  BY RunningCall
<1> DEFINE r == [call[c] EXCEPT !.pc = pc]
<1>2. r \in CallStates /\ r.pc = pc /\ r.track = call[c].track /\ r.info = call[c].info
  BY <1>1 DEF CallStates
<1>3. call' = [call EXCEPT ![c] = r]
  BY DEF Goto, Answer, TypeOK
<1> QED BY <1>2, <1>3, CallMoves

\* A call that has an answer keeps its track.
LEMMA AnswerGoes ==
  ASSUME TypeOK, NEW c \in Calls, call[c].pc \in Running, NEW pc \in Running,
         NEW info \in Infos \union {NoInfo}, Answer(c, pc, info)
  PROVE  /\ call' \in [Calls -> CallStates]
         /\ call'[c].pc = pc /\ call'[c].track = call[c].track /\ call'[c].info = info
         /\ \A d \in Calls : d # c => call'[d] = call[d]
<1>1. /\ call[c].track \in Tracks /\ call[c].forced \in BOOLEAN
      /\ call[c].info \in Infos \union {NoInfo}
      /\ call[c] = [pc |-> call[c].pc, track |-> call[c].track,
                    forced |-> call[c].forced, info |-> call[c].info]
  BY RunningCall
<1> DEFINE r == [call[c] EXCEPT !.pc = pc, !.info = info]
<1>2. r \in CallStates /\ r.pc = pc /\ r.track = call[c].track /\ r.info = info
  BY <1>1 DEF CallStates
<1>3. call' = [call EXCEPT ![c] = r]
  BY DEF Goto, Answer, TypeOK
<1> QED BY <1>2, <1>3, CallMoves

\* A call that ended leads nothing.
LEMMA EndGoes ==
  ASSUME TypeOK, NEW c \in Calls, End(c)
  PROVE  /\ call' \in [Calls -> CallStates] /\ call'[c].pc = "idle"
         /\ \A d \in Calls : d # c => call'[d] = call[d]
<1>1. Idle \in CallStates /\ Idle.pc = "idle"
  BY DEF CallStates, Idle
<1> QED BY <1>1, CallMoves DEF End

\* While the cache and its history rest, what is known of them rests.
LEMMA CacheRests ==
  ASSUME IInv, UNCHANGED <<cacheVars, history>>, fetches' \in Nat, fetches <= fetches'
  PROVE  DictionariesAgree' /\ LimitOK' /\ OutOK' /\ NumbersOK'
<1> USE DEF cacheVars, history, IInv
<1>1. DictionariesAgree' /\ LimitOK' /\ OutOK'
  BY DEF DictionariesAgree, LimitOK, WithinLimit, OutOK
<1>2. NumbersOK'
  BY DEF NumbersOK, TypeOK, Entries, Infos
<1> QED BY <1>1, <1>2

\* Forgetting entries keeps what is known of the cache.
LEMMA ForgetKeeps ==
  ASSUME IInv, NEW entries \in SUBSET cache, Forget(entries), UNCHANGED fetches
  PROVE  /\ DictionariesAgree' /\ LimitOK' /\ OutOK' /\ NumbersOK'
         /\ cache' \subseteq cache /\ latest' = latest
         /\ aliases' \in [Tracks -> Identities \union {None}] /\ dropped' \subseteq Nat
         /\ \A v \in dropped' : v \in dropped \/ \E e \in cache : e.info.fetch = v
<1> USE DEF IInv
<1>1. cache' = cache \ entries /\ latest' = latest /\ dropped' = dropped \union FetchesOf(entries)
  BY DEF Forget
<1>2. \A k \in Tracks : aliases'[k] = IF Held(k) \intersect entries # {} THEN None ELSE aliases[k]
  BY DEF Forget
<1>3. aliases' \in [Tracks -> Identities \union {None}]
  BY DEF Forget, TypeOK
<1>4. \A v \in FetchesOf(entries) : \E e \in entries : e.info.fetch = v
  BY DEF FetchesOf
<1>5. \A e \in cache : e \in Entries /\ e.track \in Tracks /\ e.info.fetch \in Nat
                       /\ e.info.identity \in Identities
  BY DEF TypeOK, Entries, Infos
<1>6. DictionariesAgree'
  <2>1. ASSUME NEW k \in Tracks, aliases'[k] # None
        PROVE  \E e \in cache' : e.track = k /\ e.info.identity = aliases'[k]
    <3>1. aliases'[k] = aliases[k] /\ Held(k) \intersect entries = {}
      BY <2>1, <1>2
    <3>2. PICK e \in cache : e.track = k /\ e.info.identity = aliases[k]
      BY <3>1, <2>1 DEF DictionariesAgree
    <3>3. e \in Held(k)
      BY <3>2 DEF Held
    <3> QED BY <3>1, <3>2, <3>3, <1>1
  <2>2. ASSUME NEW e \in cache' PROVE e.info.identity = aliases'[e.track]
    <3>1. e \in cache /\ e \notin entries /\ e.info.identity = aliases[e.track]
      BY <1>1 DEF DictionariesAgree
    <3>2. \A f \in Held(e.track) : f = e
      BY <3>1 DEF Held, DictionariesAgree
    <3> QED BY <3>1, <3>2, <1>2, <1>5
  <2>3. \A e, f \in cache' : e.track = f.track => e = f
    BY <1>1 DEF DictionariesAgree
  <2> QED BY <2>1, <2>2, <2>3 DEF DictionariesAgree
<1>7. LimitOK'
  <2>1. IsFiniteSet(cache') /\ Cardinality(cache') <= Cardinality(cache)
    BY <1>1, FS_Subset DEF LimitOK
  <2>2. Cardinality(cache') \in Nat /\ Cardinality(cache) \in Nat
    BY <2>1, FS_CardinalityType DEF LimitOK
  <2> QED BY <2>1, <2>2, AudioAssumption DEF LimitOK, WithinLimit
<1>8. OutOK'
  BY <1>1, <1>4 DEF OutOK, NumbersOK
<1>9. NumbersOK'
  BY <1>1, <1>4, <1>5 DEF NumbersOK
<1>10. dropped' \subseteq Nat
  BY <1>1, <1>4, <1>5 DEF TypeOK
<1> QED BY <1>1, <1>3, <1>4, <1>6, <1>7, <1>8, <1>9, <1>10

\* A call that begins to lead nothing leaves the flights with their leaders.
LEMMA LeadersKeep ==
  ASSUME IInv, NEW c \in Calls, inflight' = inflight,
         \A d \in Calls : d # c => call'[d] = call[d],
         call'[c].pc \in Leading =>
           call[c].pc \in Leading /\ call'[c].track = call[c].track
  PROVE  LeadersOK'
  BY DEF IInv, LeadersOK

\* What is about to be stored stays new while nothing is stored.
LEMMA PutsKeep ==
  ASSUME IInv, NEW c \in Calls, call'[c].pc # "put",
         \A d \in Calls : d # c => call'[d] = call[d],
         latest' = latest, cache' \subseteq cache, fetches' \in Nat, fetches <= fetches',
         \A v \in dropped' : v \in dropped \/ \E e \in cache : e.info.fetch = v
  PROVE  PutsOK'
<1>1. ASSUME NEW d \in Calls, call'[d].pc = "put"
      PROVE  /\ call'[d] = call[d] /\ call[d].pc = "put" /\ call[d].info \in Infos
             /\ latest[call[d].track] < call[d].info.fetch
             /\ call[d].info.fetch <= fetches
             /\ call[d].info.fetch \notin dropped
             /\ \A e \in cache : e.info.fetch # call[d].info.fetch
  BY <1>1 DEF IInv, PutsOK
<1>2. ASSUME NEW d \in Calls, call'[d].pc = "put"
      PROVE  /\ call'[d].info \in Infos
             /\ latest'[call'[d].track] < call'[d].info.fetch
             /\ call'[d].info.fetch <= fetches'
             /\ call'[d].info.fetch \notin dropped'
             /\ \A e \in cache' : e.info.fetch # call'[d].info.fetch
  BY <1>1, <1>2 DEF IInv, TypeOK, Infos
<1>3. ASSUME NEW d \in Calls, NEW f \in Calls, call'[d].pc = "put", call'[f].pc = "put",
             call'[d].info.fetch = call'[f].info.fetch
      PROVE  d = f
  BY <1>1, <1>3 DEF IInv, PutsOK
<1> QED BY <1>2, <1>3 DEF PutsOK

\* Nothing but the calls, the flights and the upstream changes.
LEMMA TypeRests ==
  ASSUME IInv, call' \in [Calls -> CallStates], inflight' \in [Tracks -> Calls \union {None}],
         UNCHANGED <<cacheVars, history>>, fetches' \in Nat, dead' \subseteq Nat, now' \in Nat
  PROVE  TypeOK'
  BY DEF IInv, TypeOK, CallStates, cacheVars, history

\* One call goes on, and stores nothing.
LEMMA MoveStep ==
  ASSUME IInv, NEW c \in Calls, call' \in [Calls -> CallStates],
         \A d \in Calls : d # c => call'[d] = call[d], call'[c].pc # "put",
         call'[c].pc \in Leading =>
           call[c].pc \in Leading /\ call'[c].track = call[c].track,
         UNCHANGED <<cacheVars, inflight, fetches, dead, now, history>>
  PROVE  IInv'
<1>1. /\ fetches' \in Nat /\ fetches <= fetches' /\ dead' \subseteq Nat /\ now' \in Nat
      /\ inflight' \in [Tracks -> Calls \union {None}]
      /\ inflight' = inflight /\ latest' = latest /\ cache' = cache /\ dropped' = dropped
  BY DEF IInv, TypeOK, cacheVars, history
<1>2. DictionariesAgree' /\ LimitOK' /\ OutOK' /\ NumbersOK'
  BY <1>1, CacheRests
<1>3. TypeOK'
  BY <1>1, TypeRests
<1>4. LeadersOK' /\ PutsOK'
  BY <1>1, LeadersKeep, PutsKeep
<1> QED BY <1>2, <1>3, <1>4 DEF IInv

\* _get_cached: a call that leads goes on leading, another leads nothing.
LEMMA CachedStep ==
  ASSUME IInv, NEW c \in Calls, call[c].pc \in Running, NEW hit \in Running \ {"put"},
         NEW miss \in Running \ {"put"}, GetCached(c, hit, miss),
         call[c].pc \in Leading \/ (hit \notin Leading /\ miss \notin Leading),
         UNCHANGED <<inflight, fetches, dead, now>>
  PROVE  IInv'
<1>0. TypeOK
  BY DEF IInv
<1>1. CASE \E e \in Held(call[c].track) :
             Live(e) /\ Answer(c, hit, e.info) /\ UNCHANGED <<cacheVars, history>>
  <2>1. PICK e \in Held(call[c].track) :
          Answer(c, hit, e.info) /\ UNCHANGED <<cacheVars, history>>
    BY <1>1
  <2>2. e.info \in Infos \union {NoInfo}
    BY <1>0 DEF Held, TypeOK, Entries
  <2>3. /\ call' \in [Calls -> CallStates]
        /\ call'[c].pc = hit /\ call'[c].track = call[c].track
        /\ \A d \in Calls : d # c => call'[d] = call[d]
    BY <1>0, <2>1, <2>2, AnswerGoes
  <2> QED BY <2>1, <2>3, MoveStep
<1>2. CASE Goto(c, miss) /\ Forget(Held(call[c].track))
  <2>1. /\ call' \in [Calls -> CallStates]
        /\ call'[c].pc = miss /\ call'[c].track = call[c].track
        /\ \A d \in Calls : d # c => call'[d] = call[d]
    BY <1>0, <1>2, GotoGoes
  <2>2. Held(call[c].track) \in SUBSET cache
    BY DEF Held
  <2>3. /\ DictionariesAgree' /\ LimitOK' /\ OutOK' /\ NumbersOK'
        /\ cache' \subseteq cache /\ latest' = latest
        /\ aliases' \in [Tracks -> Identities \union {None}] /\ dropped' \subseteq Nat
        /\ \A v \in dropped' : v \in dropped \/ \E e \in cache : e.info.fetch = v
    BY <1>2, <2>2, ForgetKeeps
  <2>4. fetches' \in Nat /\ fetches <= fetches' /\ inflight' = inflight
    BY <1>0 DEF TypeOK
  <2>5. LeadersOK' /\ PutsOK'
    BY <2>1, <2>3, <2>4, LeadersKeep, PutsKeep
  <2>6. TypeOK'
    BY <1>0, <2>1, <2>3 DEF TypeOK, CallStates
  <2> QED BY <2>3, <2>5, <2>6 DEF IInv
<1> QED BY <1>1, <1>2 DEF GetCached

-----------------------------------------------------------------------------
(* One lemma per action. *)

LEMMA RequestStep ==
  ASSUME IInv, NEW c \in Calls, NEW k \in Tracks, Request(c, k)
  PROVE  IInv'
<1> DEFINE r == [Idle EXCEPT !.pc = "lookup", !.track = k]
<1>1. r \in CallStates /\ r.pc = "lookup" /\ call' = [call EXCEPT ![c] = r]
  BY DEF CallStates, Idle, Running, Request
<1>2. "lookup" \notin Leading
  BY DEF Leading
<1>3. UNCHANGED <<cacheVars, inflight, fetches, dead, now, history>>
  BY DEF Request
<1>4. /\ call' \in [Calls -> CallStates] /\ call'[c].pc = "lookup"
      /\ \A d \in Calls : d # c => call'[d] = call[d]
  BY <1>1, CallMoves DEF IInv
<1> QED BY <1>2, <1>3, <1>4, MoveStep

LEMMA LookupStep ==
  ASSUME IInv, NEW c \in Calls, Lookup(c)
  PROVE  IInv'
  BY CachedStep DEF Lookup, Running, Leading

LEMMA RecheckStep ==
  ASSUME IInv, NEW c \in Calls, Recheck(c)
  PROVE  IInv'
  BY CachedStep DEF Recheck, Running, Leading

\* A call takes the lead of a flight nobody leads: it leads for its track alone.
LEMMA EnterStep ==
  ASSUME IInv, NEW c \in Calls, Enter(c)
  PROVE  IInv'
<1>0. TypeOK
  BY DEF IInv
<1> DEFINE k == call[c].track
<1>1. call[c].pc = "enter" /\ call[c].pc \in Running
  BY DEF Enter, Running
<1>2. k \in Tracks
  BY <1>0, <1>1, RunningCall
<1>3. UNCHANGED <<cacheVars, fetches, dead, now, history>>
  BY DEF Enter
<1>4. CASE Goto(c, "wait") /\ UNCHANGED inflight
  <2>1. "wait" \in Running \ {"put"} /\ "wait" \notin Leading
    BY DEF Running, Leading
  <2>2. /\ call' \in [Calls -> CallStates] /\ call'[c].pc = "wait"
        /\ \A d \in Calls : d # c => call'[d] = call[d]
    BY <1>0, <1>1, <1>4, <2>1, GotoGoes
  <2> QED BY <1>3, <1>4, <2>1, <2>2, MoveStep
<1>5. CASE /\ inflight[k] = None
           /\ inflight' = [inflight EXCEPT ![k] = c]
           /\ Goto(c, IF call[c].forced THEN "fetch" ELSE "recheck")
  <2>1. PICK pc \in {"fetch", "recheck"} : Goto(c, pc)
    BY <1>5
  <2>2. pc \in Running /\ pc # "put"
    BY DEF Running, Leading
  <2>3. /\ call' \in [Calls -> CallStates] /\ call'[c].pc = pc /\ call'[c].track = k
        /\ \A d \in Calls : d # c => call'[d] = call[d]
    BY <1>0, <1>1, <2>1, <2>2, GotoGoes
  <2>4. /\ fetches' \in Nat /\ fetches <= fetches' /\ latest' = latest /\ cache' = cache
        /\ dropped' = dropped /\ dead' \subseteq Nat /\ now' \in Nat
    BY <1>0, <1>3 DEF TypeOK, cacheVars, history
  <2>5. inflight' \in [Tracks -> Calls \union {None}] /\ inflight'[k] = c
    BY <1>0, <1>2, <1>5 DEF TypeOK
  <2>6. LeadersOK'
    <3> SUFFICES ASSUME NEW d \in Calls, call'[d].pc \in Leading
                 PROVE  inflight'[call'[d].track] = d
      BY DEF LeadersOK
    <3>1. CASE d = c
      BY <3>1, <2>3, <2>5
    <3>2. CASE d # c
      <4>1. call[d].pc \in Leading /\ call'[d] = call[d] /\ inflight[call[d].track] = d
        BY <3>2, <2>3 DEF IInv, LeadersOK
      <4>2. call[d].track \in Tracks
        BY <1>0, <4>1, RunningCall DEF Running
      <4>3. d # None
        BY AudioAssumption
      <4> QED BY <1>0, <1>5, <4>1, <4>2, <4>3 DEF TypeOK
    <3> QED BY <3>1, <3>2
  <2>7. DictionariesAgree' /\ LimitOK' /\ OutOK' /\ NumbersOK'
    BY <1>3, <2>4, CacheRests
  <2>8. PutsOK'
    BY <2>2, <2>3, <2>4, PutsKeep
  <2>9. TypeOK'
    BY <1>3, <2>3, <2>4, <2>5, TypeRests
  <2> QED BY <2>6, <2>7, <2>8, <2>9 DEF IInv
<1> QED BY <1>4, <1>5 DEF Enter

\* A fetch is numbered above every fetch before it.
LEMMA FetchedStep ==
  ASSUME IInv, NEW c \in Calls, Fetched(c)
  PROVE  IInv'
<1>0. TypeOK
  BY DEF IInv
<1>1. /\ call[c].pc = "fetch" /\ call[c].pc \in Running /\ call[c].pc \in Leading
      /\ "put" \in Running
  BY DEF Fetched, Running, Leading
<1>2. PICK i \in Identities : Answer(c, "put", [fetch |-> fetches + 1, identity |-> i])
  BY DEF Fetched
<1> DEFINE info == [fetch |-> fetches + 1, identity |-> i]
<1>3. info \in Infos /\ info \in Infos \union {NoInfo}
  BY <1>0 DEF Infos, TypeOK
<1>4. /\ call' \in [Calls -> CallStates] /\ call'[c].pc = "put"
      /\ call'[c].track = call[c].track /\ call'[c].info = info
      /\ \A d \in Calls : d # c => call'[d] = call[d]
  BY <1>0, <1>1, <1>2, <1>3, AnswerGoes
<1>5. UNCHANGED <<cacheVars, inflight, dead, now, history>> /\ fetches' = fetches + 1
  BY DEF Fetched
<1>6. /\ fetches' \in Nat /\ fetches <= fetches' /\ latest' = latest /\ cache' = cache
      /\ dropped' = dropped /\ inflight' = inflight /\ fetches \in Nat
      /\ dead' \subseteq Nat /\ now' \in Nat /\ inflight' \in [Tracks -> Calls \union {None}]
  BY <1>0, <1>5 DEF TypeOK, cacheVars, history
<1>7. DictionariesAgree' /\ LimitOK' /\ OutOK' /\ NumbersOK'
  BY <1>5, <1>6, CacheRests
<1>8. TypeOK'
  BY <1>4, <1>5, <1>6, TypeRests
<1>9. LeadersOK'
  BY <1>1, <1>4, <1>6, LeadersKeep
<1>10. PutsOK'
  <2>1. call[c].track \in Tracks
    BY <1>0, <1>1, RunningCall
  <2>2. /\ latest'[call'[c].track] < call'[c].info.fetch /\ call'[c].info.fetch <= fetches'
        /\ call'[c].info.fetch = fetches + 1
    BY <1>0, <1>4, <1>5, <1>6, <2>1 DEF IInv, NumbersOK, TypeOK
  <2>3. call'[c].info.fetch \notin dropped'
    BY <1>0, <1>6, <2>2 DEF IInv, NumbersOK, TypeOK
  <2>4. \A e \in cache' : e.info.fetch # call'[c].info.fetch
    BY <1>0, <1>6, <2>2 DEF IInv, NumbersOK, TypeOK, Entries, Infos
  <2>5. ASSUME NEW d \in Calls, d # c, call'[d].pc = "put"
        PROVE  /\ call'[d].info \in Infos
               /\ latest'[call'[d].track] < call'[d].info.fetch
               /\ call'[d].info.fetch <= fetches'
               /\ call'[d].info.fetch \notin dropped'
               /\ \A e \in cache' : e.info.fetch # call'[d].info.fetch
               /\ call'[d].info.fetch # fetches + 1
    <3>1. call'[d] = call[d] /\ call[d].pc = "put" /\ call[d].info \in Infos
      BY <2>5, <1>4 DEF IInv, PutsOK
    <3>2. call[d].info.fetch <= fetches /\ call[d].info.fetch \in Nat
      BY <3>1 DEF IInv, PutsOK, Infos
    <3> QED BY <3>1, <3>2, <1>5, <1>6 DEF IInv, PutsOK
  <2>6. ASSUME NEW d \in Calls, NEW f \in Calls, call'[d].pc = "put", call'[f].pc = "put",
               call'[d].info.fetch = call'[f].info.fetch
        PROVE  d = f
    BY <1>4, <2>2, <2>5, <2>6 DEF IInv, PutsOK
  <2> QED BY <1>3, <1>4, <2>2, <2>3, <2>4, <2>5, <2>6 DEF PutsOK
<1> QED BY <1>7, <1>8, <1>9, <1>10 DEF IInv

LEMMA FetchFailsStep ==
  ASSUME IInv, NEW c \in Calls, FetchFails(c)
  PROVE  IInv'
<1>1. /\ call[c].pc \in Running /\ call[c].pc \in Leading /\ Goto(c, "fail")
      /\ "fail" \in Running /\ UNCHANGED <<cacheVars, inflight, fetches, dead, now, history>>
  BY DEF FetchFails, Running, Leading
<1>2. /\ call' \in [Calls -> CallStates] /\ call'[c].pc = "fail"
      /\ call'[c].track = call[c].track
      /\ \A d \in Calls : d # c => call'[d] = call[d]
  BY <1>1, GotoGoes DEF IInv
<1> QED BY <1>1, <1>2, MoveStep

LEMMA RefusedStep ==
  ASSUME IInv, NEW c \in Calls, Refused(c)
  PROVE  IInv'
<1>1. /\ call[c].pc \in Running /\ Goto(c, "refused")
      /\ "refused" \in Running /\ "refused" \notin Leading
      /\ UNCHANGED <<cacheVars, inflight, fetches, dead, now, history>>
  BY DEF Refused, Running, Leading
<1>2. /\ call' \in [Calls -> CallStates] /\ call'[c].pc = "refused"
      /\ \A d \in Calls : d # c => call'[d] = call[d]
  BY <1>1, GotoGoes DEF IInv
<1> QED BY <1>1, <1>2, MoveStep

LEMMA EndStep ==
  ASSUME IInv, NEW c \in Calls, Opened(c) \/ OpenFails(c)
  PROVE  IInv'
<1>1. End(c) /\ UNCHANGED <<cacheVars, inflight, fetches, dead, now, history>>
  BY DEF Opened, OpenFails
<1>2. /\ call' \in [Calls -> CallStates] /\ call'[c].pc = "idle"
      /\ \A d \in Calls : d # c => call'[d] = call[d]
  BY <1>1, EndGoes DEF IInv
<1>3. "idle" \notin Leading
  BY DEF Leading
<1> QED BY <1>1, <1>2, <1>3, MoveStep

\* The entry that goes may be newer than the one that was refused: it goes all the same.
LEMMA InvalidateStep ==
  ASSUME IInv, NEW c \in Calls, Invalidate(c)
  PROVE  IInv'
<1>0. TypeOK
  BY DEF IInv
<1> DEFINE r == [call[c] EXCEPT !.pc = "enter", !.forced = TRUE]
<1>1. call[c].pc \in Running /\ "enter" \in Running /\ "enter" \notin Leading
  BY DEF Invalidate, Running, Leading
<1>2. r \in CallStates /\ r.pc = "enter"
  <2>1. /\ call[c].track \in Tracks /\ call[c].info \in Infos \union {NoInfo}
        /\ call[c] = [pc |-> call[c].pc, track |-> call[c].track,
                      forced |-> call[c].forced, info |-> call[c].info]
    BY <1>0, <1>1, RunningCall
  <2> QED BY <1>1, <2>1 DEF CallStates
<1>3. call' = [call EXCEPT ![c] = r]
  BY <1>0 DEF Invalidate, TypeOK
<1>4. /\ call' \in [Calls -> CallStates] /\ call'[c].pc = "enter"
      /\ \A d \in Calls : d # c => call'[d] = call[d]
  BY <1>0, <1>2, <1>3, CallMoves
<1>5. /\ Forget(Held(call[c].track)) /\ Held(call[c].track) \in SUBSET cache
      /\ UNCHANGED <<inflight, fetches, dead, now>>
  BY DEF Invalidate, Held
<1>6. /\ DictionariesAgree' /\ LimitOK' /\ OutOK' /\ NumbersOK'
      /\ cache' \subseteq cache /\ latest' = latest
      /\ aliases' \in [Tracks -> Identities \union {None}] /\ dropped' \subseteq Nat
      /\ \A v \in dropped' : v \in dropped \/ \E e \in cache : e.info.fetch = v
  BY <1>5, ForgetKeeps
<1>7. fetches' \in Nat /\ fetches <= fetches' /\ inflight' = inflight
  BY <1>0, <1>5 DEF TypeOK
<1>8. LeadersOK' /\ PutsOK'
  BY <1>1, <1>4, <1>6, <1>7, LeadersKeep, PutsKeep
<1>9. TypeOK'
  BY <1>0, <1>4, <1>5, <1>6 DEF TypeOK, CallStates
<1> QED BY <1>6, <1>8, <1>9 DEF IInv

\* _finish_flight: of the calls of a track, the one that led has done so, and those that
\* waited lead nothing.
LEMMA FinishStep ==
  ASSUME IInv, NEW c \in Calls, Finish(c)
  PROVE  IInv'
<1>0. TypeOK
  BY DEF IInv
<1> DEFINE k == call[c].track
<1>1. /\ call[c].pc \in {"finish", "fail"} /\ call[c].pc \in Running /\ call[c].pc \in Leading
      /\ "open" \in Running /\ "open" \notin Leading /\ "idle" \notin Leading
      /\ "wait" \in Running /\ "put" \in Leading
  BY DEF Finish, Running, Leading
<1>2. k \in Tracks /\ call[c].info \in Infos \union {NoInfo}
  BY <1>0, <1>1, RunningCall
<1>3. /\ inflight' = [inflight EXCEPT ![k] = IF @ = c THEN None ELSE @]
      /\ UNCHANGED <<cacheVars, fetches, dead, now, history>>
  BY DEF Finish
<1>4. ASSUME NEW w \in Calls, w # c, w \notin Waiting(k)
      PROVE  call'[w] = call[w]
  BY <1>4 DEF Finish
<1>5. ASSUME NEW w \in Calls, w = c \/ w \in Waiting(k)
      PROVE  call'[w] \in CallStates /\ call'[w].pc \in {"open", "idle"}
  <2>1. call[w].pc \in Running
    BY <1>1, <1>5 DEF Waiting
  <2>2. /\ call[w].track \in Tracks /\ call[w].forced \in BOOLEAN
        /\ call[w] = [pc |-> call[w].pc, track |-> call[w].track,
                      forced |-> call[w].forced, info |-> call[w].info]
    BY <1>0, <2>1, RunningCall
  <2>3. call'[w] = IF call[c].pc = "fail" THEN Idle
                   ELSE [call[w] EXCEPT !.pc = "open", !.info = call[c].info]
    BY <1>5 DEF Finish
  <2>4. Idle \in CallStates /\ Idle.pc = "idle"
    BY DEF Idle, CallStates
  <2> DEFINE r == [call[w] EXCEPT !.pc = "open", !.info = call[c].info]
  <2>5. r \in CallStates /\ r.pc = "open"
    BY <1>1, <1>2, <2>2 DEF CallStates
  <2> QED BY <2>3, <2>4, <2>5
<1>6. call' \in [Calls -> CallStates]
  <2>1. DOMAIN call' = Calls /\ call' = [w \in Calls |-> call'[w]]
    BY DEF Finish
  <2>2. \A w \in Calls : call'[w] \in CallStates
    BY <1>0, <1>4, <1>5 DEF TypeOK, CallStates
  <2> QED BY <2>1, <2>2
<1>7. /\ fetches' \in Nat /\ fetches' = fetches /\ latest' = latest /\ cache' = cache
      /\ dropped' = dropped /\ dead' \subseteq Nat /\ now' \in Nat /\ fetches <= fetches'
  BY <1>0, <1>3 DEF TypeOK, cacheVars, history
<1>8. inflight' \in [Tracks -> Calls \union {None}]
  BY <1>0, <1>3 DEF TypeOK
<1>9. \A w \in Calls : call'[w].pc \in Leading => w # c /\ call'[w] = call[w]
  BY <1>1, <1>4, <1>5
<1>10. LeadersOK'
  <2> SUFFICES ASSUME NEW w \in Calls, call'[w].pc \in Leading
               PROVE  inflight'[call'[w].track] = w
    BY DEF LeadersOK
  <2>1. w # c /\ call'[w] = call[w] /\ inflight[call[w].track] = w
    BY <1>9 DEF IInv, LeadersOK
  <2>2. call[w].track \in Tracks
    BY <1>0, <2>1, RunningCall DEF Running
  <2> QED BY <1>0, <1>3, <2>1, <2>2 DEF TypeOK
<1>11. PutsOK'
  BY <1>1, <1>7, <1>9 DEF IInv, PutsOK
<1>12. DictionariesAgree' /\ LimitOK' /\ OutOK' /\ NumbersOK'
  BY <1>3, <1>7, CacheRests
<1>13. TypeOK'
  BY <1>3, <1>6, <1>7, <1>8, TypeRests
<1> QED BY <1>10, <1>11, <1>12, <1>13 DEF IInv

\* The upstream refuses one more address, or time passes: nothing that is known of changes.
LEMMA WorldStep ==
  ASSUME IInv, Tick \/ \E v \in 1..MaxFetches : Expire(v)
  PROVE  IInv'
<1>1. /\ UNCHANGED <<cacheVars, inflight, call, fetches, history>>
      /\ dead' \subseteq Nat /\ now' \in Nat
  <2>1. CASE Tick
    BY <2>1 DEF IInv, TypeOK, Tick
  <2>2. ASSUME NEW v \in 1..MaxFetches, Expire(v)
        PROVE  /\ UNCHANGED <<cacheVars, inflight, call, fetches, history>>
               /\ dead' \subseteq Nat /\ now' \in Nat
    BY <2>2, AudioAssumption DEF IInv, TypeOK, Expire
  <2> QED BY <2>1, <2>2
<1>2. /\ fetches' \in Nat /\ fetches <= fetches' /\ call' \in [Calls -> CallStates]
      /\ inflight' \in [Tracks -> Calls \union {None}]
  BY <1>1 DEF IInv, TypeOK, CallStates
<1>3. DictionariesAgree' /\ LimitOK' /\ OutOK' /\ NumbersOK'
  BY <1>1, <1>2, CacheRests
<1>4. TypeOK'
  BY <1>1, <1>2, TypeRests
<1>5. LeadersOK' /\ PutsOK'
  BY <1>1 DEF IInv, LeadersOK, PutsOK, cacheVars, history
<1> QED BY <1>3, <1>4, <1>5 DEF IInv

LEMMA StutterStep ==
  ASSUME IInv, UNCHANGED vars
  PROVE  IInv'
<1>1. UNCHANGED <<cacheVars, inflight, call, fetches, dead, now, history>>
  BY DEF vars
<1>2. /\ fetches' \in Nat /\ fetches <= fetches' /\ call' \in [Calls -> CallStates]
      /\ inflight' \in [Tracks -> Calls \union {None}] /\ dead' \subseteq Nat /\ now' \in Nat
  BY <1>1 DEF IInv, TypeOK, CallStates
<1>3. DictionariesAgree' /\ LimitOK' /\ OutOK' /\ NumbersOK' /\ TypeOK'
  BY <1>1, <1>2, CacheRests, TypeRests
<1>4. LeadersOK' /\ PutsOK'
  BY <1>1 DEF IInv, LeadersOK, PutsOK, cacheVars, history
<1> QED BY <1>3, <1>4 DEF IInv

\* Storing: the new entry is alone in its track, what is pruned goes with its alias, and
\* what stays was never dropped.
LEMMA PutStep ==
  ASSUME IInv, NEW c \in Calls, Put(c)
  PROVE  IInv' /\ latest[call[c].track] <= latest'[call[c].track]
               /\ \A k \in Tracks : k # call[c].track => latest'[k] = latest[k]
<1>0. TypeOK
  BY DEF IInv
<1> DEFINE t == call[c].track
           new == NewEntry(c)
           others == Others(c)
           named == [aliases EXCEPT ![t] = call[c].info.identity]
<1>1. /\ call[c].pc = "put" /\ call[c].pc \in Running /\ call[c].pc \in Leading
      /\ "finish" \in Running /\ Goto(c, "finish") /\ UNCHANGED <<inflight, fetches, dead, now>>
  BY DEF Put, Running, Leading
<1>2. /\ call[c].info \in Infos /\ call[c].info.fetch \in Nat /\ call[c].info.identity \in Identities
      /\ latest[t] < call[c].info.fetch /\ call[c].info.fetch <= fetches
      /\ call[c].info.fetch \notin dropped
      /\ \A e \in cache : e.info.fetch # call[c].info.fetch
  BY <1>1 DEF IInv, PutsOK, Infos
<1>3. t \in Tracks
  BY <1>0, <1>1, RunningCall
<1>4. new \in Entries /\ new.track = t /\ new.info = call[c].info
  BY <1>0, <1>2, <1>3 DEF NewEntry, Entries, TypeOK
<1>5. PICK kept \in Kept(new, others) :
        /\ cache' = kept
        /\ aliases' = [k \in Tracks |->
             IF \E e \in (others \union {new}) \ kept : e.track = k /\ e.info.identity = named[k]
             THEN None ELSE named[k]]
        /\ dropped' = dropped \union FetchesOf((cache \union {new}) \ kept)
  BY DEF Put
<1>6. /\ kept \subseteq others \union {new} /\ others \subseteq cache
      /\ Cardinality(kept) <= MaxEntries
  BY DEF Kept, Others
<1>7. \A e \in cache : e \in Entries /\ e.track \in Tracks /\ e.info.fetch \in Nat
                       /\ e.info.identity \in Identities
  BY <1>0 DEF TypeOK, Entries, Infos
<1>8. \A e \in others : e.track # t
  BY <1>6 DEF Others, IInv, DictionariesAgree
<1>9. latest' = [latest EXCEPT ![t] = call[c].info.fetch]
  BY DEF Put
<1>10. /\ call' \in [Calls -> CallStates] /\ call'[c].pc = "finish" /\ call'[c].track = t
       /\ \A d \in Calls : d # c => call'[d] = call[d]
  BY <1>0, <1>1, GotoGoes
<1>11. /\ \A k \in Tracks : named[k] = IF k = t THEN call[c].info.identity ELSE aliases[k]
       /\ named \in [Tracks -> Identities \union {None}]
  BY <1>0, <1>2 DEF TypeOK
<1>12. \A k \in Tracks : aliases'[k] =
         IF \E e \in (others \union {new}) \ kept : e.track = k /\ e.info.identity = named[k]
         THEN None ELSE named[k]
  BY <1>5
<1>13. DictionariesAgree'
  <2>1. ASSUME NEW k \in Tracks, aliases'[k] # None
        PROVE  \E e \in cache' : e.track = k /\ e.info.identity = aliases'[k]
    <3>1. /\ aliases'[k] = named[k]
          /\ ~\E e \in (others \union {new}) \ kept : e.track = k /\ e.info.identity = named[k]
      BY <2>1, <1>12
    <3>2. CASE k = t
      BY <3>1, <3>2, <1>4, <1>5, <1>11
    <3>3. CASE k # t
      <4>1. PICK e \in cache : e.track = k /\ e.info.identity = aliases[k]
        BY <3>1, <3>3, <2>1, <1>11 DEF IInv, DictionariesAgree
      <4>2. e \in others
        BY <4>1, <3>3 DEF Others
      <4> QED BY <4>1, <4>2, <3>1, <3>3, <1>5, <1>11
    <3> QED BY <3>2, <3>3
  <2>2. ASSUME NEW e \in cache', NEW f \in others \union {new}, e.track = f.track
        PROVE  e = f
    BY <2>2, <1>4, <1>5, <1>6, <1>8 DEF IInv, DictionariesAgree
  <2>3. ASSUME NEW e \in cache' PROVE e.info.identity = aliases'[e.track]
    <3>1. e \in kept /\ e.track \in Tracks
      BY <1>3, <1>4, <1>5, <1>6, <1>7
    <3>2. ~\E f \in (others \union {new}) \ kept : f.track = e.track
      BY <2>2, <3>1
    <3>3. aliases'[e.track] = named[e.track]
      BY <1>12, <3>1, <3>2
    <3>4. e.info.identity = named[e.track]
      BY <3>1, <1>4, <1>6, <1>8, <1>11 DEF IInv, DictionariesAgree
    <3> QED BY <3>3, <3>4
  <2>4. \A e, f \in cache' : e.track = f.track => e = f
    BY <2>2, <1>5, <1>6
  <2> QED BY <2>1, <2>3, <2>4 DEF DictionariesAgree
<1>14. LimitOK'
  <2>1. IsFiniteSet(others \union {new})
    BY <1>6, FS_Subset, FS_AddElement DEF IInv, LimitOK
  <2>2. IsFiniteSet(kept)
    BY <2>1, <1>6, FS_Subset
  <2> QED BY <2>2, <1>5, <1>6 DEF LimitOK, WithinLimit
<1>15. \A v \in FetchesOf((cache \union {new}) \ kept) :
         \E e \in (cache \union {new}) \ kept : e.info.fetch = v
  BY DEF FetchesOf
<1>16. \A e, f \in cache \union {new} : e.info.fetch = f.info.fetch => e = f
  BY <1>2, <1>4 DEF IInv, NumbersOK
<1>24. \A v \in dropped' : v \in dropped \/ \E e \in (cache \union {new}) \ kept : e.info.fetch = v
  BY <1>5, <1>15
<1>17. OutOK'
  <2>1. ASSUME NEW e \in cache' PROVE e.info.fetch \notin dropped'
    <3>1. e \in kept /\ e \in cache \union {new} /\ e.info.fetch \notin dropped
      BY <1>2, <1>4, <1>5, <1>6 DEF IInv, OutOK
    <3> QED BY <3>1, <1>16, <1>24
  <2> QED BY <2>1 DEF OutOK
<1>18. fetches' = fetches /\ fetches \in Nat
  BY <1>0, <1>1 DEF TypeOK
<1>19. NumbersOK'
  <2>1. \A e \in cache \union {new} : e.info.fetch <= fetches'
    BY <1>2, <1>4, <1>18 DEF IInv, NumbersOK
  <2>2. \A v \in dropped' : v <= fetches'
    BY <2>1, <1>18, <1>24 DEF IInv, NumbersOK
  <2>3. \A k \in Tracks : latest'[k] <= fetches'
    BY <1>0, <1>2, <1>9, <1>18 DEF IInv, NumbersOK, TypeOK
  <2> QED BY <2>1, <2>2, <2>3, <1>5, <1>6, <1>16 DEF NumbersOK
<1>20. LeadersOK'
  BY <1>1, <1>10, LeadersKeep
<1>21. PutsOK'
  <2>1. ASSUME NEW d \in Calls, call'[d].pc = "put"
        PROVE  /\ d # c /\ call'[d] = call[d] /\ call[d].pc = "put" /\ call[d].info \in Infos
               /\ call[d].track # t /\ call[d].track \in Tracks
               /\ call[d].info.fetch # call[c].info.fetch
    <3>1. d # c /\ call'[d] = call[d] /\ call[d].pc = "put" /\ "put" \in Leading /\ "put" \in Running
      BY <2>1, <1>10 DEF Running, Leading
    <3>2. call[d].track # t
      BY <3>1, <1>1 DEF IInv, LeadersOK
    <3>3. call[d].track \in Tracks
      BY <3>1, <1>0, RunningCall
    <3> QED BY <3>1, <3>2, <3>3, <1>1 DEF IInv, PutsOK
  <2>2. ASSUME NEW d \in Calls, call'[d].pc = "put"
        PROVE  /\ call'[d].info \in Infos
               /\ latest'[call'[d].track] < call'[d].info.fetch
               /\ call'[d].info.fetch <= fetches'
               /\ call'[d].info.fetch \notin dropped'
               /\ \A e \in cache' : e.info.fetch # call'[d].info.fetch
    <3>1. /\ latest[call[d].track] < call[d].info.fetch /\ call[d].info.fetch <= fetches
          /\ call[d].info.fetch \notin dropped
          /\ \A e \in cache : e.info.fetch # call[d].info.fetch
      BY <2>1, <2>2 DEF IInv, PutsOK
    <3>2. latest'[call[d].track] = latest[call[d].track]
      BY <2>1, <2>2, <1>0, <1>9 DEF TypeOK
    <3>3. \A e \in cache \union {new} : e.info.fetch # call[d].info.fetch
      BY <2>1, <2>2, <3>1, <1>4
    <3>4. call[d].info.fetch \notin dropped'
      BY <3>1, <3>3, <1>24
    <3>5. \A e \in cache' : e \in cache \union {new}
      BY <1>5, <1>6
    <3> QED BY <2>1, <2>2, <3>1, <3>2, <3>3, <3>4, <3>5, <1>18
  <2>3. ASSUME NEW d \in Calls, NEW f \in Calls, call'[d].pc = "put", call'[f].pc = "put",
               call'[d].info.fetch = call'[f].info.fetch
        PROVE  d = f
    BY <2>1, <2>3 DEF IInv, PutsOK
  <2> QED BY <2>2, <2>3 DEF PutsOK
<1>22. TypeOK'
  <2>1. cache' \subseteq Entries
    BY <1>4, <1>5, <1>6, <1>7
  <2>2. aliases' \in [Tracks -> Identities \union {None}]
    BY <1>5, <1>11
  <2>3. latest' \in [Tracks -> Nat]
    BY <1>0, <1>2, <1>9 DEF TypeOK
  <2>4. dropped' \subseteq Nat
    <3>1. \A e \in cache \union {new} : e.info.fetch \in Nat
      BY <1>2, <1>4, <1>7
    <3> QED BY <3>1, <1>0, <1>24 DEF TypeOK
  <2> QED BY <2>1, <2>2, <2>3, <2>4, <1>0, <1>1, <1>10 DEF TypeOK, CallStates
<1>23. latest[t] <= latest'[t] /\ \A k \in Tracks : k # t => latest'[k] = latest[k]
  BY <1>0, <1>2, <1>3, <1>9 DEF TypeOK
<1> QED BY <1>13, <1>14, <1>17, <1>19, <1>20, <1>21, <1>22, <1>23 DEF IInv

-----------------------------------------------------------------------------

LEMMA StepKeeps ==
  ASSUME IInv, NEW c \in Calls, Step(c)
  PROVE  IInv'
  BY LookupStep, EnterStep, RecheckStep, FetchedStep, FetchFailsStep, PutStep, FinishStep,
     EndStep, RefusedStep, InvalidateStep DEF Step

THEOREM Invariance == Spec => []IInv
<1>1. Init => IInv
  BY InitInvariant
<1>2. IInv /\ [Next]_vars => IInv'
  BY RequestStep, StepKeeps, WorldStep, StutterStep DEF Next
<1> QED BY <1>1, <1>2, PTL DEF Spec

\* The cache, the flights and the requests stay well typed.
THEOREM TypeCorrect == Spec => []TypeOK
<1>1. IInv => TypeOK
  BY DEF IInv
<1> QED BY <1>1, Invariance, PTL

\* _cache and _aliases agree after every critical section, and _prune_cache_locked keeps
\* them within max_cache_entries, for any number of tracks and threads and any limit.
THEOREM CacheIsSound == Spec => []CacheKept
<1>1. IInv => CacheKept
  BY DEF IInv, LimitOK, CacheKept
<1> QED BY <1>1, Invariance, PTL

\* get_audio_info: at most one call per track fetches, forced refreshes included.
THEOREM SingleFlight == Spec => []OneFlight
<1>1. IInv => OneFlight
  BY DEF IInv, LeadersOK, OneFlight
<1> QED BY <1>1, Invariance, PTL

-----------------------------------------------------------------------------
(* Nobody waits in vain. *)

\* A flight is led by a call of its track that leads: LeadersOK, read from the flight.
FlightsHeld ==
  \A k \in Tracks : inflight[k] # None =>
    call[inflight[k]].track = k /\ call[inflight[k]].pc \in Leading

\* A call waits only while its track has a flight.
WaitersHeld == \A w \in Calls : call[w].pc = "wait" => inflight[call[w].track] # None

WaitInv == FlightsHeld /\ WaitersHeld

LEMMA WaitInit == Init => WaitInv
  BY DEF Init, WaitInv, FlightsHeld, WaitersHeld, Idle

\* A step of one call that leaves the flights alone, goes on leading if it led, and does
\* not begin to wait.
LEMMA FlightsRest ==
  ASSUME TypeOK, WaitInv, NEW c \in Calls, inflight' = inflight,
         \A d \in Calls : d # c => call'[d] = call[d], call'[c].pc # "wait",
         call[c].pc \in Leading => call'[c].pc \in Leading /\ call'[c].track = call[c].track
  PROVE  WaitInv'
<1>1. \A k \in Tracks : inflight[k] # None => inflight[k] \in Calls
  BY DEF TypeOK
<1>2. FlightsHeld'
  BY <1>1 DEF WaitInv, FlightsHeld
<1>3. WaitersHeld'
  BY DEF WaitInv, WaitersHeld
<1> QED BY <1>2, <1>3 DEF WaitInv

\* _get_cached leads on, if it led, or leads nothing.
LEMMA CachedWaits ==
  ASSUME TypeOK, WaitInv, NEW c \in Calls, call[c].pc \in Running,
         NEW hit \in Running \ {"wait"}, NEW miss \in Running \ {"wait"},
         GetCached(c, hit, miss), UNCHANGED inflight,
         call[c].pc \in Leading => hit \in Leading /\ miss \in Leading
  PROVE  WaitInv'
<1>1. CASE \E e \in Held(call[c].track) :
             Live(e) /\ Answer(c, hit, e.info) /\ UNCHANGED <<cacheVars, history>>
  <2>1. PICK e \in Held(call[c].track) : Answer(c, hit, e.info)
    BY <1>1
  <2>2. e.info \in Infos \union {NoInfo}
    BY DEF Held, TypeOK, Entries
  <2>3. /\ call'[c].pc = hit /\ call'[c].track = call[c].track
        /\ \A d \in Calls : d # c => call'[d] = call[d]
    BY <2>1, <2>2, AnswerGoes
  <2> QED BY <2>3, FlightsRest
<1>2. CASE Goto(c, miss)
  <2>1. /\ call'[c].pc = miss /\ call'[c].track = call[c].track
        /\ \A d \in Calls : d # c => call'[d] = call[d]
    BY <1>2, GotoGoes
  <2> QED BY <2>1, FlightsRest
<1> QED BY <1>1, <1>2 DEF GetCached

LEMMA RequestWaits ==
  ASSUME TypeOK, WaitInv, NEW c \in Calls, NEW k \in Tracks, Request(c, k)
  PROVE  WaitInv'
<1> DEFINE r == [Idle EXCEPT !.pc = "lookup", !.track = k]
<1>1. r \in CallStates /\ r.pc = "lookup" /\ call' = [call EXCEPT ![c] = r]
  BY DEF CallStates, Idle, Running, Request
<1>2. call'[c].pc = "lookup" /\ \A d \in Calls : d # c => call'[d] = call[d]
  BY <1>1, CallMoves
<1>3. call[c].pc \notin Leading /\ inflight' = inflight
  BY DEF Request, Idle, Leading
<1> QED BY <1>2, <1>3, FlightsRest

\* Past Enter without waiting, and back to the lock.
LEMMA LeaderWaits ==
  ASSUME TypeOK, WaitInv, NEW c \in Calls, Fetched(c) \/ FetchFails(c) \/ Put(c)
  PROVE  WaitInv'
<1>1. /\ call[c].pc \in Running /\ inflight' = inflight
      /\ "put" \in Running \intersect Leading /\ "fail" \in Running \intersect Leading
      /\ "finish" \in Running \intersect Leading
  BY DEF Fetched, FetchFails, Put, Running, Leading
<1>2. CASE Fetched(c)
  <2>1. PICK i \in Identities : Answer(c, "put", [fetch |-> fetches + 1, identity |-> i])
    BY <1>2 DEF Fetched
  <2>2. [fetch |-> fetches + 1, identity |-> i] \in Infos \union {NoInfo}
    BY DEF Infos, TypeOK
  <2>3. /\ call'[c].pc = "put" /\ call'[c].track = call[c].track
        /\ \A d \in Calls : d # c => call'[d] = call[d]
    BY <1>1, <2>1, <2>2, AnswerGoes
  <2> QED BY <1>1, <2>3, FlightsRest
<1>3. CASE FetchFails(c) \/ Put(c)
  <2>1. PICK pc \in {"fail", "finish"} : Goto(c, pc)
    BY <1>3 DEF FetchFails, Put
  <2>2. /\ call'[c].pc = pc /\ call'[c].track = call[c].track
        /\ \A d \in Calls : d # c => call'[d] = call[d]
    BY <1>1, <2>1, GotoGoes
  <2> QED BY <1>1, <2>1, <2>2, FlightsRest
<1> QED BY <1>2, <1>3

\* _open_audio_upstream holds no flight.
LEMMA OpenWaits ==
  ASSUME TypeOK, WaitInv, NEW c \in Calls,
         Opened(c) \/ OpenFails(c) \/ Refused(c) \/ Invalidate(c)
  PROVE  WaitInv'
<1>1. /\ call[c].pc \in Running /\ call[c].pc \notin Leading /\ inflight' = inflight
      /\ "refused" \in Running /\ "enter" \in Running
  BY DEF Opened, OpenFails, Refused, Invalidate, Running, Leading
<1>2. call'[c].pc \in {"idle", "refused", "enter"}
      /\ \A d \in Calls : d # c => call'[d] = call[d]
  <2>1. CASE Opened(c) \/ OpenFails(c)
    BY <2>1, EndGoes DEF Opened, OpenFails
  <2>2. CASE Refused(c)
    BY <2>2, <1>1, GotoGoes DEF Refused
  <2>3. CASE Invalidate(c)
    <3> DEFINE r == [call[c] EXCEPT !.pc = "enter", !.forced = TRUE]
    <3>1. /\ call[c].track \in Tracks /\ call[c].info \in Infos \union {NoInfo}
          /\ call[c] = [pc |-> call[c].pc, track |-> call[c].track,
                        forced |-> call[c].forced, info |-> call[c].info]
      BY <1>1, RunningCall
    <3>2. r \in CallStates /\ r.pc = "enter"
      BY <1>1, <3>1 DEF CallStates
    <3>3. call' = [call EXCEPT ![c] = r]
      BY <2>3 DEF Invalidate, TypeOK
    <3> QED BY <3>2, <3>3, CallMoves
  <2> QED BY <2>1, <2>2, <2>3
<1> QED BY <1>1, <1>2, FlightsRest

\* A call begins to wait only for a flight that is there, and a flight begins with its leader.
LEMMA EnterWaits ==
  ASSUME TypeOK, WaitInv, NEW c \in Calls, Enter(c)
  PROVE  WaitInv'
<1> DEFINE k == call[c].track
<1>1. /\ call[c].pc = "enter" /\ call[c].pc \in Running /\ call[c].pc \notin Leading
      /\ "wait" \in Running /\ {"fetch", "recheck"} \subseteq Running \intersect Leading
      /\ "wait" \notin {"fetch", "recheck"}
  BY DEF Enter, Running, Leading
<1>2. k \in Tracks
  BY <1>1, RunningCall
<1>3. \A j \in Tracks : inflight[j] # None => inflight[j] \in Calls /\ inflight[j] # c
  BY <1>1 DEF TypeOK, WaitInv, FlightsHeld
<1>4. CASE inflight[k] # None /\ Goto(c, "wait") /\ UNCHANGED inflight
  <2>1. /\ call'[c].pc = "wait" /\ call'[c].track = k
        /\ \A d \in Calls : d # c => call'[d] = call[d]
    BY <1>1, <1>4, GotoGoes
  <2>2. FlightsHeld'
    BY <1>3, <1>4, <2>1 DEF WaitInv, FlightsHeld
  <2>3. WaitersHeld'
    BY <1>4, <2>1 DEF WaitInv, WaitersHeld
  <2> QED BY <2>2, <2>3 DEF WaitInv
<1>5. CASE /\ inflight[k] = None
           /\ inflight' = [inflight EXCEPT ![k] = c]
           /\ Goto(c, IF call[c].forced THEN "fetch" ELSE "recheck")
  <2>1. PICK pc \in {"fetch", "recheck"} : Goto(c, pc)
    BY <1>5
  <2>2. /\ call'[c].pc = pc /\ call'[c].track = k
        /\ \A d \in Calls : d # c => call'[d] = call[d]
    BY <1>1, <2>1, GotoGoes
  <2>3. \A j \in Tracks : inflight'[j] = IF j = k THEN c ELSE inflight[j]
    BY <1>5 DEF TypeOK
  <2>4. FlightsHeld'
    BY <1>1, <1>3, <2>1, <2>2, <2>3 DEF WaitInv, FlightsHeld
  <2>5. WaitersHeld'
    <3> SUFFICES ASSUME NEW w \in Calls, call'[w].pc = "wait"
                 PROVE  inflight'[call'[w].track] # None
      BY DEF WaitersHeld
    <3>1. w # c /\ call'[w] = call[w]
      BY <1>1, <2>1, <2>2
    <3>2. call[w].track \in Tracks /\ inflight[call[w].track] # None
      BY <1>1, <3>1, RunningCall DEF WaitInv, WaitersHeld
    <3>3. c # None
      BY AudioAssumption
    <3> QED BY <2>3, <3>1, <3>2, <3>3
  <2> QED BY <2>4, <2>5 DEF WaitInv
<1> QED BY <1>4, <1>5 DEF Enter

\* _finish_flight: with the flight goes everybody who waited for it.
LEMMA FinishWaits ==
  ASSUME TypeOK, WaitInv, NEW c \in Calls, Finish(c)
  PROVE  WaitInv'
<1> DEFINE k == call[c].track
<1>1. /\ call[c].pc \in {"finish", "fail"} /\ call[c].pc \in Running
      /\ "wait" \notin Leading /\ "wait" \in Running
  BY DEF Finish, Running, Leading
<1>2. k \in Tracks
  BY <1>1, RunningCall
<1>3. \A j \in Tracks : inflight'[j] = IF j = k /\ inflight[k] = c THEN None ELSE inflight[j]
  BY <1>2 DEF Finish, TypeOK
<1>4. \A j \in Tracks : inflight[j] # None => inflight[j] \in Calls
  BY DEF TypeOK
<1>5. ASSUME NEW w \in Calls, w # c, w \notin Waiting(k)
      PROVE  call'[w] = call[w]
  BY <1>5 DEF Finish
<1>6. ASSUME NEW w \in Calls, w = c \/ w \in Waiting(k)
      PROVE  call'[w].pc # "wait"
  <2>1. call[w].pc \in Running
    BY <1>1, <1>6 DEF Waiting
  <2>2. call[w] = [pc |-> call[w].pc, track |-> call[w].track,
                   forced |-> call[w].forced, info |-> call[w].info]
    BY <2>1, RunningCall
  <2>3. call'[w] = IF call[c].pc = "fail" THEN Idle
                   ELSE [call[w] EXCEPT !.pc = "open", !.info = call[c].info]
    BY <1>6 DEF Finish
  <2>4. Idle.pc = "idle" /\ [call[w] EXCEPT !.pc = "open", !.info = call[c].info].pc = "open"
    BY <2>2 DEF Idle
  <2> QED BY <2>3, <2>4
<1>7. FlightsHeld'
  <2> SUFFICES ASSUME NEW j \in Tracks, inflight'[j] # None
               PROVE  call'[inflight'[j]].track = j /\ call'[inflight'[j]].pc \in Leading
    BY DEF FlightsHeld
  <2>1. PICK d \in Calls : d = inflight[j] /\ d = inflight'[j]
    BY <1>3, <1>4
  <2>2. call[d].track = j /\ call[d].pc \in Leading
    BY <2>1, <1>3 DEF WaitInv, FlightsHeld
  <2>3. d # c /\ d \notin Waiting(k)
    BY <1>1, <1>3, <2>1, <2>2 DEF Waiting
  <2>4. call'[d] = call[d]
    BY <1>5, <2>3
  <2> QED BY <2>1, <2>2, <2>4
<1>8. WaitersHeld'
  <2> SUFFICES ASSUME NEW w \in Calls, call'[w].pc = "wait"
               PROVE  inflight'[call'[w].track] # None
    BY DEF WaitersHeld
  <2>1. w # c /\ w \notin Waiting(k) /\ call'[w] = call[w]
    BY <1>5, <1>6
  <2>2. call[w].track # k /\ call[w].track \in Tracks /\ inflight[call[w].track] # None
    BY <1>1, <2>1, RunningCall DEF Waiting, WaitInv, WaitersHeld
  <2> QED BY <1>3, <2>1, <2>2
<1> QED BY <1>7, <1>8 DEF WaitInv

LEMMA StepWaits ==
  ASSUME TypeOK, WaitInv, NEW c \in Calls, Step(c)
  PROVE  WaitInv'
<1>1. CASE Lookup(c)
  BY <1>1, CachedWaits DEF Lookup, Running, Leading
<1>2. CASE Recheck(c)
  BY <1>2, CachedWaits DEF Recheck, Running, Leading
<1>3. CASE Fetched(c) \/ FetchFails(c) \/ Put(c)
  BY <1>3, LeaderWaits
<1>4. CASE Opened(c) \/ OpenFails(c) \/ Refused(c) \/ Invalidate(c)
  BY <1>4, OpenWaits
<1> QED BY <1>1, <1>2, <1>3, <1>4, EnterWaits, FinishWaits DEF Step

LEMMA RestWaits ==
  ASSUME WaitInv, UNCHANGED <<call, inflight>>
  PROVE  WaitInv'
  BY DEF WaitInv, FlightsHeld, WaitersHeld

\* get_audio_info: a call waits for a flight of its track whose leader is alive and waits
\* for nobody, so no requests wait for each other, for any number of threads and tracks.
THEOREM NoDeadlock == Spec => []NobodyWaitsInVain
<1>1. Init => WaitInv
  BY WaitInit
<1>2. TypeOK /\ WaitInv /\ [Next]_vars => WaitInv'
  <2> SUFFICES ASSUME TypeOK, WaitInv, [Next]_vars PROVE WaitInv'
    OBVIOUS
  <2>1. ASSUME \E v \in 1..MaxFetches : Expire(v) PROVE WaitInv'
    BY <2>1, RestWaits DEF Expire
  <2>2. CASE Tick
    BY <2>2, RestWaits DEF Tick
  <2>3. CASE UNCHANGED vars
    BY <2>3, RestWaits DEF vars
  <2> QED BY <2>1, <2>2, <2>3, RequestWaits, StepWaits DEF Next
<1>3. TypeOK /\ WaitInv => NobodyWaitsInVain
  <2> SUFFICES ASSUME TypeOK, WaitInv, NEW w \in Calls, call[w].pc = "wait"
               PROVE  \E c \in Calls : call[c].track = call[w].track /\ call[c].pc \in Leading
    BY DEF NobodyWaitsInVain
  <2>1. call[w].track \in Tracks /\ inflight[call[w].track] # None
    BY RunningCall DEF Running, WaitInv, WaitersHeld
  <2>2. inflight[call[w].track] \in Calls
    BY <2>1 DEF TypeOK
  <2> QED BY <2>1, <2>2 DEF WaitInv, FlightsHeld
<1> QED BY <1>1, <1>2, <1>3, TypeCorrect, PTL DEF Spec

-----------------------------------------------------------------------------

\* What expired, was replaced, pruned or refused is not put back by a flight that read it.
THEOREM DroppedForGood == Spec => []DroppedStaysOut
<1>1. IInv => DroppedStaysOut
  BY DEF IInv, OutOK, DroppedStaysOut, FetchesOf
<1> QED BY <1>1, Invariance, PTL

\* get_audio_info: an answer that comes late never replaces a newer one.
THEOREM OrderedStores == Spec => StoredInOrder
<1>1. IInv /\ [Next]_vars => [\A k \in Tracks : latest'[k] >= latest[k]]_vars
  <2> SUFFICES ASSUME IInv, Next
               PROVE  \A k \in Tracks : latest'[k] >= latest[k]
    OBVIOUS
  <2>1. ASSUME NEW c \in Calls, Put(c)
        PROVE  \A k \in Tracks : latest'[k] >= latest[k]
    <3>1. /\ latest[call[c].track] <= latest'[call[c].track]
          /\ \A k \in Tracks : k # call[c].track => latest'[k] = latest[k]
      BY <2>1, PutStep
    <3>2. TypeOK /\ TypeOK'
      BY <2>1, PutStep DEF IInv
    <3> QED BY <3>1, <3>2 DEF TypeOK
  <2>2. ASSUME latest' = latest
        PROVE  \A k \in Tracks : latest'[k] >= latest[k]
    BY <2>2 DEF IInv, TypeOK
  <2>3. ASSUME NEW c \in Calls, Step(c)
        PROVE  Put(c) \/ latest' = latest
    BY <2>3 DEF Step, Lookup, Enter, Recheck, Fetched, FetchFails, Finish, Opened, OpenFails,
       Refused, Invalidate, GetCached, Forget, history
  <2>4. ASSUME Next, ~\E c \in Calls : Step(c)
        PROVE  latest' = latest
    BY <2>4 DEF Next, Request, Expire, Tick, history
  <2> QED BY <2>1, <2>2, <2>3, <2>4
<1> QED BY <1>1, Invariance, PTL DEF Spec, StoredInOrder
=============================================================================
