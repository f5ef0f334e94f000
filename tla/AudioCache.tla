------------------------------ MODULE AudioCache ------------------------------
(* The addresses of audio streams, kept by stream_service.py: a cache under two   *)
(* dictionaries, one fetch at a time per track (a flight the others wait for),    *)
(* and one forced refresh for a request whose address the upstream refuses.       *)
(*                                                                                *)
(* Every step is one critical section of StreamService._lock or one call outside  *)
(* it.  A track stands for an alias key (account, bvid, cid, quality); a fetch is *)
(* known by its number, and every fetch signs its address anew.                   *)
EXTENDS Naturals, FiniteSets

CONSTANTS
  Calls,       \* request threads
  Tracks,      \* alias keys
  Identities,  \* stream_identity of what a fetch returns
  MaxEntries,  \* max_cache_entries (512 in the code)
  TTL,         \* cache_ttl_seconds, in clock steps
  MaxFetches,  \* bound: fetches that succeed
  MaxTime,     \* bound: clock steps
  None

ASSUME AudioAssumption ==
  /\ MaxEntries \in Nat \ {0}
  /\ TTL \in Nat
  /\ MaxFetches \in Nat
  /\ MaxTime \in Nat
  /\ None \notin Identities \union Calls \union Tracks

VARIABLES
  cache,     \* _cache: entries; full_key is (track, identity)
  aliases,   \* _aliases[k]: the identity of k's full_key, or None
  inflight,  \* _inflight[k]: the call that leads k's flight, or None
  call,      \* the requests
  fetches,   \* fetches that succeeded
  dead,      \* fetches whose address the upstream refuses by now
  now,
  latest,    \* history: latest[k] is the last fetch stored for k
  dropped    \* history: fetches that left the cache

cacheVars == <<cache, aliases>>
history == <<latest, dropped>>
vars == <<cacheVars, inflight, call, fetches, dead, now, history>>

\* What a fetch returned: its number, and what makes its full_key.
Infos == [fetch : Nat \ {0}, identity : Identities]
NoInfo == [fetch |-> 0, identity |-> None]

Entries == [track : Tracks, info : Infos, at : Nat]

\* lookup, enter, recheck, fetch, put, finish, fail: get_audio_info, in its order;
\* wait: another call leads; open, refused: _open_audio_upstream.
Leading == {"recheck", "fetch", "put", "finish", "fail"}
Running == Leading \union {"lookup", "enter", "wait", "open", "refused"}

Idle == [pc |-> "idle", track |-> None, forced |-> FALSE, info |-> NoInfo]

Init ==
  /\ cache = {}
  /\ aliases = [k \in Tracks |-> None]
  /\ inflight = [k \in Tracks |-> None]
  /\ call = [c \in Calls |-> Idle]
  /\ fetches = 0
  /\ dead = {}
  /\ now = 0
  /\ latest = [k \in Tracks |-> 0]
  /\ dropped = {}

Held(k) == {e \in cache : e.track = k /\ e.info.identity = aliases[k]}

FetchesOf(entries) == {e.info.fetch : e \in entries}

\* Entries taken out of _cache, each with the alias that leads to it.
Forget(entries) ==
  /\ cache' = cache \ entries
  /\ aliases' = [k \in Tracks |-> IF Held(k) \intersect entries # {} THEN None ELSE aliases[k]]
  /\ dropped' = dropped \union FetchesOf(entries)
  /\ UNCHANGED latest

Goto(c, pc) == call' = [call EXCEPT ![c].pc = pc]

\* The request is answered, with a stream or with an error.
End(c) == call' = [call EXCEPT ![c] = Idle]

Answer(c, pc, info) == call' = [call EXCEPT ![c].pc = pc, ![c].info = info]

-----------------------------------------------------------------------------
(* get_audio_info. *)

\* proxy_stream or download_audio_to_file; the cid is known.
Request(c, k) ==
  /\ call[c] = Idle
  /\ call' = [call EXCEPT ![c] = [Idle EXCEPT !.pc = "lookup", !.track = k]]
  /\ UNCHANGED <<cacheVars, inflight, fetches, dead, now, history>>

Live(e) == now - e.at <= TTL

\* _get_cached: a live entry is the answer, an expired one is forgotten.
GetCached(c, hit, miss) ==
  LET held == Held(call[c].track) IN
  \/ \E e \in held : Live(e) /\ Answer(c, hit, e.info) /\ UNCHANGED <<cacheVars, history>>
  \/ (\A e \in held : ~Live(e)) /\ Goto(c, miss) /\ Forget(held)

Lookup(c) ==
  /\ call[c].pc = "lookup"
  /\ GetCached(c, "open", "enter")
  /\ UNCHANGED <<inflight, fetches, dead, now>>

\* A plausible bug: a forced refresh waits for nobody.
EnterForced(c) ==
  /\ call[c].pc = "enter"
  /\ IF call[c].forced \/ inflight[call[c].track] = None
     THEN /\ inflight' = [inflight EXCEPT ![call[c].track] = IF @ = None THEN c ELSE @]
          /\ Goto(c, IF call[c].forced THEN "fetch" ELSE "recheck")
     ELSE Goto(c, "wait") /\ UNCHANGED inflight
  /\ UNCHANGED <<cacheVars, fetches, dead, now, history>>

\* Take the lead of the track's flight, or wait for the call that has it.
Enter(c) ==
  /\ call[c].pc = "enter"
  /\ \/ /\ inflight[call[c].track] = None
        /\ inflight' = [inflight EXCEPT ![call[c].track] = c]
        /\ Goto(c, IF call[c].forced THEN "fetch" ELSE "recheck")
     \/ /\ inflight[call[c].track] # None
        /\ Goto(c, "wait")
        /\ UNCHANGED inflight
  /\ UNCHANGED <<cacheVars, fetches, dead, now, history>>

\* A plausible bug: what the second look found is stored again.
RecheckStores(c) ==
  /\ call[c].pc = "recheck"
  /\ GetCached(c, "put", "fetch")
  /\ UNCHANGED <<inflight, fetches, dead, now>>

\* "Another request may have populated the cache."
Recheck(c) ==
  /\ call[c].pc = "recheck"
  /\ GetCached(c, "finish", "fetch")
  /\ UNCHANGED <<inflight, fetches, dead, now>>

\* get_audio_stream answers: an address signed anew.
Fetched(c) ==
  /\ call[c].pc = "fetch"
  /\ fetches < MaxFetches
  /\ fetches' = fetches + 1
  /\ \E i \in Identities : Answer(c, "put", [fetch |-> fetches + 1, identity |-> i])
  /\ UNCHANGED <<cacheVars, inflight, dead, now, history>>

\* get_audio_stream raises: the flight ends with the error.
FetchFails(c) ==
  /\ call[c].pc = "fetch"
  /\ Goto(c, "fail")
  /\ UNCHANGED <<cacheVars, inflight, fetches, dead, now, history>>

\* A plausible bug: the limit is looked at before the entry is stored.
KeptBefore(entry, others) ==
  LET fresh == {e \in others : Live(e)} IN
  {{entry} \union kept : kept \in
     {set \in SUBSET fresh : Cardinality(set) <= MaxEntries
                          /\ \A e \in set, f \in fresh \ set : f.at <= e.at}}

\* _prune_cache_locked: what it may keep of the others and the new entry. The expired
\* go, then the oldest, as many as are over the limit; among equals the choice is open.
Kept(entry, others) ==
  LET fresh == {e \in others \union {entry} : Live(e)} IN
  {kept \in SUBSET fresh :
     /\ Cardinality(kept) <= MaxEntries
     /\ \A e \in kept, f \in fresh \ kept : f.at <= e.at
     /\ kept # fresh => Cardinality(kept) = MaxEntries}

NewEntry(c) == [track |-> call[c].track, info |-> call[c].info, at |-> now]

\* What the new entry leaves: neither the track's former entry nor one of the same key.
Others(c) ==
  {e \in cache : e.track = call[c].track =>
                   e.info.identity \notin {aliases[call[c].track], call[c].info.identity}}

\* The answer is stored under its alias, and the cache pruned.
Put(c) ==
  LET named == [aliases EXCEPT ![call[c].track] = call[c].info.identity] IN
  /\ call[c].pc = "put"
  /\ \E kept \in Kept(NewEntry(c), Others(c)) :
       /\ cache' = kept
       /\ aliases' = [k \in Tracks |->
            IF \E e \in (Others(c) \union {NewEntry(c)}) \ kept :
                 e.track = k /\ e.info.identity = named[k]
            THEN None ELSE named[k]]
       /\ dropped' = dropped \union FetchesOf((cache \union {NewEntry(c)}) \ kept)
  /\ latest' = [latest EXCEPT ![call[c].track] = call[c].info.fetch]
  /\ Goto(c, "finish")
  /\ UNCHANGED <<inflight, fetches, dead, now>>

Waiting(k) == {w \in Calls : call[w].pc = "wait" /\ call[w].track = k}

\* A plausible bug: only an answer wakes those who wait.
FinishAnswered(c) ==
  /\ call[c].pc \in {"finish", "fail"}
  /\ inflight' = [inflight EXCEPT ![call[c].track] = IF @ = c THEN None ELSE @]
  /\ IF call[c].pc = "fail" THEN End(c)
     ELSE call' = [w \in Calls |->
            IF w # c /\ w \notin Waiting(call[c].track) THEN call[w]
            ELSE [call[w] EXCEPT !.pc = "open", !.info = call[c].info]]
  /\ UNCHANGED <<cacheVars, fetches, dead, now, history>>

\* _finish_flight: the flight ends, and everybody who waits for it has its outcome.
Finish(c) ==
  /\ call[c].pc \in {"finish", "fail"}
  /\ inflight' = [inflight EXCEPT ![call[c].track] = IF @ = c THEN None ELSE @]
  /\ call' = [w \in Calls |->
       IF w # c /\ w \notin Waiting(call[c].track) THEN call[w]
       ELSE IF call[c].pc = "fail" THEN Idle
       ELSE [call[w] EXCEPT !.pc = "open", !.info = call[c].info]]
  /\ UNCHANGED <<cacheVars, fetches, dead, now, history>>

-----------------------------------------------------------------------------
(* _open_audio_upstream. *)

\* _try_stream_urls with an address that is still good.
Opened(c) ==
  /\ call[c].pc = "open"
  /\ call[c].info.fetch \notin dead
  /\ End(c)
  /\ UNCHANGED <<cacheVars, inflight, fetches, dead, now, history>>

\* The network fails, or the refreshed address is refused too.
OpenFails(c) ==
  /\ call[c].pc = "open"
  /\ End(c)
  /\ UNCHANGED <<cacheVars, inflight, fetches, dead, now, history>>

\* 401, 403 or 410, and no refresh yet.
Refused(c) ==
  /\ call[c].pc = "open"
  /\ call[c].info.fetch \in dead
  /\ ~call[c].forced
  /\ Goto(c, "refused")
  /\ UNCHANGED <<cacheVars, inflight, fetches, dead, now, history>>

\* A plausible bug: the entry goes, the alias stays.
InvalidateEntry(c) ==
  /\ call[c].pc = "refused"
  /\ cache' = cache \ Held(call[c].track)
  /\ dropped' = dropped \union FetchesOf(Held(call[c].track))
  /\ call' = [call EXCEPT ![c].pc = "enter", ![c].forced = TRUE]
  /\ UNCHANGED <<aliases, latest, inflight, fetches, dead, now>>

\* _invalidate_audio_info, whatever the track's entry is by now, then force_refresh.
Invalidate(c) ==
  /\ call[c].pc = "refused"
  /\ Forget(Held(call[c].track))
  /\ call' = [call EXCEPT ![c].pc = "enter", ![c].forced = TRUE]
  /\ UNCHANGED <<inflight, fetches, dead, now>>

-----------------------------------------------------------------------------
(* The world. *)

Expire(v) ==
  /\ v \in (1..fetches) \ dead
  /\ dead' = dead \union {v}
  /\ UNCHANGED <<cacheVars, inflight, call, fetches, now, history>>

Tick ==
  /\ now < MaxTime
  /\ now' = now + 1
  /\ UNCHANGED <<cacheVars, inflight, call, fetches, dead, history>>

Step(c) ==
  \/ Lookup(c) \/ Enter(c) \/ Recheck(c) \/ Fetched(c) \/ FetchFails(c) \/ Put(c)
  \/ Finish(c) \/ Opened(c) \/ OpenFails(c) \/ Refused(c) \/ Invalidate(c)

Next ==
  \/ \E c \in Calls, k \in Tracks : Request(c, k)
  \/ \E c \in Calls : Step(c)
  \/ \E v \in 1..MaxFetches : Expire(v)
  \/ Tick

Spec == Init /\ [][Next]_vars

\* Threads are scheduled, and every call outside the lock has a timeout.
FairSpec == Spec /\ \A c \in Calls : WF_vars(Step(c))

-----------------------------------------------------------------------------
(* Properties. *)

TypeOK ==
  /\ cache \subseteq Entries
  /\ aliases \in [Tracks -> Identities \union {None}]
  /\ inflight \in [Tracks -> Calls \union {None}]
  /\ call \in [Calls -> [pc : Running, track : Tracks, forced : BOOLEAN,
                         info : Infos \union {NoInfo}] \union {Idle}]
  /\ fetches \in Nat
  /\ dead \subseteq Nat
  /\ now \in Nat
  /\ latest \in [Tracks -> Nat]
  /\ dropped \subseteq Nat

\* The two dictionaries of _cache and _aliases agree after every critical section: an
\* alias leads to an entry, and every entry is the one its track's alias leads to, so
\* nothing is left in the cache that no lookup can reach.
DictionariesAgree ==
  /\ \A k \in Tracks : aliases[k] # None => \E e \in cache : e.track = k /\ e.info.identity = aliases[k]
  /\ \A e \in cache : e.info.identity = aliases[e.track]
  /\ \A e, f \in cache : e.track = f.track => e = f

\* The cache never holds more than its limit, even when every track is asked for at once.
WithinLimit == Cardinality(cache) <= MaxEntries

\* After every critical section the cache is what a reader of it relies on.
CacheKept == DictionariesAgree /\ WithinLimit

\* A track has one flight: of the calls for it at most one is past Enter without waiting.
OneFlight ==
  \A c, d \in Calls :
    (call[c].pc \in Leading /\ call[d].pc \in Leading /\ call[c].track = call[d].track)
      => c = d

\* Nobody waits in vain: a call that waits waits for a flight of its own track, led by a
\* call that is alive, waits for nobody itself, and ends the flight whatever happens to it.
NobodyWaitsInVain ==
  \A w \in Calls : call[w].pc = "wait" =>
    \E c \in Calls : call[c].track = call[w].track /\ call[c].pc \in Leading

\* What left the cache (expired, replaced, over the limit or refused by the upstream)
\* does not come back, whatever the flights that read it before do afterwards.
DroppedStaysOut == FetchesOf(cache) \intersect dropped = {}

\* The fetches of a track are stored in their order: an answer that comes late never
\* replaces a newer one, forced refreshes included.
StoredInOrder == [][\A k \in Tracks : latest'[k] >= latest[k]]_vars

\* Every request ends, with a stream or with an error: no flight is left behind that
\* somebody waits for, whether its fetch succeeds, fails or never had to be made.
EveryRequestEnds == \A c \in Calls : (call[c] # Idle) ~> (call[c] = Idle)
=============================================================================
