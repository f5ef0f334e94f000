---------------------------- MODULE SignedMetadata ----------------------------
(* bili_client.py: requests that are signed with keys the upstream rotates, and   *)
(* the caches of one account they go through.  _cached_metadata_payload keeps      *)
(* payloads in least-recently-used order and lets one call load what several ask   *)
(* for; loading a player payload needs the keys, which are loaded the same way,    *)
(* so flights nest.  A signature that is refused discards the keys and is tried    *)
(* once more.                                                                      *)
(*                                                                                 *)
(* Every step is one critical section of _metadata_cache_lock or one call outside   *)
(* it.  Keys are known by the rotation they belong to.                             *)
EXTENDS Naturals, Sequences, SequencesExt

CONSTANTS
  Calls,         \* request threads
  Videos,        \* keys of the player cache
  MaxEntries,    \* metadata_cache_max_entries (256 in the code)
  MaxRotations,  \* bound: rotations of the upstream's keys
  Keys,          \* the key of the WBI key cache: the account's scope
  Space,         \* a signed request that is not cached (list_user_tracks)
  None

ASSUME MetadataAssumption ==
  /\ MaxEntries \in Nat \ {0}
  /\ MaxRotations \in Nat
  /\ Keys # Space /\ Keys \notin Videos /\ Space \notin Videos
  /\ None \notin Calls /\ None \notin Videos /\ None # Space /\ None # Keys

VARIABLES
  current,  \* the keys the upstream takes
  cache,    \* cache[n]: the entries of a namespace, the least recently used first
  flight,   \* _metadata_inflight: the loader of a resource and its Future
  call      \* the requests

vars == <<current, cache, flight, call>>

Resources == Videos \union {Keys}
Namespace(r) == IF r = Keys THEN "wbi_keys" ELSE "player"

\* What a load brings: the rotation of the keys, Payload, or Error.
Error == 0
Payload == 1

NoFlight == [leader |-> None, done |-> FALSE, value |-> Error]

\* look, wait, load, store, settle, pop: _cached_metadata_payload for the resource at;
\* sign, refresh, rejected: the attempts of the loader it runs for the request.
Places == {"idle", "look", "wait", "load", "store", "settle", "pop",
           "sign", "refresh", "rejected"}

Idle == [pc |-> "idle", for |-> None, at |-> None, keys |-> 0, attempt |-> 0, got |-> Error]

Init ==
  /\ current = 1
  /\ cache = [n \in {"wbi_keys", "player"} |-> <<>>]
  /\ flight = [r \in Resources |-> NoFlight]
  /\ call = [c \in Calls |-> Idle]

-----------------------------------------------------------------------------
(* The caches. *)

Entry(r) == {e \in Range(cache[Namespace(r)]) : e.key = r}

\* A dictionary has one entry of a key at most.
Without(r) ==
  LET entries == cache[Namespace(r)]
      places == {i \in DOMAIN entries : entries[i].key = r}
  IN IF places = {} THEN entries ELSE RemoveAt(entries, CHOOSE i \in places : TRUE)

\* The entry at the end, and the least recently used dropped when there are too many.
Stored(r, value) ==
  LET all == Append(Without(r), [key |-> r, value |-> value, old |-> FALSE])
  IN IF Len(all) > MaxEntries THEN Tail(all) ELSE all

\* The call after the payload it asked for at r: an answer, or the keys for its loader.
Returned(c, r, value) ==
  IF r # Keys THEN Idle
  ELSE IF value # Error THEN [call[c] EXCEPT !.pc = "sign", !.at = call[c].for, !.keys = value]
  ELSE IF call[c].for = Space THEN Idle
  ELSE [call[c] EXCEPT !.pc = "settle", !.at = call[c].for, !.got = Error]

-----------------------------------------------------------------------------
(* _cached_metadata_payload. *)

\* A call asks for a player payload, or for a page of a space.
Request(c, x) ==
  /\ call[c] = Idle
  /\ call' = [call EXCEPT ![c] =
       [Idle EXCEPT !.pc = "look", !.for = x, !.at = IF x = Space THEN Keys ELSE x]]
  /\ UNCHANGED <<current, cache, flight>>

Hit(c) ==
  LET r == call[c].at IN
  /\ call[c].pc = "look"
  /\ \E e \in Entry(r) :
       /\ ~e.old
       /\ cache' = [cache EXCEPT ![Namespace(r)] = Append(Without(r), e)]
       /\ call' = [call EXCEPT ![c] = Returned(c, r, e.value)]
  /\ UNCHANGED <<current, flight>>

\* The loader of a player payload asks for the keys first.
Lead(c, r) ==
  /\ flight' = [flight EXCEPT ![r] = [leader |-> c, done |-> FALSE, value |-> Error]]
  /\ call' = [call EXCEPT ![c].pc = IF r = Keys THEN "load" ELSE "look", ![c].at = Keys]

\* A plausible bug: a call that misses loads.
JoinNothing(c, r) == Lead(c, r)

\* Lead, wait for the Future, or take what it has, if its loader has not removed it yet.
Join(c, r) ==
  \/ flight[r] = NoFlight /\ Lead(c, r)
  \/ /\ flight[r] # NoFlight
     /\ call' = [call EXCEPT ![c] =
          IF flight[r].done THEN Returned(c, r, flight[r].value) ELSE [@ EXCEPT !.pc = "wait"]]
     /\ UNCHANGED flight

Miss(c) ==
  LET r == call[c].at IN
  /\ call[c].pc = "look"
  /\ \A e \in Entry(r) : e.old
  /\ cache' = [cache EXCEPT ![Namespace(r)] = Without(r)]
  /\ Join(c, r)
  /\ UNCHANGED current

\* The nav request of _get_wbi_keys answers with the keys of the moment, or fails.
LoadKeys(c) ==
  /\ call[c].pc = "load"
  /\ \/ call' = [call EXCEPT ![c].pc = "store", ![c].got = current]
     \/ call' = [call EXCEPT ![c].pc = "settle", ![c].got = Error]
  /\ UNCHANGED <<current, cache, flight>>

Store(c) ==
  LET r == call[c].at IN
  /\ call[c].pc = "store"
  /\ cache' = [cache EXCEPT ![Namespace(r)] = Stored(r, call[c].got)]
  /\ call' = [call EXCEPT ![c].pc = "settle"]
  /\ UNCHANGED <<current, flight>>

Waits(w, r) == call[w].pc = "wait" /\ call[w].at = r

\* set_result or set_exception: everybody who waits goes on.
Settle(c) ==
  LET r == call[c].at IN
  /\ call[c].pc = "settle"
  /\ flight' = [flight EXCEPT ![r].done = TRUE, ![r].value = call[c].got]
  /\ call' = [w \in Calls |->
       IF w = c THEN [call[c] EXCEPT !.pc = "pop"]
       ELSE IF Waits(w, r) THEN Returned(w, r, call[c].got) ELSE call[w]]
  /\ UNCHANGED <<current, cache>>

\* The finally clause: the Future is removed, and the loader has its own answer.
Pop(c) ==
  LET r == call[c].at IN
  /\ call[c].pc = "pop"
  /\ flight' = [flight EXCEPT ![r] = NoFlight]
  /\ call' = [call EXCEPT ![c] = Returned(c, r, call[c].got)]
  /\ UNCHANGED <<current, cache>>

-----------------------------------------------------------------------------
(* The attempts of a signed request. *)

\* The loader's outcome: a payload to store, or an error for its flight.
Ends(c, place, got) ==
  call' = [call EXCEPT ![c] =
    IF call[c].for = Space THEN Idle ELSE [@ EXCEPT !.pc = place, !.got = got]]

Accepted(c) ==
  /\ call[c].pc = "sign"
  /\ call[c].keys = current
  /\ Ends(c, "store", Payload)
  /\ UNCHANGED <<current, cache, flight>>

\* 403 or -403: the keys are too old; the second time the request fails.
Refused(c) ==
  /\ call[c].pc = "sign"
  /\ call[c].keys # current
  /\ call' = [call EXCEPT ![c].pc = IF call[c].attempt = 0 THEN "refresh" ELSE "rejected",
                          ![c].attempt = 1]
  /\ UNCHANGED <<current, cache, flight>>

\* _space_wbi_get takes a refusal for risk control for one of its two attempts: fresh
\* guest cookies, the same keys.
RiskControl(c) ==
  /\ call[c].pc = "sign"
  /\ call[c].for = Space
  /\ call[c].attempt = 0
  /\ call' = [call EXCEPT ![c].attempt = 1]
  /\ UNCHANGED <<current, cache, flight>>

\* The network fails, or the payload is not that of the video.
Fails(c) ==
  /\ call[c].pc = "sign"
  /\ Ends(c, "settle", Error)
  /\ UNCHANGED <<current, cache, flight>>

Rejected(c) ==
  /\ call[c].pc = "rejected"
  /\ Ends(c, "settle", Error)
  /\ UNCHANGED <<current, cache, flight>>

\* A plausible bug: the keys are discarded whatever they are by now.
RefreshAll(c) ==
  /\ call[c].pc = "refresh"
  /\ cache' = [cache EXCEPT !["wbi_keys"] = <<>>]
  /\ call' = [call EXCEPT ![c].pc = "look", ![c].at = Keys]
  /\ UNCHANGED <<current, flight>>

\* A plausible bug: keys that have not expired are kept.
RefreshNothing(c) ==
  /\ call[c].pc = "refresh"
  /\ call' = [call EXCEPT ![c].pc = "look", ![c].at = Keys]
  /\ UNCHANGED <<current, cache, flight>>

\* A plausible bug: the retry starts over with the keys that are cached.
RefreshStartsOver(c) ==
  /\ call[c].pc = "refresh"
  /\ call' = [call EXCEPT ![c].pc = "look", ![c].at = Keys, ![c].attempt = 0]
  /\ UNCHANGED <<current, cache, flight>>

\* _get_wbi_keys with force_refresh: only the keys that were refused are discarded.
Refresh(c) ==
  /\ call[c].pc = "refresh"
  /\ cache' = IF \E e \in Entry(Keys) : e.value = call[c].keys
              THEN [cache EXCEPT !["wbi_keys"] = Without(Keys)] ELSE cache
  /\ call' = [call EXCEPT ![c].pc = "look", ![c].at = Keys]
  /\ UNCHANGED <<current, flight>>

-----------------------------------------------------------------------------
(* The world. *)

Rotate ==
  /\ current <= MaxRotations
  /\ current' = current + 1
  /\ UNCHANGED <<cache, flight, call>>

\* Time passes: the entry of r reaches its expires_at.
Age(r) ==
  /\ \E e \in Entry(r) : ~e.old
  /\ cache' = [cache EXCEPT ![Namespace(r)] =
       [i \in DOMAIN @ |-> IF @[i].key = r THEN [@[i] EXCEPT !.old = TRUE] ELSE @[i]]]
  /\ UNCHANGED <<current, flight, call>>

Step(c) ==
  \/ Hit(c) \/ Miss(c) \/ LoadKeys(c) \/ Store(c) \/ Settle(c) \/ Pop(c)
  \/ Accepted(c) \/ Refused(c) \/ RiskControl(c) \/ Fails(c) \/ Rejected(c) \/ Refresh(c)

Next ==
  \/ \E c \in Calls : Step(c) \/ \E x \in Videos \union {Space} : Request(c, x)
  \/ \E r \in Resources : Age(r)
  \/ Rotate

Spec == Init /\ [][Next]_vars

\* Threads are scheduled, and every call to the upstream has a timeout.
FairSpec == Spec /\ \A c \in Calls : WF_vars(Step(c))

-----------------------------------------------------------------------------
(* Properties. *)

TypeOK ==
  /\ current \in Nat
  /\ \A n \in DOMAIN cache : Range(cache[n]) \subseteq
       [key : {r \in Resources : Namespace(r) = n}, value : Nat \ {Error}, old : BOOLEAN]
  /\ flight \in [Resources -> [leader : Calls \union {None}, done : BOOLEAN, value : Nat]]
  /\ call \in [Calls -> [pc : Places, for : Videos \union {Space, None},
                         at : Resources \union {Space, None}, keys : Nat, attempt : 0..1, got : Nat]]

\* A payload or a pair of keys is loaded by one call at a time, the one its Future names,
\* even though the loader of a payload stops to wait for the keys in between.
OneLoader ==
  /\ \A c, d \in Calls :
       /\ call[c].pc = "load" /\ call[d].pc = "load" => c = d
       /\ (call[c].pc \in {"sign", "refresh"} /\ call[d].pc \in {"sign", "refresh"}
           /\ call[c].for = call[d].for /\ call[c].for # Space) => c = d
  /\ \A c \in Calls : call[c].pc \in {"load", "store", "settle", "pop"} =>
       flight[call[c].at].leader = c

\* Nobody waits in vain: the Future a call waits for has no outcome yet, and the call it
\* names is alive and goes on, or waits itself for the keys, whose loader never waits.
NobodyWaitsInVain ==
  \A w \in Calls : call[w].pc = "wait" =>
    /\ ~flight[call[w].at].done
    /\ \E c \in Calls : /\ flight[call[w].at].leader = c
                       /\ \/ call[c].pc \notin {"idle", "wait"}
                          \/ call[w].at # Keys /\ call[c].at = Keys

\* Keys that the upstream takes stay in the cache until they are rotated or expire: a
\* request that was refused with older keys does not throw them away, and a loader that
\* was slow does not store older ones over them.
GoodKeysStay ==
  [][\A e \in Entry(Keys) :
       (e.value = current /\ current' = current /\ ~e.old)
         => \E f \in Entry(Keys)' : f.value = e.value]_vars

\* Every request ends: a loader that waits for the keys, a call that waits for a loader and
\* one that found a Future already settled are answered, with a payload or with an error.
EveryCallEnds == \A c \in Calls : (call[c] # Idle) ~> (call[c] = Idle)

\* Once the upstream's keys stand still, no player payload fails for its signature any more:
\* what an old flight or an old entry left behind is used up by one refusal.  (A page of a
\* space may spend its second attempt on risk control, and fail.)
Recovers == <>[](\A c \in Calls : call[c].pc = "rejected" => call[c].for = Space)
=============================================================================
