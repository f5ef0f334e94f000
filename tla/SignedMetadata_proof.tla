------------------------- MODULE SignedMetadata_proof -------------------------
(***************************************************************************)
(* Proofs about SignedMetadata, for any number of requests, videos,        *)
(* rotations and entries.                                                  *)
(*                                                                         *)
(* A request may hold two flights at once: the one of the video it is for, *)
(* and inside it the one of the keys.  LeadersOK says which it holds at    *)
(* each place, and that a flight names whoever holds it; so nobody else    *)
(* loads the same thing.  LoadingOK adds that nothing is cached while the  *)
(* keys are loaded, so what is stored then replaces no good keys.          *)
(***************************************************************************)
EXTENDS SignedMetadata, SequenceTheorems, TLAPS

CallRecs == [pc : Places, for : Videos \union {Space, None}, at : Resources \union {Space, None},
             keys : Nat, attempt : 0..1, got : Nat]

Flights == [leader : Calls \union {None}, done : BOOLEAN, value : Nat]

Entries(keys, values) == [key : keys, value : values, old : BOOLEAN]

\* A request is at the resource its place allows, and no keys are newer than the upstream's.
RecOK(b) ==
  /\ b \in CallRecs
  /\ b.keys <= current
  /\ b.pc = "idle" => b.for = None
  /\ b.pc # "idle" => b.for \in Videos \union {Space}
  /\ b.pc \in {"look", "wait"} => b.at \in {b.for, Keys} /\ b.at # Space
  /\ b.pc = "load" => b.at = Keys
  /\ b.pc \in {"store", "settle", "pop"} =>
       (b.at = Keys /\ b.got <= current) \/ (b.at = b.for /\ b.for \in Videos)
  /\ b.pc = "store" => b.got # Error
  /\ b.pc \in {"sign", "refresh", "rejected"} => b.at = b.for
  /\ b.pc = "refresh" => b.keys < current

CallsOK == call = [c \in Calls |-> call[c]] /\ \A c \in Calls : RecOK(call[c])

FlightsOK == flight \in [Resources -> Flights] /\ flight[Keys].value <= current

CachesOK ==
  /\ cache = [n \in {"wbi_keys", "player"} |-> cache[n]]
  /\ cache["wbi_keys"] \in Seq(Entries({Keys}, 1..current)) /\ Len(cache["wbi_keys"]) <= 1
  /\ cache["player"] \in Seq(Entries(Videos, Nat \ {Error}))

\* Whoever loads a video, also while it waits for the keys; and whoever loads the keys.
LeadsVideo(b) ==
  /\ b.for \in Videos
  /\ b.at = Keys \/ b.pc \in {"sign", "refresh", "rejected", "store", "settle", "pop"}

LeadsKeys(b) == b.at = Keys /\ b.pc \in {"load", "store", "settle", "pop"}

Holds(b, r) == (r = Keys /\ LeadsKeys(b)) \/ (r # Keys /\ r = b.for /\ LeadsVideo(b))

LeadersOK == \A c \in Calls, r \in Resources : Holds(call[c], r) => flight[r].leader = c

Loads(b) == b.at = Keys /\ b.pc \in {"load", "store"}

LoadingOK == \A c \in Calls : Loads(call[c]) => cache["wbi_keys"] = <<>>

\* The inductive invariant.
IInv == current \in Nat \ {0} /\ CallsOK /\ FlightsOK /\ CachesOK /\ LeadersOK /\ LoadingOK

LEMMA Constants ==
  /\ MaxEntries \in Nat /\ MaxEntries >= 1
  /\ Keys # Space /\ Keys \notin Videos /\ Space \notin Videos
  /\ None \notin Calls /\ None \notin Videos /\ None # Space /\ None # Keys
  /\ Keys \in Resources /\ Resources = Videos \union {Keys}
  BY MetadataAssumption DEF Resources

-----------------------------------------------------------------------------
(* Sequences of entries.                                                   *)

LEMMA Removed ==
  ASSUME NEW S, NEW s \in Seq(S), NEW i \in DOMAIN s
  PROVE  /\ RemoveAt(s, i) \in Seq(S)
         /\ Len(s) <= 1 => RemoveAt(s, i) = <<>>
<1>1. i \in 1..Len(s) /\ Len(s) \in Nat
  OBVIOUS
<1>2. SubSeq(s, 1, i - 1) \in Seq(S) /\ SubSeq(s, i + 1, Len(s)) \in Seq(S)
  BY <1>1, SubSeqProperties
<1>3. RemoveAt(s, i) \in Seq(S)
  BY <1>2 DEF RemoveAt
<1>4. ASSUME Len(s) <= 1
      PROVE  RemoveAt(s, i) = <<>>
  BY <1>1, <1>4 DEF RemoveAt
<1> QED BY <1>3, <1>4

LEMMA WithoutType ==
  ASSUME NEW r, NEW S, cache[Namespace(r)] \in Seq(S)
  PROVE  Without(r) \in Seq(S)
<1> DEFINE entries == cache[Namespace(r)]
           places == {i \in DOMAIN entries : entries[i].key = r}
<1>1. CASE places = {}
  BY <1>1 DEF Without
<1>2. CASE places # {}
  <2>1. PICK i \in places : i = CHOOSE j \in places : TRUE
    BY <1>2
  <2>2. Without(r) = RemoveAt(entries, i)
    BY <1>2, <2>1 DEF Without
  <2> QED BY <2>1, <2>2, Removed
<1> QED BY <1>1, <1>2

\* Nothing is left of the keys' cache once its entry is removed.
LEMMA WithoutKeys ==
  ASSUME NEW S, cache["wbi_keys"] \in Seq(S), Len(cache["wbi_keys"]) <= 1,
         \A i \in DOMAIN cache["wbi_keys"] : cache["wbi_keys"][i].key = Keys
  PROVE  Without(Keys) = <<>>
<1> DEFINE entries == cache["wbi_keys"]
           places == {i \in DOMAIN entries : entries[i].key = Keys}
<1>1. Namespace(Keys) = "wbi_keys" /\ places = DOMAIN entries
  BY DEF Namespace
<1>2. CASE places = {}
  <2>1. entries = <<>>
    BY <1>1, <1>2
  <2> QED BY <1>1, <1>2, <2>1 DEF Without
<1>3. CASE places # {}
  <2>1. PICK i \in places : i = CHOOSE j \in places : TRUE
    BY <1>3
  <2>2. Without(Keys) = RemoveAt(entries, i)
    BY <1>1, <1>3, <2>1 DEF Without
  <2> QED BY <2>1, <2>2, Removed
<1> QED BY <1>2, <1>3

\* The cache a resource's entries are in.
EntriesOf(r) == IF r = Keys THEN Entries({Keys}, 1..current) ELSE Entries(Videos, Nat \ {Error})

LEMMA CacheOf ==
  ASSUME CachesOK, current \in Nat, NEW r \in Resources
  PROVE  /\ cache[Namespace(r)] \in Seq(EntriesOf(r))
         /\ Without(r) \in Seq(EntriesOf(r))
         /\ r = Keys => Without(r) = <<>>
         /\ \A e \in Entry(r) : e \in EntriesOf(r) /\ e.key = r /\ e.value \in Nat /\ e.value # Error
<1>1. cache[Namespace(r)] \in Seq(EntriesOf(r))
  BY DEF CachesOK, Namespace, EntriesOf
<1>2. Without(r) \in Seq(EntriesOf(r))
  BY <1>1, WithoutType
<1>3. ASSUME r = Keys
      PROVE  Without(r) = <<>>
  <2>1. /\ cache["wbi_keys"] \in Seq(Entries({Keys}, 1..current)) /\ Len(cache["wbi_keys"]) <= 1
    BY DEF CachesOK
  <2>2. ASSUME NEW i \in DOMAIN cache["wbi_keys"]
        PROVE  cache["wbi_keys"][i].key = Keys
    <3>1. cache["wbi_keys"][i] \in Entries({Keys}, 1..current)
      BY <2>1
    <3> QED BY <3>1 DEF Entries
  <2>3. PICK S : S = Entries({Keys}, 1..current)
    OBVIOUS
  <2>4. Without(Keys) = <<>>
    BY <2>1, <2>2, <2>3, WithoutKeys
  <2> QED BY <1>3, <2>4
<1>4. ASSUME NEW e \in Entry(r)
      PROVE  e \in EntriesOf(r) /\ e.key = r /\ e.value \in Nat /\ e.value # Error
  <2>1. e \in EntriesOf(r) /\ e.key = r
    BY <1>1 DEF Entry, Range
  <2> QED BY <2>1 DEF EntriesOf, Entries, Error
<1> QED BY <1>1, <1>2, <1>3, <1>4

LEMMA CacheSet ==
  ASSUME CachesOK, current' = current, current \in Nat, NEW r \in Resources, NEW s \in Seq(EntriesOf(r)),
         r = Keys => Len(s) <= 1, cache' = [cache EXCEPT ![Namespace(r)] = s]
  PROVE  /\ CachesOK'
         /\ r = Keys => cache'["wbi_keys"] = s
         /\ r # Keys => cache'["wbi_keys"] = cache["wbi_keys"]
<1>1. cache = [n \in {"wbi_keys", "player"} |-> cache[n]]
  BY DEF CachesOK
<1>2. CASE r = Keys
  <2>1. cache' = [cache EXCEPT !["wbi_keys"] = s]
    BY <1>2 DEF Namespace
  <2>2. /\ cache'["wbi_keys"] = s /\ cache'["player"] = cache["player"]
        /\ cache' = [n \in {"wbi_keys", "player"} |-> cache'[n]]
    BY <1>1, <2>1
  <2> QED BY <1>2, <2>2 DEF CachesOK, EntriesOf
<1>3. CASE r # Keys
  <2>1. cache' = [cache EXCEPT !["player"] = s]
    BY <1>3 DEF Namespace
  <2>2. /\ cache'["player"] = s /\ cache'["wbi_keys"] = cache["wbi_keys"]
        /\ cache' = [n \in {"wbi_keys", "player"} |-> cache'[n]]
    BY <1>1, <2>1
  <2> QED BY <1>3, <2>2 DEF CachesOK, EntriesOf
<1> QED BY <1>2, <1>3

LEMMA StoredType ==
  ASSUME CachesOK, current \in Nat, NEW r \in Resources, NEW v \in Nat, v # Error,
         r = Keys => v <= current
  PROVE  /\ Stored(r, v) \in Seq(EntriesOf(r))
         /\ r = Keys => /\ Len(Stored(r, v)) <= 1
                        /\ Stored(r, v) = <<[key |-> r, value |-> v, old |-> FALSE]>>
<1> DEFINE e == [key |-> r, value |-> v, old |-> FALSE]
           all == Append(Without(r), e)
<1>1. e \in EntriesOf(r)
  <2>1. v \in Nat \ {Error} /\ (r = Keys => v \in 1..current) /\ (r # Keys => r \in Videos)
    BY Constants DEF Error
  <2>2. CASE r = Keys
    BY <2>1, <2>2 DEF EntriesOf, Entries
  <2>3. CASE r # Keys
    BY <2>1, <2>3 DEF EntriesOf, Entries
  <2> QED BY <2>2, <2>3
<1>2. Without(r) \in Seq(EntriesOf(r)) /\ (r = Keys => Without(r) = <<>>)
  BY CacheOf
<1> HIDE DEF e
<1>3. all \in Seq(EntriesOf(r)) /\ Len(all) \in Nat /\ (Len(all) > 0)
  BY <1>1, <1>2
<1>4. Stored(r, v) = IF Len(all) > MaxEntries THEN Tail(all) ELSE all
  BY DEF Stored, e
<1>5. Tail(all) \in Seq(EntriesOf(r))
  BY <1>3, HeadTailProperties
<1>6. ASSUME r = Keys
      PROVE  all = <<e>> /\ Len(all) = 1
  BY <1>2, <1>6
<1>7. r = Keys => Stored(r, v) = <<e>>
  BY <1>3, <1>4, <1>6, Constants
<1>8. Stored(r, v) \in Seq(EntriesOf(r))
  BY <1>3, <1>4, <1>5
<1>9. r = Keys => Len(Stored(r, v)) <= 1
  <2> SUFFICES ASSUME r = Keys
               PROVE  Len(Stored(r, v)) <= 1
    OBVIOUS
  <2>1. Stored(r, v) = all /\ Len(all) = 1
    BY <1>6, <1>7
  <2> QED BY <2>1
<1>10. r = Keys => Stored(r, v) = <<[key |-> r, value |-> v, old |-> FALSE]>>
  BY <1>7 DEF e
<1> QED BY <1>8, <1>9, <1>10

-----------------------------------------------------------------------------
(* What a step makes of one request.                                       *)

Moved(c, b) == call' = [call EXCEPT ![c] = b]

LEMMA IdleRec ==
  ASSUME current \in Nat
  PROVE  RecOK(Idle) /\ ~Loads(Idle) /\ \A q : ~Holds(Idle, q)
<1>1. /\ Idle.pc = "idle" /\ Idle.for = None /\ Idle.at = None /\ Idle.keys = 0 /\ Idle \in CallRecs
  BY DEF Idle, CallRecs, Places, Error
<1> QED BY <1>1, Constants DEF RecOK, Loads, Holds, LeadsKeys, LeadsVideo

\* A request that has what it asked for gives up that flight and keeps the other.
LEMMA ReturnedRec ==
  ASSUME CallsOK, current \in Nat, NEW c \in Calls, call[c].pc \in {"look", "wait", "pop"}, NEW value \in Nat,
         call[c].at = Keys => value <= current
  PROVE  LET b == Returned(c, call[c].at, value)
         IN  /\ RecOK(b) /\ ~Loads(b) /\ b.pc # "pop"
             /\ \A q \in Resources : Holds(b, q) => q # call[c].at /\ Holds(call[c], q)
<1> DEFINE b == Returned(c, call[c].at, value)
<1>1. RecOK(call[c]) /\ call[c] \in CallRecs
  BY DEF CallsOK, RecOK
<1>2. CASE call[c].at # Keys \/ (value = Error /\ call[c].for = Space)
  <2>1. b = Idle
    BY <1>2 DEF Returned
  <2>2. b.pc # "pop"
    BY <2>1 DEF Idle
  <2> QED BY <2>1, <2>2, IdleRec
<1>3. CASE call[c].at = Keys /\ value # Error
  <2>1. b = [call[c] EXCEPT !.pc = "sign", !.at = call[c].for, !.keys = value]
    BY <1>3 DEF Returned
  <2>2. /\ b.pc = "sign" /\ b.at = call[c].for /\ b.for = call[c].for /\ b.keys = value
        /\ b.attempt = call[c].attempt /\ b.got = call[c].got /\ b \in CallRecs
        /\ call[c].for \in Videos \union {Space}
    BY <1>1, <1>3, <2>1 DEF CallRecs, RecOK, Resources, Places
  <2> HIDE DEF b
  <2>3. RecOK(b) /\ ~Loads(b) /\ b.pc # "pop"
    BY <1>1, <1>3, <2>2 DEF RecOK, Loads
  <2>4. \A q \in Resources : Holds(b, q) => q # call[c].at /\ Holds(call[c], q)
    BY <1>3, <2>2, Constants DEF Holds, LeadsVideo, LeadsKeys
  <2> QED BY <2>3, <2>4 DEF b
<1>4. CASE call[c].at = Keys /\ value = Error /\ call[c].for # Space
  <2>1. b = [call[c] EXCEPT !.pc = "settle", !.at = call[c].for, !.got = Error]
    BY <1>4 DEF Returned
  <2>2. /\ b.pc = "settle" /\ b.at = call[c].for /\ b.for = call[c].for /\ b.keys = call[c].keys
        /\ b.attempt = call[c].attempt /\ b.got = Error /\ b \in CallRecs
        /\ call[c].for \in Videos
    BY <1>1, <1>4, <2>1 DEF CallRecs, RecOK, Resources, Places, Error
  <2> HIDE DEF b
  <2>3. RecOK(b) /\ ~Loads(b) /\ b.pc # "pop"
    BY <1>1, <1>4, <2>2 DEF RecOK, Loads
  <2>4. \A q \in Resources : Holds(b, q) => q # call[c].at /\ Holds(call[c], q)
    BY <1>4, <2>2, Constants DEF Holds, LeadsVideo, LeadsKeys
  <2> QED BY <2>3, <2>4 DEF b
<1> QED BY <1>2, <1>3, <1>4

\* A step of one request that takes no flight and gives up none.
LEMMA QuietStep ==
  ASSUME IInv, current' = current, flight' = flight, CachesOK',
         \/ cache'["wbi_keys"] = cache["wbi_keys"] \/ cache'["wbi_keys"] = <<>>
         \/ \A d \in Calls : ~Loads(call'[d]),
         NEW c \in Calls, NEW b, Moved(c, b), RecOK(b),
         \A q \in Resources : Holds(b, q) => Holds(call[c], q),
         Loads(b) => Loads(call[c])
  PROVE  IInv'
<1>1. call' = [d \in Calls |-> call'[d]] /\ \A d \in Calls : call'[d] = IF d = c THEN b ELSE call[d]
  BY DEF IInv, CallsOK, Moved
<1>2. CallsOK'
  <2>1. ASSUME NEW d \in Calls
        PROVE  RecOK(call'[d])
    BY <1>1 DEF IInv, CallsOK
  <2> QED BY <1>1, <2>1 DEF CallsOK, RecOK
<1>3. FlightsOK'
  BY DEF IInv, FlightsOK
<1>4. LeadersOK'
  BY <1>1 DEF IInv, LeadersOK
<1>5. \A d \in Calls : Loads(call'[d]) => Loads(call[d])
  BY <1>1
<1>6. LoadingOK'
  BY <1>5 DEF IInv, LoadingOK
<1> QED BY <1>2, <1>3, <1>4, <1>6 DEF IInv

-----------------------------------------------------------------------------
(* The actions.                                                            *)

LEMMA CallFacts ==
  ASSUME IInv, NEW c \in Calls
  PROVE  /\ RecOK(call[c]) /\ call[c] \in CallRecs /\ current \in Nat /\ current >= 1
         /\ CallsOK /\ CachesOK /\ FlightsOK
         /\ call[c].pc \in {"look", "wait", "load", "store", "settle", "pop"} => call[c].at \in Resources
  BY DEF IInv, CallsOK, RecOK, Resources

LEMMA CallEntry ==
  ASSUME IInv, NEW r \in Resources, Entry(r) # {}
  PROVE  cache[Namespace(r)] # <<>> /\ (r = Keys => \A d \in Calls : ~Loads(call[d]))
<1>1. cache[Namespace(r)] # <<>>
  BY DEF Entry, Range
<1>2. r = Keys => \A d \in Calls : ~Loads(call[d])
  BY <1>1 DEF IInv, LoadingOK, Namespace
<1> QED BY <1>1, <1>2

LEMMA RequestStep ==
  ASSUME IInv, NEW c \in Calls, NEW x \in Videos \union {Space}, Request(c, x)
  PROVE  IInv'
<1>1. PICK b : b = [Idle EXCEPT !.pc = "look", !.for = x, !.at = IF x = Space THEN Keys ELSE x]
  OBVIOUS
<1>2. /\ b.pc = "look" /\ b.for = x /\ b.at = (IF x = Space THEN Keys ELSE x) /\ b.keys = 0
      /\ b.attempt = 0 /\ b.got = 0 /\ b \in CallRecs
  <2>1. (IF x = Space THEN Keys ELSE x) \in Resources
    BY Constants
  <2>2. b = [pc |-> "look", for |-> x, at |-> IF x = Space THEN Keys ELSE x,
             keys |-> 0, attempt |-> 0, got |-> 0]
    BY <1>1 DEF Idle, Error
  <2> QED BY <2>1, <2>2 DEF CallRecs, Places
<1>3. Moved(c, b)
  BY <1>1 DEF Request, Moved
<1>4. RecOK(b) /\ ~Loads(b)
  BY <1>2, CallFacts, Constants DEF RecOK, Loads
<1>5. \A q \in Resources : ~Holds(b, q)
  BY <1>2, Constants DEF Holds, LeadsKeys, LeadsVideo
<1>6. CachesOK' /\ current' = current /\ flight' = flight /\ cache' = cache
  BY DEF Request, IInv, CachesOK
<1> QED BY <1>3, <1>4, <1>5, <1>6, QuietStep

LEMMA HitStep ==
  ASSUME IInv, NEW c \in Calls, Hit(c)
  PROVE  IInv'
<1>1. PICK r : r = call[c].at
  OBVIOUS
<1>2. r \in Resources /\ call[c].pc = "look" /\ current' = current /\ flight' = flight
  BY <1>1, CallFacts DEF Hit
<1>3. PICK e \in Entry(r) : /\ cache' = [cache EXCEPT ![Namespace(r)] = Append(Without(r), e)]
                            /\ call' = [call EXCEPT ![c] = Returned(c, r, e.value)]
  BY <1>1 DEF Hit
<1>4. /\ Without(r) \in Seq(EntriesOf(r)) /\ (r = Keys => Without(r) = <<>>)
      /\ e \in EntriesOf(r) /\ e.value \in Nat
  BY <1>2, CallFacts, CacheOf
<1>5. r = Keys => e.value <= current
  BY <1>4, CallFacts DEF EntriesOf, Entries
<1>6. PICK s : s = Append(Without(r), e)
  OBVIOUS
<1>7. s \in Seq(EntriesOf(r))
  BY <1>4, <1>6
<1>8. r = Keys => Len(s) <= 1
  BY <1>4, <1>6
<1>9. CachesOK' /\ (r # Keys => cache'["wbi_keys"] = cache["wbi_keys"])
  BY <1>2, <1>3, <1>6, <1>7, <1>8, CallFacts, CacheSet
<1>10. PICK b : b = Returned(c, r, e.value)
  OBVIOUS
<1>11. RecOK(b) /\ ~Loads(b) /\ \A q \in Resources : Holds(b, q) => Holds(call[c], q)
  BY <1>1, <1>2, <1>4, <1>5, <1>10, CallFacts, ReturnedRec
<1>12. Moved(c, b)
  BY <1>3, <1>10 DEF Moved
<1>13. ASSUME r = Keys, NEW d \in Calls
       PROVE  ~Loads(call'[d])
  <2>1. ~Loads(call[d])
    BY <1>2, <1>13, CallEntry
  <2>2. call'[d] = IF d = c THEN b ELSE call[d]
    BY <1>12, CallFacts DEF Moved, CallsOK
  <2> QED BY <1>11, <2>1, <2>2
<1> QED BY <1>2, <1>9, <1>11, <1>12, <1>13, QuietStep

\* A step that takes or gives up a flight, which nobody else holds.
LEMMA FlightStep ==
  ASSUME IInv, current' = current, CachesOK', FlightsOK',
         NEW c \in Calls, NEW b, Moved(c, b), RecOK(b),
         \A q \in Resources : Holds(b, q) => flight'[q].leader = c,
         \A q \in Resources, d \in Calls \ {c} :
            Holds(call[d], q) => flight'[q].leader = flight[q].leader,
         \A d \in Calls : Loads(call'[d]) => cache'["wbi_keys"] = <<>>
  PROVE  IInv'
<1>1. call' = [d \in Calls |-> call'[d]] /\ \A d \in Calls : call'[d] = IF d = c THEN b ELSE call[d]
  BY DEF IInv, CallsOK, Moved
<1>2. CallsOK'
  <2>1. ASSUME NEW d \in Calls
        PROVE  RecOK(call'[d])
    BY <1>1 DEF IInv, CallsOK
  <2> QED BY <1>1, <2>1 DEF CallsOK, RecOK
<1>3. LeadersOK'
  <2> SUFFICES ASSUME NEW d \in Calls, NEW q \in Resources, Holds(call'[d], q)
               PROVE  flight'[q].leader = d
    BY DEF LeadersOK, Holds, LeadsKeys, LeadsVideo
  <2>1. CASE d = c
    BY <1>1, <2>1
  <2>2. CASE d # c
    <3>1. Holds(call[d], q)
      BY <1>1, <2>2
    <3> QED BY <2>2, <3>1 DEF IInv, LeadersOK
  <2> QED BY <2>1, <2>2
<1>4. LoadingOK'
  BY DEF LoadingOK, Loads
<1> QED BY <1>2, <1>3, <1>4 DEF IInv

LEMMA LeadStep ==
  ASSUME IInv, NEW c \in Calls, Miss(c), flight[call[c].at] = NoFlight, Lead(c, call[c].at)
  PROVE  IInv'
<1>1. PICK r : r = call[c].at
  OBVIOUS
<1>2. r \in Resources /\ call[c].pc = "look" /\ current' = current
  BY <1>1, CallFacts DEF Miss
<1>3. PICK b : b = [call[c] EXCEPT !.pc = IF r = Keys THEN "load" ELSE "look", !.at = Keys]
  OBVIOUS
<1>4. /\ b.pc = (IF r = Keys THEN "load" ELSE "look") /\ b.at = Keys /\ b.for = call[c].for
      /\ b.keys = call[c].keys /\ b.attempt = call[c].attempt /\ b.got = call[c].got /\ b \in CallRecs
  <2>1. Keys \in Resources
    BY Constants
  <2> QED BY <1>3, <2>1, CallFacts DEF CallRecs, Places
<1>5. Moved(c, b)
  BY <1>1, <1>3 DEF Lead, Moved
<1>6. RecOK(b) /\ (Loads(b) => r = Keys)
  BY <1>2, <1>4, CallFacts, Constants DEF RecOK, Loads
<1>7. /\ CachesOK' /\ (r = Keys => cache'["wbi_keys"] = <<>>)
      /\ r # Keys => cache'["wbi_keys"] = cache["wbi_keys"]
  <2>1. PICK s : s = Without(r)
    OBVIOUS
  <2>2. s \in Seq(EntriesOf(r)) /\ (r = Keys => s = <<>>)
    BY <1>2, <2>1, CallFacts, CacheOf
  <2>3. r = Keys => Len(s) <= 1
    BY <2>2
  <2>4. cache' = [cache EXCEPT ![Namespace(r)] = s]
    BY <1>1, <2>1 DEF Miss
  <2> QED BY <1>2, <2>2, <2>3, <2>4, CallFacts, CacheSet
<1>8. flight' = [flight EXCEPT ![r] = [leader |-> c, done |-> FALSE, value |-> Error]]
  BY <1>1 DEF Lead
<1>9. /\ flight'[r] = [leader |-> c, done |-> FALSE, value |-> Error]
      /\ \A q \in Resources \ {r} : flight'[q] = flight[q]
      /\ flight' \in [Resources -> Flights]
  BY <1>2, <1>8, CallFacts DEF FlightsOK, Flights, Error
<1>10. FlightsOK'
  <2>1. flight'[Keys].value <= current
    <3>1. CASE r = Keys
      BY <1>9, <3>1, CallFacts DEF Error
    <3>2. CASE r # Keys
      BY <1>9, <3>2, CallFacts, Constants DEF FlightsOK
    <3> QED BY <3>1, <3>2
  <2> QED BY <1>2, <1>9, <2>1 DEF FlightsOK
<1>11. ASSUME NEW q \in Resources, Holds(b, q)
       PROVE  flight'[q].leader = c
  <2>1. CASE q = r
    BY <1>9, <2>1
  <2>2. CASE q # r
    <3>1. Holds(call[c], q)
      BY <1>1, <1>2, <1>4, <1>11, <2>2, CallFacts, Constants DEF Holds, LeadsKeys, LeadsVideo, RecOK
    <3>2. flight[q].leader = c
      BY <3>1 DEF IInv, LeadersOK
    <3> QED BY <1>9, <2>2, <3>2
  <2> QED BY <2>1, <2>2
<1>12. ASSUME NEW q \in Resources, NEW d \in Calls \ {c}, Holds(call[d], q)
       PROVE  flight'[q].leader = flight[q].leader
  <2>1. flight[q].leader = d
    BY <1>12 DEF IInv, LeadersOK
  <2>2. flight[r].leader = None
    BY <1>1 DEF NoFlight
  <2>3. q # r
    BY <2>1, <2>2, Constants
  <2> QED BY <1>9, <2>3
<1>13. ASSUME NEW d \in Calls, Loads(call'[d])
       PROVE  cache'["wbi_keys"] = <<>>
  <2>1. call'[d] = IF d = c THEN b ELSE call[d]
    BY <1>5, CallFacts DEF Moved, CallsOK
  <2>2. CASE r = Keys
    BY <1>7, <2>2
  <2>3. CASE r # Keys
    <3>1. Loads(call[d])
      BY <1>6, <1>13, <2>1, <2>3
    <3> QED BY <1>7, <2>3, <3>1 DEF IInv, LoadingOK
  <2> QED BY <2>2, <2>3
<1> QED BY <1>2, <1>5, <1>6, <1>7, <1>10, <1>11, <1>12, <1>13, FlightStep

LEMMA MissStep ==
  ASSUME IInv, NEW c \in Calls, Miss(c)
  PROVE  IInv'
<1>1. PICK r : r = call[c].at
  OBVIOUS
<1>2. r \in Resources /\ call[c].pc = "look" /\ current' = current /\ Join(c, r)
  BY <1>1, CallFacts DEF Miss
<1>3. CASE flight[r] = NoFlight /\ Lead(c, r)
  BY <1>1, <1>3, LeadStep
<1>4. ASSUME call' = [call EXCEPT ![c] =
                 IF flight[r].done THEN Returned(c, r, flight[r].value) ELSE [@ EXCEPT !.pc = "wait"]],
             flight' = flight
      PROVE  IInv'
  <2>1. /\ CachesOK' /\ (r = Keys => cache'["wbi_keys"] = <<>>)
        /\ r # Keys => cache'["wbi_keys"] = cache["wbi_keys"]
    <3>1. PICK s : s = Without(r)
      OBVIOUS
    <3>2. s \in Seq(EntriesOf(r)) /\ (r = Keys => s = <<>>)
      BY <1>2, <3>1, CallFacts, CacheOf
    <3>3. r = Keys => Len(s) <= 1
      BY <3>2
    <3>4. cache' = [cache EXCEPT ![Namespace(r)] = s]
      BY <1>1, <3>1 DEF Miss
    <3> QED BY <1>2, <3>2, <3>3, <3>4, CallFacts, CacheSet
  <2>2. CASE flight[r].done
    <3>1. flight[r].value \in Nat /\ (r = Keys => flight[r].value <= current)
      BY <1>2, CallFacts DEF FlightsOK, Flights
    <3>2. PICK b : b = Returned(c, r, flight[r].value)
      OBVIOUS
    <3>3. RecOK(b) /\ ~Loads(b) /\ \A q \in Resources : Holds(b, q) => Holds(call[c], q)
      BY <1>1, <1>2, <3>1, <3>2, CallFacts, ReturnedRec
    <3>4. Moved(c, b)
      BY <1>4, <2>2, <3>2 DEF Moved
    <3> QED BY <1>2, <1>4, <2>1, <3>3, <3>4, QuietStep
  <2>3. CASE ~flight[r].done
    <3>1. PICK b : b = [call[c] EXCEPT !.pc = "wait"]
      OBVIOUS
    <3>2. /\ b.pc = "wait" /\ b.at = call[c].at /\ b.for = call[c].for /\ b.keys = call[c].keys
          /\ b.attempt = call[c].attempt /\ b.got = call[c].got /\ b \in CallRecs
      BY <3>1, CallFacts DEF CallRecs, Places
    <3>3. RecOK(b) /\ ~Loads(b) /\ \A q \in Resources : Holds(b, q) => Holds(call[c], q)
      BY <1>2, <3>2, CallFacts DEF RecOK, Loads, Holds, LeadsKeys, LeadsVideo
    <3>4. Moved(c, b)
      BY <1>4, <2>3, <3>1 DEF Moved
    <3> QED BY <1>2, <1>4, <2>1, <3>3, <3>4, QuietStep
  <2> QED BY <2>2, <2>3
<1> QED BY <1>2, <1>3, <1>4 DEF Join

LEMMA LoadKeysStep ==
  ASSUME IInv, NEW c \in Calls, LoadKeys(c)
  PROVE  IInv'
<1>1. call[c].pc = "load" /\ current' = current /\ flight' = flight /\ cache' = cache
  BY DEF LoadKeys
<1>2. CachesOK' /\ call[c].at = Keys
  BY <1>1, CallFacts DEF CachesOK, RecOK
<1>3. PICK place, got : /\ call' = [call EXCEPT ![c].pc = place, ![c].got = got]
                        /\ (place = "store" /\ got = current) \/ (place = "settle" /\ got = Error)
  <2>1. CASE call' = [call EXCEPT ![c].pc = "store", ![c].got = current]
    BY <2>1
  <2>2. CASE call' = [call EXCEPT ![c].pc = "settle", ![c].got = Error]
    BY <2>2
  <2> QED BY <2>1, <2>2 DEF LoadKeys
<1>4. PICK b : b = [call[c] EXCEPT !.pc = place, !.got = got]
  OBVIOUS
<1>5. /\ b.pc = place /\ b.at = Keys /\ b.for = call[c].for /\ b.keys = call[c].keys
      /\ b.attempt = call[c].attempt /\ b.got = got /\ b \in CallRecs
  <2>1. place \in Places /\ got \in Nat
    BY <1>3, CallFacts DEF Places, Error
  <2> QED BY <1>2, <1>4, <2>1, CallFacts DEF CallRecs
<1>6. RecOK(b)
  BY <1>1, <1>3, <1>5, CallFacts DEF RecOK, Error
<1>7. (Loads(b) => Loads(call[c])) /\ \A q \in Resources : Holds(b, q) => Holds(call[c], q)
  BY <1>1, <1>2, <1>3, <1>5 DEF Loads, Holds, LeadsKeys, LeadsVideo
<1>8. Moved(c, b)
  BY <1>3, <1>4 DEF Moved
<1> QED BY <1>1, <1>2, <1>6, <1>7, <1>8, QuietStep

\* Only one request stores keys, and nobody loads them then.
LEMMA OneKeyLoader ==
  ASSUME IInv, NEW c \in Calls, NEW d \in Calls, LeadsKeys(call[c]), LeadsKeys(call[d])
  PROVE  c = d
BY Constants DEF IInv, LeadersOK, Holds

LEMMA StoreStep ==
  ASSUME IInv, NEW c \in Calls, Store(c)
  PROVE  IInv'
<1>1. PICK r : r = call[c].at
  OBVIOUS
<1>2. r \in Resources /\ call[c].pc = "store" /\ current' = current /\ flight' = flight
  BY <1>1, CallFacts DEF Store
<1>3. PICK b : b = [call[c] EXCEPT !.pc = "settle"]
  OBVIOUS
<1>4. /\ b.pc = "settle" /\ b.at = call[c].at /\ b.for = call[c].for /\ b.keys = call[c].keys
      /\ b.attempt = call[c].attempt /\ b.got = call[c].got /\ b \in CallRecs
  BY <1>3, CallFacts DEF CallRecs, Places
<1>5. RecOK(b) /\ ~Loads(b) /\ \A q \in Resources : Holds(b, q) => Holds(call[c], q)
  BY <1>2, <1>4, CallFacts DEF RecOK, Loads, Holds, LeadsKeys, LeadsVideo
<1>6. Moved(c, b)
  BY <1>3 DEF Store, Moved
<1>7. PICK s : s = Stored(r, call[c].got)
  OBVIOUS
<1>8. /\ call[c].got \in Nat /\ call[c].got # Error /\ (r = Keys => call[c].got <= current)
  BY <1>1, <1>2, CallFacts, Constants DEF RecOK, CallRecs
<1>9. s \in Seq(EntriesOf(r)) /\ (r = Keys => Len(s) <= 1)
  BY <1>2, <1>7, <1>8, CallFacts, StoredType
<1>10. cache' = [cache EXCEPT ![Namespace(r)] = s]
  BY <1>1, <1>7 DEF Store
<1>11. CachesOK' /\ (r # Keys => cache'["wbi_keys"] = cache["wbi_keys"])
  BY <1>2, <1>9, <1>10, CallFacts, CacheSet
<1>12. ASSUME r = Keys, NEW d \in Calls
       PROVE  ~Loads(call'[d])
  <2>1. call'[d] = IF d = c THEN b ELSE call[d]
    BY <1>6, CallFacts DEF Moved, CallsOK
  <2>2. CASE d = c
    BY <1>5, <2>1, <2>2
  <2>3. CASE d # c
    <3>1. LeadsKeys(call[c]) /\ (Loads(call[d]) => LeadsKeys(call[d]))
      BY <1>1, <1>2, <1>12 DEF LeadsKeys, Loads
    <3> QED BY <2>1, <2>3, <3>1, OneKeyLoader
  <2> QED BY <2>2, <2>3
<1> QED BY <1>2, <1>5, <1>6, <1>11, <1>12, QuietStep

LEMMA SettleStep ==
  ASSUME IInv, NEW c \in Calls, Settle(c)
  PROVE  IInv'
<1>1. PICK r, got : r = call[c].at /\ got = call[c].got
  OBVIOUS
<1>2. r \in Resources /\ call[c].pc = "settle" /\ current' = current /\ cache' = cache
  BY <1>1, CallFacts DEF Settle
<1>3. got \in Nat /\ (r = Keys => got <= current)
  BY <1>1, <1>2, CallFacts, Constants DEF RecOK, CallRecs
<1>4. call' = [w \in Calls |-> IF w = c THEN [call[c] EXCEPT !.pc = "pop"]
                               ELSE IF Waits(w, r) THEN Returned(w, r, got) ELSE call[w]]
  BY <1>1 DEF Settle
<1>5. ASSUME NEW w \in Calls
      PROVE  /\ RecOK(call'[w]) /\ (Loads(call'[w]) => Loads(call[w]))
             /\ \A q \in Resources : Holds(call'[w], q) => Holds(call[w], q)
  <2>1. CASE w = c
    <3>1. PICK b : b = [call[c] EXCEPT !.pc = "pop"]
      OBVIOUS
    <3>2. /\ b.pc = "pop" /\ b.at = call[c].at /\ b.for = call[c].for /\ b.keys = call[c].keys
          /\ b.attempt = call[c].attempt /\ b.got = call[c].got /\ b \in CallRecs
      BY <3>1, CallFacts DEF CallRecs, Places
    <3>3. RecOK(b) /\ ~Loads(b) /\ \A q \in Resources : Holds(b, q) => Holds(call[c], q)
      BY <1>2, <3>2, CallFacts DEF RecOK, Loads, Holds, LeadsKeys, LeadsVideo
    <3>4. call'[w] = b
      BY <1>4, <2>1, <3>1
    <3> QED BY <2>1, <3>3, <3>4
  <2>2. CASE w # c /\ Waits(w, r)
    <3>1. call'[w] = Returned(w, r, got) /\ call[w].pc = "wait" /\ call[w].at = r
      BY <1>4, <2>2 DEF Waits
    <3>2. PICK b : b = Returned(w, r, got)
      OBVIOUS
    <3>3. RecOK(b) /\ ~Loads(b) /\ \A q \in Resources : Holds(b, q) => Holds(call[w], q)
      BY <1>3, <3>1, <3>2, CallFacts, ReturnedRec
    <3> QED BY <3>1, <3>2, <3>3
  <2>3. CASE w # c /\ ~Waits(w, r)
    <3>1. call'[w] = call[w]
      BY <1>4, <2>3
    <3> QED BY <3>1, CallFacts
  <2> QED BY <2>1, <2>2, <2>3
<1>6. CallsOK'
  <2>1. call' = [w \in Calls |-> call'[w]]
    BY <1>4
  <2> QED BY <1>2, <1>5, <2>1 DEF CallsOK, RecOK
<1>7. flight' = [flight EXCEPT ![r].done = TRUE, ![r].value = got]
  BY <1>1 DEF Settle
<1>8. /\ flight' \in [Resources -> Flights] /\ \A q \in Resources : flight'[q].leader = flight[q].leader
      /\ flight'[r].value = got /\ \A q \in Resources \ {r} : flight'[q] = flight[q]
  BY <1>2, <1>3, <1>7, CallFacts DEF FlightsOK, Flights
<1>9. FlightsOK'
  <2>1. flight'[Keys].value <= current
    <3>1. CASE r = Keys
      BY <1>3, <1>8, <3>1
    <3>2. CASE r # Keys
      BY <1>8, <3>2, CallFacts, Constants DEF FlightsOK
    <3> QED BY <3>1, <3>2
  <2> QED BY <1>2, <1>8, <2>1 DEF FlightsOK
<1>10. CachesOK'
  BY <1>2, CallFacts DEF CachesOK
<1>11. LeadersOK'
  <2> SUFFICES ASSUME NEW d \in Calls, NEW q \in Resources, Holds(call'[d], q)
               PROVE  flight'[q].leader = d
    BY DEF LeadersOK, Holds, LeadsKeys, LeadsVideo
  <2>1. Holds(call[d], q)
    BY <1>5
  <2> QED BY <1>8, <2>1 DEF IInv, LeadersOK
<1>12. LoadingOK'
  <2> SUFFICES ASSUME NEW d \in Calls, Loads(call'[d])
               PROVE  cache'["wbi_keys"] = <<>>
    BY DEF LoadingOK, Loads
  <2>1. Loads(call[d])
    BY <1>5
  <2> QED BY <1>2, <2>1 DEF IInv, LoadingOK
<1> QED BY <1>2, <1>6, <1>9, <1>10, <1>11, <1>12 DEF IInv

LEMMA PopStep ==
  ASSUME IInv, NEW c \in Calls, Pop(c)
  PROVE  IInv'
<1>1. PICK r : r = call[c].at
  OBVIOUS
<1>2. r \in Resources /\ call[c].pc = "pop" /\ current' = current /\ cache' = cache
  BY <1>1, CallFacts DEF Pop
<1>3. call[c].got \in Nat /\ (r = Keys => call[c].got <= current)
  BY <1>1, <1>2, CallFacts, Constants DEF RecOK, CallRecs
<1>4. PICK b : b = Returned(c, r, call[c].got)
  OBVIOUS
<1>5. RecOK(b) /\ ~Loads(b) /\ \A q \in Resources : Holds(b, q) => q # r /\ Holds(call[c], q)
  BY <1>1, <1>2, <1>3, <1>4, CallFacts, ReturnedRec
<1>6. Moved(c, b)
  BY <1>1, <1>4 DEF Pop, Moved
<1>7. /\ flight'[r] = NoFlight /\ \A q \in Resources \ {r} : flight'[q] = flight[q]
      /\ flight' \in [Resources -> Flights]
  BY <1>1, <1>2, CallFacts DEF Pop, FlightsOK, Flights, NoFlight, Error
<1>8. FlightsOK'
  <2>1. flight'[Keys].value <= current
    <3>1. CASE r = Keys
      BY <1>7, <3>1, CallFacts DEF NoFlight, Error
    <3>2. CASE r # Keys
      BY <1>7, <3>2, CallFacts, Constants DEF FlightsOK
    <3> QED BY <3>1, <3>2
  <2> QED BY <1>2, <1>7, <2>1 DEF FlightsOK
<1>9. CachesOK'
  BY <1>2, CallFacts DEF CachesOK
<1>10. ASSUME NEW q \in Resources, Holds(b, q)
       PROVE  flight'[q].leader = c
  <2>1. q # r /\ flight[q].leader = c
    BY <1>5, <1>10 DEF IInv, LeadersOK
  <2> QED BY <1>7, <2>1
<1>11. Holds(call[c], r)
  BY <1>1, <1>2, CallFacts, Constants DEF RecOK, Holds, LeadsKeys, LeadsVideo
<1>12. ASSUME NEW q \in Resources, NEW d \in Calls \ {c}, Holds(call[d], q)
       PROVE  flight'[q].leader = flight[q].leader
  <2>1. q # r
    BY <1>2, <1>11, <1>12 DEF IInv, LeadersOK
  <2> QED BY <1>7, <2>1
<1>13. ASSUME NEW d \in Calls, Loads(call'[d])
       PROVE  cache'["wbi_keys"] = <<>>
  <2>1. call'[d] = IF d = c THEN b ELSE call[d]
    BY <1>6, CallFacts DEF Moved, CallsOK
  <2>2. Loads(call[d])
    BY <1>5, <1>13, <2>1
  <2> QED BY <1>2, <2>2 DEF IInv, LoadingOK
<1> QED BY <1>2, <1>5, <1>6, <1>8, <1>9, <1>10, <1>12, <1>13, FlightStep

-----------------------------------------------------------------------------
(* The attempts, and the world.                                            *)

\* Nothing but the request changes.
LEMMA PlainStep ==
  ASSUME IInv, UNCHANGED <<current, cache, flight>>, NEW c \in Calls, NEW b, Moved(c, b), RecOK(b),
         \A q \in Resources : Holds(b, q) => Holds(call[c], q), Loads(b) => Loads(call[c])
  PROVE  IInv'
<1>1. CachesOK'
  BY CallFacts DEF CachesOK, IInv
<1> QED BY <1>1, QuietStep

LEMMA EndsStep ==
  ASSUME IInv, UNCHANGED <<current, cache, flight>>, NEW c \in Calls, NEW place, NEW got,
         (place = "store" /\ got = Payload) \/ (place = "settle" /\ got = Error),
         call[c].pc \in {"sign", "rejected"}, Ends(c, place, got)
  PROVE  IInv'
<1>1. CASE call[c].for = Space
  <2>1. Moved(c, Idle)
    BY <1>1 DEF Ends, Moved
  <2> QED BY <2>1, CallFacts, IdleRec, PlainStep
<1>2. CASE call[c].for # Space
  <2>1. PICK b : b = [call[c] EXCEPT !.pc = place, !.got = got]
    OBVIOUS
  <2>2. /\ b.pc = place /\ b.at = call[c].at /\ b.for = call[c].for /\ b.keys = call[c].keys
        /\ b.attempt = call[c].attempt /\ b.got = got /\ b \in CallRecs
    <3>1. place \in Places /\ got \in Nat
      BY DEF Places, Payload, Error
    <3> QED BY <2>1, <3>1, CallFacts DEF CallRecs
  <2>3. call[c].at = call[c].for /\ call[c].for \in Videos
    BY <1>2, CallFacts DEF RecOK
  <2>4. RecOK(b) /\ ~Loads(b)
    BY <2>2, <2>3, CallFacts, Constants DEF RecOK, Loads, Payload, Error
  <2>5. \A q \in Resources : Holds(b, q) => Holds(call[c], q)
    BY <2>2, <2>3, Constants DEF Holds, LeadsKeys, LeadsVideo
  <2>6. Moved(c, b)
    BY <1>2, <2>1 DEF Ends, Moved
  <2> QED BY <2>4, <2>5, <2>6, PlainStep
<1> QED BY <1>1, <1>2

LEMMA RefusedStep ==
  ASSUME IInv, NEW c \in Calls, Refused(c) \/ RiskControl(c)
  PROVE  IInv'
<1>1. PICK place \in {"sign", "refresh", "rejected"} :
        /\ call' = [call EXCEPT ![c].pc = place, ![c].attempt = 1]
        /\ place = "refresh" => call[c].keys # current
  <2>1. CASE Refused(c)
    <3>1. CASE call[c].attempt = 0
      BY <2>1, <3>1 DEF Refused
    <3>2. CASE call[c].attempt # 0
      BY <2>1, <3>2 DEF Refused
    <3> QED BY <3>1, <3>2
  <2>2. CASE RiskControl(c)
    <3>1. call[c] = [call[c] EXCEPT !.pc = "sign"]
      BY <2>2, CallFacts DEF RiskControl, CallRecs
    <3>2. call' = [call EXCEPT ![c].pc = "sign", ![c].attempt = 1]
      BY <2>2, <3>1 DEF RiskControl
    <3> QED BY <3>2
  <2> QED BY <2>1, <2>2
<1>2. call[c].pc = "sign" /\ UNCHANGED <<current, cache, flight>>
  BY DEF Refused, RiskControl
<1>3. PICK b : b = [call[c] EXCEPT !.pc = place, !.attempt = 1]
  OBVIOUS
<1>4. /\ b.pc = place /\ b.at = call[c].at /\ b.for = call[c].for /\ b.keys = call[c].keys
      /\ b.attempt = 1 /\ b.got = call[c].got /\ b \in CallRecs
  <2>1. place \in Places /\ 1 \in 0..1
    BY DEF Places
  <2> QED BY <1>3, <2>1, CallFacts DEF CallRecs
<1>5. RecOK(b) /\ ~Loads(b)
  BY <1>1, <1>2, <1>4, CallFacts DEF RecOK, Loads, CallRecs
<1>6. \A q \in Resources : Holds(b, q) => Holds(call[c], q)
  BY <1>2, <1>4 DEF Holds, LeadsKeys, LeadsVideo
<1>7. Moved(c, b)
  BY <1>1, <1>3 DEF Moved
<1> QED BY <1>2, <1>5, <1>6, <1>7, PlainStep

LEMMA RefreshStep ==
  ASSUME IInv, NEW c \in Calls, Refresh(c)
  PROVE  IInv'
<1>1. call[c].pc = "refresh" /\ current' = current /\ flight' = flight
  BY DEF Refresh
<1>2. PICK b : b = [call[c] EXCEPT !.pc = "look", !.at = Keys]
  OBVIOUS
<1>3. /\ b.pc = "look" /\ b.at = Keys /\ b.for = call[c].for /\ b.keys = call[c].keys
      /\ b.attempt = call[c].attempt /\ b.got = call[c].got /\ b \in CallRecs
  <2>1. Keys \in Resources
    BY Constants
  <2> QED BY <1>2, <2>1, CallFacts DEF CallRecs, Places
<1>4. RecOK(b) /\ ~Loads(b)
  BY <1>1, <1>3, CallFacts, Constants DEF RecOK, Loads
<1>5. \A q \in Resources : Holds(b, q) => Holds(call[c], q)
  BY <1>1, <1>3 DEF Holds, LeadsKeys, LeadsVideo
<1>6. Moved(c, b)
  BY <1>2 DEF Refresh, Moved
<1>7. CachesOK' /\ (cache'["wbi_keys"] = cache["wbi_keys"] \/ cache'["wbi_keys"] = <<>>)
  <2>1. CASE cache' = cache
    BY <1>1, <2>1, CallFacts DEF CachesOK
  <2>2. CASE cache' = [cache EXCEPT !["wbi_keys"] = Without(Keys)]
    <3>1. PICK s : s = Without(Keys)
      OBVIOUS
    <3>2. s \in Seq(EntriesOf(Keys)) /\ s = <<>> /\ Len(s) <= 1
      BY <3>1, CallFacts, Constants, CacheOf
    <3>3. cache' = [cache EXCEPT ![Namespace(Keys)] = s]
      BY <2>2, <3>1 DEF Namespace
    <3> QED BY <1>1, <3>2, <3>3, CallFacts, Constants, CacheSet
  <2> QED BY <2>1, <2>2 DEF Refresh
<1> QED BY <1>1, <1>4, <1>5, <1>6, <1>7, QuietStep

LEMMA RotateStep ==
  ASSUME IInv, Rotate
  PROVE  IInv'
<1>1. /\ current' = current + 1 /\ cache' = cache /\ flight' = flight /\ call' = call
      /\ current \in Nat /\ current >= 1
  BY DEF Rotate, IInv
<1>2. current' \in Nat \ {0}
  BY <1>1
<1>3. CallsOK'
  <2>1. ASSUME NEW d \in Calls
        PROVE  RecOK(call[d])'
    <3>1. RecOK(call[d]) /\ call'[d] = call[d] /\ call[d] \in CallRecs
      BY <1>1, CallFacts
    <3>2. call[d].keys \in Nat /\ call[d].got \in Nat
      BY <3>1 DEF CallRecs
    <3> QED BY <1>1, <3>1, <3>2 DEF RecOK
  <2> QED BY <1>1, <2>1 DEF CallsOK, IInv
<1>4. FlightsOK'
  <2>1. flight[Keys].value \in Nat /\ flight[Keys].value <= current
    BY Constants DEF IInv, FlightsOK, Flights
  <2> QED BY <1>1, <2>1 DEF IInv, FlightsOK
<1>5. CachesOK'
  <2>1. Entries({Keys}, 1..current) \subseteq Entries({Keys}, 1..current')
    BY <1>1 DEF Entries
  <2>2. cache["wbi_keys"] \in Seq(Entries({Keys}, 1..current'))
    <3>1. PICK A, B : A = Entries({Keys}, 1..current) /\ B = Entries({Keys}, 1..current')
      OBVIOUS
    <3>2. cache["wbi_keys"] \in Seq(A) /\ A \subseteq B
      BY <2>1, <3>1 DEF IInv, CachesOK
    <3>3. cache["wbi_keys"] \in Seq(B)
      BY <3>2
    <3> QED BY <3>1, <3>3
  <2> QED BY <1>1, <2>2 DEF IInv, CachesOK
<1>6. LeadersOK' /\ LoadingOK'
  BY <1>1 DEF IInv, LeadersOK, LoadingOK
<1> QED BY <1>2, <1>3, <1>4, <1>5, <1>6 DEF IInv

LEMMA OldEntry ==
  ASSUME NEW keys, NEW values, NEW e \in Entries(keys, values)
  PROVE  [e EXCEPT !.old = TRUE] \in Entries(keys, values)
BY DEF Entries

LEMMA AgeStep ==
  ASSUME IInv, NEW r \in Resources, Age(r)
  PROVE  IInv'
<1>1. current' = current /\ flight' = flight /\ call' = call /\ Entry(r) # {} /\ current \in Nat /\ CachesOK
  BY DEF Age, IInv
<1>2. PICK all : all = cache[Namespace(r)]
  OBVIOUS
<1>3. PICK s : s = [i \in DOMAIN all |-> IF all[i].key = r THEN [all[i] EXCEPT !.old = TRUE] ELSE all[i]]
  OBVIOUS
<1>4. cache' = [cache EXCEPT ![Namespace(r)] = s]
  BY <1>2, <1>3 DEF Age
<1>5. all \in Seq(EntriesOf(r)) /\ (r = Keys => Len(all) <= 1)
  BY <1>1, <1>2, CacheOf DEF CachesOK, Namespace
<1>6. ASSUME NEW i \in 1..Len(all)
      PROVE  s[i] \in EntriesOf(r)
  <2>1. all[i] \in EntriesOf(r)
    BY <1>5
  <2>2. [all[i] EXCEPT !.old = TRUE] \in EntriesOf(r)
    <3>1. CASE r = Keys
      BY <2>1, <3>1, OldEntry DEF EntriesOf
    <3>2. CASE r # Keys
      BY <2>1, <3>2, OldEntry DEF EntriesOf
    <3> QED BY <3>1, <3>2
  <2>3. i \in DOMAIN all /\ s[i] = IF all[i].key = r THEN [all[i] EXCEPT !.old = TRUE] ELSE all[i]
    <3>1. i \in DOMAIN all
      BY <1>5
    <3> QED BY <1>3, <3>1, Zenon
  <2> QED BY <2>1, <2>2, <2>3
<1>7. s \in Seq(EntriesOf(r)) /\ Len(s) = Len(all)
  <2>1. DOMAIN all = 1..Len(all) /\ Len(all) \in Nat
    BY <1>5
  <2>2. s \in [1..Len(all) -> EntriesOf(r)]
    BY <1>3, <1>6, <2>1
  <2> QED BY <2>1, <2>2
<1>8. CachesOK' /\ (r # Keys => cache'["wbi_keys"] = cache["wbi_keys"])
  <2>1. r = Keys => Len(s) <= 1
    BY <1>5, <1>7
  <2> QED BY <1>1, <1>4, <1>7, <2>1, CacheSet
<1>9. LoadingOK'
  <2>1. CASE r = Keys
    <3>1. \A d \in Calls : ~Loads(call[d])
      BY <1>1, <2>1, CallEntry
    <3> QED BY <1>1, <3>1 DEF LoadingOK
  <2>2. CASE r # Keys
    BY <1>1, <1>8, <2>2 DEF IInv, LoadingOK
  <2> QED BY <2>1, <2>2
<1>10. CallsOK' /\ FlightsOK' /\ LeadersOK'
  <2>1. CallsOK'
    BY <1>1 DEF IInv, CallsOK, RecOK
  <2>2. FlightsOK' /\ LeadersOK'
    BY <1>1 DEF IInv, FlightsOK, LeadersOK
  <2> QED BY <2>1, <2>2
<1> QED BY <1>1, <1>8, <1>9, <1>10 DEF IInv

-----------------------------------------------------------------------------
(* The theorems.                                                           *)

LEMMA InvInit ==
  Init => IInv
<1> SUFFICES ASSUME Init
             PROVE  IInv
  OBVIOUS
<1>1. current = 1
  BY DEF Init
<1>2. CallsOK /\ \A c \in Calls : call[c] = Idle
  BY <1>1, IdleRec DEF Init, CallsOK
<1>3. FlightsOK
  <2>1. NoFlight \in Flights /\ NoFlight.value <= current
    BY <1>1 DEF NoFlight, Flights, Error
  <2> QED BY <2>1, Constants DEF Init, FlightsOK
<1>4. CachesOK
  BY DEF Init, CachesOK
<1>5. LeadersOK /\ LoadingOK
  BY <1>1, <1>2, IdleRec DEF LeadersOK, LoadingOK
<1> QED BY <1>1, <1>2, <1>3, <1>4, <1>5 DEF IInv

LEMMA InvNext ==
  IInv /\ [Next]_vars => IInv'
<1> SUFFICES ASSUME IInv, [Next]_vars
             PROVE  IInv'
  OBVIOUS
<1>1. ASSUME NEW c \in Calls, Step(c)
      PROVE  IInv'
  <2>1. CASE Hit(c) \/ Miss(c)
    BY <2>1, HitStep, MissStep
  <2>2. CASE LoadKeys(c) \/ Store(c) \/ Settle(c) \/ Pop(c)
    BY <2>2, LoadKeysStep, StoreStep, SettleStep, PopStep
  <2>3. CASE Accepted(c)
    BY <2>3, EndsStep DEF Accepted
  <2>4. CASE Fails(c) \/ Rejected(c)
    BY <2>4, EndsStep DEF Fails, Rejected
  <2>5. CASE Refused(c) \/ RiskControl(c) \/ Refresh(c)
    BY <2>5, RefusedStep, RefreshStep
  <2> QED BY <1>1, <2>1, <2>2, <2>3, <2>4, <2>5 DEF Step
<1>2. ASSUME NEW c \in Calls, NEW x \in Videos \union {Space}, Request(c, x)
      PROVE  IInv'
  BY <1>2, RequestStep
<1>3. ASSUME NEW r \in Resources, Age(r)
      PROVE  IInv'
  BY <1>3, AgeStep
<1>4. CASE Rotate
  BY <1>4, RotateStep
<1>5. CASE UNCHANGED vars
  <2>1. /\ current' = current /\ cache' = cache /\ flight' = flight /\ call' = call
    BY <1>5 DEF vars
  <2> QED BY <2>1 DEF IInv, CallsOK, RecOK, FlightsOK, CachesOK, LeadersOK, LoadingOK
<1> QED BY <1>1, <1>2, <1>3, <1>4, <1>5 DEF Next

LEMMA Invariant == Spec => []IInv
<1> QED BY InvInit, InvNext, PTL DEF Spec

\* Every variable keeps its type, whatever a request finds in the caches and the flights.
THEOREM TypeCorrect == Spec => []TypeOK
<1>1. IInv => TypeOK
  <2> SUFFICES ASSUME IInv
               PROVE  TypeOK
    OBVIOUS
  <2>1. /\ current \in Nat
        /\ flight \in [Resources -> [leader : Calls \union {None}, done : BOOLEAN, value : Nat]]
    BY DEF IInv, FlightsOK, Flights
  <2>2. call \in [Calls -> CallRecs]
    BY DEF IInv, CallsOK, RecOK
  <2>3. ASSUME NEW n \in DOMAIN cache
        PROVE  Range(cache[n]) \subseteq
                 [key : {r \in Resources : Namespace(r) = n}, value : Nat \ {Error}, old : BOOLEAN]
    <3>1. n \in {"wbi_keys", "player"}
      BY DEF IInv, CachesOK
    <3>2. CASE n = "wbi_keys"
      <4>1. \A e \in Range(cache[n]) : e \in Entries({Keys}, 1..current)
        BY <3>2 DEF IInv, CachesOK, Range
      <4>2. 1..current \subseteq Nat \ {Error} /\ Keys \in {r \in Resources : Namespace(r) = n}
        BY <2>1, <3>2, Constants DEF Namespace, Error
      <4> QED BY <4>1, <4>2 DEF Entries
    <3>3. CASE n = "player"
      <4>1. \A e \in Range(cache[n]) : e \in Entries(Videos, Nat \ {Error})
        BY <3>3 DEF IInv, CachesOK, Range
      <4>2. Videos \subseteq {r \in Resources : Namespace(r) = n}
        BY <3>3, Constants DEF Namespace
      <4> QED BY <4>1, <4>2 DEF Entries
    <3> QED BY <3>1, <3>2, <3>3
  <2> QED BY <2>1, <2>2, <2>3 DEF TypeOK, CallRecs
<1> QED BY <1>1, Invariant, PTL

\* Two requests never load the same payload, nor the keys, at the same time: whoever loads
\* is the one the Future names, also while it waits for the keys inside its flight.
THEOREM LoadedOnce == Spec => []OneLoader
<1>1. IInv => OneLoader
  <2> SUFFICES ASSUME IInv
               PROVE  OneLoader
    OBVIOUS
  <2>1. ASSUME NEW c \in Calls, NEW d \in Calls, call[c].pc = "load", call[d].pc = "load"
        PROVE  c = d
    <3>1. LeadsKeys(call[c]) /\ LeadsKeys(call[d])
      BY <2>1, CallFacts DEF LeadsKeys, RecOK
    <3> QED BY <3>1, OneKeyLoader
  <2>2. ASSUME NEW c \in Calls, NEW d \in Calls,
               call[c].pc \in {"sign", "refresh"}, call[d].pc \in {"sign", "refresh"},
               call[c].for = call[d].for, call[c].for # Space
        PROVE  c = d
    <3>1. call[c].for \in Videos /\ call[c].for \in Resources /\ call[c].for # Keys
      BY <2>2, CallFacts, Constants DEF RecOK
    <3>2. Holds(call[c], call[c].for) /\ Holds(call[d], call[c].for)
      BY <2>2, <3>1 DEF Holds, LeadsVideo
    <3> QED BY <3>1, <3>2 DEF IInv, LeadersOK
  <2>3. ASSUME NEW c \in Calls, call[c].pc \in {"load", "store", "settle", "pop"}
        PROVE  flight[call[c].at].leader = c
    <3>1. call[c].at \in Resources /\ Holds(call[c], call[c].at)
      BY <2>3, CallFacts, Constants DEF RecOK, Holds, LeadsKeys, LeadsVideo
    <3> QED BY <3>1 DEF IInv, LeadersOK
  <2> QED BY <2>1, <2>2, <2>3 DEF OneLoader
<1> QED BY <1>1, Invariant, PTL

-----------------------------------------------------------------------------
(* What happens to the keys' entry.                                        *)

\* Nothing of the cache of the keys is touched.
LEMMA SameEntries ==
  ASSUME cache'["wbi_keys"] = cache["wbi_keys"]
  PROVE  Entry(Keys)' = Entry(Keys)
BY DEF Entry, Namespace

\* The cache of the keys becomes s.
LEMMA NewEntries ==
  ASSUME NEW s, cache'["wbi_keys"] = s
  PROVE  Entry(Keys)' = {e \in Range(s) : e.key = Keys}
BY DEF Entry, Namespace

\* The cache of the keys has one entry at most.
LEMMA OneEntry ==
  ASSUME IInv, NEW e \in Entry(Keys), NEW f \in Entry(Keys)
  PROVE  e = f
<1>1. cache["wbi_keys"] \in Seq(Entries({Keys}, 1..current)) /\ Len(cache["wbi_keys"]) <= 1
  BY DEF IInv, CachesOK
<1>2. PICK i \in DOMAIN cache["wbi_keys"], j \in DOMAIN cache["wbi_keys"] :
        e = cache["wbi_keys"][i] /\ f = cache["wbi_keys"][j]
  BY DEF Entry, Namespace, Range
<1>3. i = j
  BY <1>1, <1>2
<1> QED BY <1>2, <1>3

Kept(e) == \E f \in Entry(Keys)' : f.value = e.value

LEMMA HitKeeps ==
  ASSUME IInv, NEW c \in Calls, Hit(c), NEW e \in Entry(Keys)
  PROVE  Kept(e)
<1>1. PICK r : r = call[c].at
  OBVIOUS
<1>2. r \in Resources /\ current' = current
  BY <1>1, CallFacts DEF Hit
<1>3. PICK f \in Entry(r) : cache' = [cache EXCEPT ![Namespace(r)] = Append(Without(r), f)]
  BY <1>1 DEF Hit
<1>4. /\ Without(r) \in Seq(EntriesOf(r)) /\ (r = Keys => Without(r) = <<>>) /\ f \in EntriesOf(r)
  BY <1>2, CallFacts, CacheOf
<1>5. CASE r = Keys
  <2>1. cache'["wbi_keys"] = <<f>>
    BY <1>3, <1>4, <1>5, CallFacts DEF Namespace, CachesOK
  <2>2. f \in Entry(Keys)'
    <3>1. f \in Range(<<f>>) /\ f.key = Keys
      BY <1>5 DEF Range, Entry
    <3>2. PICK s : s = <<f>>
      OBVIOUS
    <3> QED BY <2>1, <3>1, <3>2, NewEntries
  <2>3. f = e
    BY <1>5, OneEntry
  <2> QED BY <2>2, <2>3 DEF Kept
<1>6. CASE r # Keys
  <2>1. cache'["wbi_keys"] = cache["wbi_keys"]
    BY <1>3, <1>6, CallFacts DEF Namespace, CachesOK
  <2> QED BY <2>1, SameEntries DEF Kept
<1> QED BY <1>5, <1>6

LEMMA MissKeeps ==
  ASSUME IInv, NEW c \in Calls, Miss(c), NEW e \in Entry(Keys), ~e.old
  PROVE  Kept(e)
<1>1. call[c].at # Keys
  BY DEF Miss
<1>2. cache' = [cache EXCEPT !["player"] = Without(call[c].at)]
  BY <1>1 DEF Miss, Namespace
<1>3. cache'["wbi_keys"] = cache["wbi_keys"]
  BY <1>2, CallFacts DEF CachesOK
<1> QED BY <1>3, SameEntries DEF Kept

LEMMA StoreKeeps ==
  ASSUME IInv, NEW c \in Calls, Store(c), NEW e \in Entry(Keys)
  PROVE  Kept(e)
<1>1. call[c].at # Keys
  <2>1. ~Loads(call[c])
    BY CallEntry, Constants
  <2> QED BY <2>1 DEF Loads, Store
<1>2. cache' = [cache EXCEPT !["player"] = Stored(call[c].at, call[c].got)]
  BY <1>1 DEF Store, Namespace
<1>3. cache'["wbi_keys"] = cache["wbi_keys"]
  BY <1>2, CallFacts DEF CachesOK
<1> QED BY <1>3, SameEntries DEF Kept

LEMMA RefreshKeeps ==
  ASSUME IInv, NEW c \in Calls, Refresh(c), NEW e \in Entry(Keys), e.value = current
  PROVE  Kept(e)
<1>1. call[c].keys < current /\ call[c].keys \in Nat /\ current \in Nat
  BY CallFacts DEF Refresh, RecOK, CallRecs
<1>2. ~\E f \in Entry(Keys) : f.value = call[c].keys
  <2>1. \A f \in Entry(Keys) : f = e
    BY OneEntry
  <2> QED BY <1>1, <2>1
<1>3. cache' = cache
  BY <1>2 DEF Refresh
<1> QED BY <1>3, SameEntries DEF Kept

LEMMA AgeKeeps ==
  ASSUME IInv, NEW r \in Resources, Age(r), NEW e \in Entry(Keys)
  PROVE  Kept(e)
<1>1. PICK all : all = cache[Namespace(r)]
  OBVIOUS
<1>2. PICK s : s = [i \in DOMAIN all |-> IF all[i].key = r THEN [all[i] EXCEPT !.old = TRUE] ELSE all[i]]
  OBVIOUS
<1>3. cache' = [cache EXCEPT ![Namespace(r)] = s]
  BY <1>1, <1>2 DEF Age
<1>4. CASE r # Keys
  <2>1. cache'["wbi_keys"] = cache["wbi_keys"]
    BY <1>3, <1>4, CallFacts DEF Namespace, CachesOK
  <2> QED BY <2>1, SameEntries DEF Kept
<1>5. CASE r = Keys
  <2>1. cache'["wbi_keys"] = s /\ all = cache["wbi_keys"]
    BY <1>1, <1>3, <1>5 DEF Namespace, IInv, CachesOK
  <2>2. all \in Seq(Entries({Keys}, 1..current))
    BY <2>1 DEF IInv, CachesOK
  <2>3. PICK i \in DOMAIN all : e = all[i] /\ e.key = Keys
    BY <2>1 DEF Entry, Namespace, Range
  <2>4. all[i] \in Entries({Keys}, 1..current)
    BY <2>2, <2>3
  <2>5. s[i] = [all[i] EXCEPT !.old = TRUE] /\ i \in DOMAIN s
    BY <1>2, <1>5, <2>3, Zenon
  <2>6. s[i].key = Keys /\ s[i].value = e.value
    BY <2>3, <2>4, <2>5 DEF Entries
  <2>7. s[i] \in Entry(Keys)'
    <3>1. s[i] \in Range(s)
      BY <2>5, Zenon DEF Range
    <3>2. cache'["wbi_keys"] = s
      BY <2>1
    <3> QED BY <2>6, <3>1, <3>2, NewEntries
  <2> QED BY <2>6, <2>7 DEF Kept
<1> QED BY <1>4, <1>5

\* Keys that are still good are never lost to a request that was slow or was refused: a hit
\* moves their entry, nobody stores over it, and what is discarded is older.
THEOREM GoodKeysAreKept == Spec => GoodKeysStay
<1>1. ASSUME IInv, [Next]_vars, NEW e \in Entry(Keys), e.value = current, current' = current, ~e.old
      PROVE  Kept(e)
  <2>1. ASSUME NEW c \in Calls, Step(c)
        PROVE  Kept(e)
    <3>1. CASE Hit(c) \/ Miss(c) \/ Store(c) \/ Refresh(c)
      BY <1>1, <3>1, HitKeeps, MissKeeps, StoreKeeps, RefreshKeeps
    <3>2. CASE ~(Hit(c) \/ Miss(c) \/ Store(c) \/ Refresh(c))
      <4>1. cache' = cache
        BY <2>1, <3>2 DEF Step, LoadKeys, Settle, Pop, Accepted, Refused, RiskControl, Fails, Rejected
      <4> QED BY <4>1, SameEntries DEF Kept
    <3> QED BY <3>1, <3>2
  <2>2. ASSUME NEW c \in Calls, NEW x \in Videos \union {Space}, Request(c, x)
        PROVE  Kept(e)
    BY <2>2, SameEntries DEF Request, Kept
  <2>3. ASSUME NEW r \in Resources, Age(r)
        PROVE  Kept(e)
    BY <1>1, <2>3, AgeKeeps
  <2>4. CASE Rotate \/ UNCHANGED vars
    BY <2>4, SameEntries DEF Rotate, vars, Kept
  <2> QED BY <1>1, <2>1, <2>2, <2>3, <2>4 DEF Next
<1>2. IInv /\ [Next]_vars =>
        [\A e \in Entry(Keys) : (e.value = current /\ current' = current /\ ~e.old)
                                  => \E f \in Entry(Keys)' : f.value = e.value]_vars
  BY <1>1 DEF Kept
<1> QED BY <1>2, Invariant, PTL DEF Spec, GoodKeysStay

-----------------------------------------------------------------------------
(* Nobody waits in vain.                                                   *)

\* A Future is somebody's who still works for it; who waits for one has no outcome yet, and
\* whoever is about to remove one has given it its outcome.
FlightsHeld ==
  \A r \in Resources : flight[r] # NoFlight =>
    \E c \in Calls : flight[r].leader = c /\ Holds(call[c], r)

WaitersOK ==
  \A w \in Calls : call[w].pc = "wait" =>
    flight[call[w].at] # NoFlight /\ ~flight[call[w].at].done

PopsOK == \A c \in Calls : call[c].pc = "pop" => flight[call[c].at].done

WaitInv == IInv /\ FlightsHeld /\ WaitersOK /\ PopsOK

LEMMA ReturnedKeeps ==
  ASSUME IInv, NEW c \in Calls, call[c].pc \in {"look", "wait", "pop"}, NEW value
  PROVE  LET b == Returned(c, call[c].at, value)
         IN  /\ b.pc \notin {"wait", "pop"}
             /\ \A q \in Resources : Holds(call[c], q) /\ q # call[c].at => Holds(b, q)
<1> DEFINE b == Returned(c, call[c].at, value)
<1>1. RecOK(call[c]) /\ call[c] \in CallRecs
  BY CallFacts
<1>2. CASE call[c].at # Keys \/ (value = Error /\ call[c].for = Space)
  <2>1. b = Idle
    BY <1>2 DEF Returned
  <2>2. b.pc = "idle"
    BY <2>1 DEF Idle
  <2>3. \A q \in Resources : Holds(call[c], q) => q = call[c].at
    BY <1>1, <1>2, Constants DEF Holds, LeadsVideo, LeadsKeys, RecOK
  <2> QED BY <2>2, <2>3
<1>3. CASE call[c].at = Keys /\ value # Error
  <2>1. b = [call[c] EXCEPT !.pc = "sign", !.at = call[c].for, !.keys = value]
    BY <1>3 DEF Returned
  <2>2. b.pc = "sign" /\ b.at = call[c].for /\ b.for = call[c].for
    BY <1>1, <2>1 DEF CallRecs
  <2> HIDE DEF b
  <2>3. \A q \in Resources : Holds(call[c], q) /\ q # call[c].at => Holds(b, q)
    BY <1>3, <2>2 DEF Holds, LeadsVideo
  <2> QED BY <2>2, <2>3 DEF b
<1>4. CASE call[c].at = Keys /\ value = Error /\ call[c].for # Space
  <2>1. b = [call[c] EXCEPT !.pc = "settle", !.at = call[c].for, !.got = Error]
    BY <1>4 DEF Returned
  <2>2. b.pc = "settle" /\ b.at = call[c].for /\ b.for = call[c].for
    BY <1>1, <2>1 DEF CallRecs
  <2> HIDE DEF b
  <2>3. \A q \in Resources : Holds(call[c], q) /\ q # call[c].at => Holds(b, q)
    BY <1>4, <2>2 DEF Holds, LeadsVideo
  <2> QED BY <2>2, <2>3 DEF b
<1> QED BY <1>2, <1>3, <1>4

\* A call that looks or waits has no flight of its own there.
LEMMA NotHeld ==
  ASSUME IInv, NEW c \in Calls, call[c].pc \in {"look", "wait"}
  PROVE  ~Holds(call[c], call[c].at)
BY CallFacts, Constants DEF Holds, LeadsVideo, LeadsKeys, RecOK

LEMMA QuietWait ==
  ASSUME WaitInv, flight' = flight, NEW c \in Calls, NEW b, Moved(c, b),
         \A q \in Resources : Holds(call[c], q) => Holds(b, q),
         b.pc = "wait" => flight[b.at] # NoFlight /\ ~flight[b.at].done,
         b.pc = "pop" => flight[b.at].done
  PROVE  FlightsHeld' /\ WaitersOK' /\ PopsOK'
<1>1. \A d \in Calls : call'[d] = IF d = c THEN b ELSE call[d]
  BY DEF WaitInv, IInv, CallsOK, Moved
<1>2. FlightsHeld'
  <2> SUFFICES ASSUME NEW r \in Resources, flight[r] # NoFlight
               PROVE  \E d \in Calls : flight[r].leader = d /\ Holds(call'[d], r)
    BY DEF FlightsHeld, Holds, LeadsVideo, LeadsKeys, NoFlight, Error
  <2>1. PICK d \in Calls : flight[r].leader = d /\ Holds(call[d], r)
    BY DEF WaitInv, FlightsHeld
  <2>2. Holds(call'[d], r)
    BY <1>1, <2>1
  <2> QED BY <2>1, <2>2
<1>3. WaitersOK'
  <2> SUFFICES ASSUME NEW w \in Calls, call'[w].pc = "wait"
               PROVE  flight[call'[w].at] # NoFlight /\ ~flight[call'[w].at].done
    BY DEF WaitersOK, NoFlight, Error
  <2> QED BY <1>1 DEF WaitInv, WaitersOK
<1>4. PopsOK'
  <2> SUFFICES ASSUME NEW d \in Calls, call'[d].pc = "pop"
               PROVE  flight[call'[d].at].done
    BY DEF PopsOK
  <2> QED BY <1>1 DEF WaitInv, PopsOK
<1> QED BY <1>2, <1>3, <1>4

LEMMA RequestWaits ==
  ASSUME WaitInv, NEW c \in Calls, NEW x \in Videos \union {Space}, Request(c, x)
  PROVE  FlightsHeld' /\ WaitersOK' /\ PopsOK'
<1>1. PICK b : b = [Idle EXCEPT !.pc = "look", !.for = x, !.at = IF x = Space THEN Keys ELSE x]
  OBVIOUS
<1>2. b.pc = "look" /\ Moved(c, b) /\ flight' = flight
  BY <1>1 DEF Idle, Request, Moved
<1>3. \A q \in Resources : ~Holds(call[c], q)
  BY IdleRec, CallFacts DEF Request, WaitInv
<1> QED BY <1>2, <1>3, QuietWait

LEMMA HitWaits ==
  ASSUME WaitInv, NEW c \in Calls, Hit(c)
  PROVE  FlightsHeld' /\ WaitersOK' /\ PopsOK'
<1>1. PICK e : call' = [call EXCEPT ![c] = Returned(c, call[c].at, e.value)]
  BY DEF Hit
<1>2. PICK b : b = Returned(c, call[c].at, e.value)
  OBVIOUS
<1>3. Moved(c, b) /\ flight' = flight /\ call[c].pc = "look" /\ IInv
  BY <1>1, <1>2 DEF Moved, Hit, WaitInv
<1>4. b.pc \notin {"wait", "pop"} /\ \A q \in Resources : Holds(call[c], q) => Holds(b, q)
  BY <1>2, <1>3, ReturnedKeeps, NotHeld
<1> QED BY <1>3, <1>4, QuietWait

LEMMA LeadWaits ==
  ASSUME WaitInv, NEW c \in Calls, call[c].pc = "look", flight[call[c].at] = NoFlight, Lead(c, call[c].at)
  PROVE  FlightsHeld' /\ WaitersOK' /\ PopsOK'
<1>1. PICK r : r = call[c].at
  OBVIOUS
<1>2. IInv /\ r \in Resources /\ RecOK(call[c])
  BY <1>1, CallFacts DEF WaitInv
<1>3. PICK b : b = [call[c] EXCEPT !.pc = IF r = Keys THEN "load" ELSE "look", !.at = Keys]
  OBVIOUS
<1>4. b.pc = (IF r = Keys THEN "load" ELSE "look") /\ b.at = Keys /\ b.for = call[c].for
  BY <1>2, <1>3, CallFacts DEF CallRecs
<1>5. \A d \in Calls : call'[d] = IF d = c THEN b ELSE call[d]
  BY <1>1, <1>2, <1>3 DEF Lead, IInv, CallsOK
<1>6. /\ flight'[r] = [leader |-> c, done |-> FALSE, value |-> Error]
      /\ \A q \in Resources \ {r} : flight'[q] = flight[q]
  BY <1>1, <1>2, CallFacts DEF Lead, FlightsOK
<1>7. Holds(b, r) /\ \A q \in Resources : Holds(call[c], q) => Holds(b, q)
  BY <1>1, <1>2, <1>4, Constants DEF Holds, LeadsVideo, LeadsKeys, RecOK
<1>8. FlightsHeld'
  <2> SUFFICES ASSUME NEW q \in Resources, flight'[q] # NoFlight
               PROVE  \E d \in Calls : flight'[q].leader = d /\ Holds(call'[d], q)
    BY DEF FlightsHeld, Holds, LeadsVideo, LeadsKeys, NoFlight, Error
  <2>1. CASE q = r
    <3>1. flight'[q].leader = c /\ Holds(call'[c], q)
      BY <1>5, <1>6, <1>7, <2>1
    <3> QED BY <3>1
  <2>2. CASE q # r
    <3>1. PICK d \in Calls : flight[q].leader = d /\ Holds(call[d], q)
      BY <1>6, <2>2 DEF WaitInv, FlightsHeld
    <3>2. Holds(call'[d], q) /\ flight'[q].leader = d
      BY <1>5, <1>6, <1>7, <2>2, <3>1
    <3> QED BY <3>2
  <2> QED BY <2>1, <2>2
<1>9. WaitersOK'
  <2> SUFFICES ASSUME NEW w \in Calls, call'[w].pc = "wait"
               PROVE  flight'[call'[w].at] # NoFlight /\ ~flight'[call'[w].at].done
    BY DEF WaitersOK, NoFlight, Error
  <2>1. call'[w] = call[w]
    BY <1>4, <1>5
  <2>2. call[w].at \in Resources /\ call[w].at # r
    BY <1>1, <1>2, <2>1, CallFacts DEF WaitInv, WaitersOK
  <2> QED BY <1>6, <2>1, <2>2 DEF WaitInv, WaitersOK
<1>10. PopsOK'
  <2> SUFFICES ASSUME NEW d \in Calls, call'[d].pc = "pop"
               PROVE  flight'[call'[d].at].done
    BY DEF PopsOK
  <2>1. call'[d] = call[d]
    BY <1>4, <1>5
  <2>2. call[d].at \in Resources /\ call[d].at # r
    <3>1. flight[call[d].at].done /\ ~NoFlight.done
      BY <2>1 DEF WaitInv, PopsOK, NoFlight
    <3> QED BY <1>1, <1>2, <2>1, <3>1, CallFacts
  <2> QED BY <1>6, <2>1, <2>2 DEF WaitInv, PopsOK
<1> QED BY <1>8, <1>9, <1>10

LEMMA MissWaits ==
  ASSUME WaitInv, NEW c \in Calls, Miss(c)
  PROVE  FlightsHeld' /\ WaitersOK' /\ PopsOK'
<1>1. PICK r : r = call[c].at
  OBVIOUS
<1>2. IInv /\ call[c].pc = "look" /\ Join(c, r)
  BY <1>1 DEF WaitInv, Miss
<1>3. CASE flight[r] = NoFlight /\ Lead(c, r)
  BY <1>1, <1>2, <1>3, LeadWaits
<1>4. ASSUME flight[r] # NoFlight, flight' = flight,
             call' = [call EXCEPT ![c] =
                 IF flight[r].done THEN Returned(c, r, flight[r].value) ELSE [@ EXCEPT !.pc = "wait"]]
      PROVE  FlightsHeld' /\ WaitersOK' /\ PopsOK'
  <2>1. CASE flight[r].done
    <3>1. PICK b : b = Returned(c, r, flight[r].value)
      OBVIOUS
    <3>2. Moved(c, b)
      BY <1>4, <2>1, <3>1 DEF Moved
    <3>3. b.pc \notin {"wait", "pop"} /\ \A q \in Resources : Holds(call[c], q) => Holds(b, q)
      BY <1>1, <1>2, <3>1, ReturnedKeeps, NotHeld
    <3> QED BY <1>4, <3>2, <3>3, QuietWait
  <2>2. CASE ~flight[r].done
    <3>1. PICK b : b = [call[c] EXCEPT !.pc = "wait"]
      OBVIOUS
    <3>2. Moved(c, b)
      BY <1>4, <2>2, <3>1 DEF Moved
    <3>3. b.pc = "wait" /\ b.at = r /\ b.for = call[c].for
      BY <1>1, <1>2, <3>1, CallFacts DEF CallRecs
    <3>4. \A q \in Resources : Holds(call[c], q) => Holds(b, q)
      BY <1>1, <1>2, <3>3 DEF Holds, LeadsVideo, LeadsKeys
    <3> QED BY <1>4, <2>2, <3>2, <3>3, <3>4, QuietWait
  <2> QED BY <2>1, <2>2
<1> QED BY <1>2, <1>3, <1>4 DEF Join

\* The steps of a loader that only change where it is.
LEMMA LoaderWaits ==
  ASSUME WaitInv, NEW c \in Calls, LoadKeys(c) \/ Store(c) \/ Refused(c) \/ RiskControl(c) \/ Refresh(c)
  PROVE  FlightsHeld' /\ WaitersOK' /\ PopsOK'
<1>1. IInv /\ RecOK(call[c]) /\ call[c] \in CallRecs /\ flight' = flight
  BY CallFacts DEF WaitInv, LoadKeys, Store, Refused, RiskControl, Refresh
<1>2. PICK b : /\ Moved(c, b) /\ b.for = call[c].for
               /\ \/ call[c].pc = "load" /\ b.at = call[c].at /\ b.pc \in {"store", "settle"}
                  \/ call[c].pc = "store" /\ b.at = call[c].at /\ b.pc = "settle"
                  \/ call[c].pc = "sign" /\ b.at = call[c].at /\ b.pc \in {"sign", "refresh", "rejected"}
                  \/ call[c].pc = "refresh" /\ b.at = Keys /\ b.pc = "look"
  <2>1. CASE LoadKeys(c)
    <3>1. CASE call' = [call EXCEPT ![c].pc = "store", ![c].got = current]
      <4>1. PICK b : b = [call[c] EXCEPT !.pc = "store", !.got = current]
        OBVIOUS
      <4>2. Moved(c, b) /\ b.for = call[c].for /\ b.at = call[c].at /\ b.pc = "store"
        BY <1>1, <3>1, <4>1 DEF Moved, CallRecs
      <4> QED BY <2>1, <4>2 DEF LoadKeys
    <3>2. CASE call' = [call EXCEPT ![c].pc = "settle", ![c].got = Error]
      <4>1. PICK b : b = [call[c] EXCEPT !.pc = "settle", !.got = Error]
        OBVIOUS
      <4>2. Moved(c, b) /\ b.for = call[c].for /\ b.at = call[c].at /\ b.pc = "settle"
        BY <1>1, <3>2, <4>1 DEF Moved, CallRecs
      <4> QED BY <2>1, <4>2 DEF LoadKeys
    <3> QED BY <2>1, <3>1, <3>2 DEF LoadKeys
  <2>2. CASE Store(c)
    <3>1. PICK b : b = [call[c] EXCEPT !.pc = "settle"]
      OBVIOUS
    <3>2. Moved(c, b) /\ b.for = call[c].for /\ b.at = call[c].at /\ b.pc = "settle"
      BY <1>1, <2>2, <3>1 DEF Moved, CallRecs, Store
    <3> QED BY <2>2, <3>2 DEF Store
  <2>3. CASE Refused(c)
    <3>1. PICK place : place = IF call[c].attempt = 0 THEN "refresh" ELSE "rejected"
      OBVIOUS
    <3>2. PICK b : b = [call[c] EXCEPT !.pc = place, !.attempt = 1]
      OBVIOUS
    <3>3. Moved(c, b) /\ b.for = call[c].for /\ b.at = call[c].at /\ b.pc = place
      BY <1>1, <2>3, <3>1, <3>2 DEF Moved, CallRecs, Refused
    <3> QED BY <2>3, <3>1, <3>3 DEF Refused
  <2>4. CASE RiskControl(c)
    <3>1. PICK b : b = [call[c] EXCEPT !.attempt = 1]
      OBVIOUS
    <3>2. Moved(c, b) /\ b.for = call[c].for /\ b.at = call[c].at /\ b.pc = call[c].pc
      BY <1>1, <2>4, <3>1 DEF Moved, CallRecs, RiskControl
    <3> QED BY <2>4, <3>2 DEF RiskControl
  <2>5. CASE Refresh(c)
    <3>1. PICK b : b = [call[c] EXCEPT !.pc = "look", !.at = Keys]
      OBVIOUS
    <3>2. Moved(c, b) /\ b.for = call[c].for /\ b.at = Keys /\ b.pc = "look"
      BY <1>1, <2>5, <3>1 DEF Moved, CallRecs, Refresh
    <3> QED BY <2>5, <3>2 DEF Refresh
  <2> QED BY <2>1, <2>2, <2>3, <2>4, <2>5
<1>3. \A q \in Resources : Holds(call[c], q) => Holds(b, q)
  BY <1>1, <1>2, Constants DEF Holds, LeadsVideo, LeadsKeys, RecOK
<1> QED BY <1>1, <1>2, <1>3, QuietWait

LEMMA EndsWaits ==
  ASSUME WaitInv, NEW c \in Calls, Accepted(c) \/ Fails(c) \/ Rejected(c)
  PROVE  FlightsHeld' /\ WaitersOK' /\ PopsOK'
<1>1. PICK place \in {"store", "settle"}, got \in {Payload, Error} : Ends(c, place, got)
  BY DEF Accepted, Fails, Rejected
<1>2. /\ IInv /\ RecOK(call[c]) /\ call[c] \in CallRecs /\ flight' = flight
      /\ call[c].pc \in {"sign", "rejected"}
  BY CallFacts DEF WaitInv, Accepted, Fails, Rejected
<1>3. CASE call[c].for = Space
  <2>1. Moved(c, Idle) /\ Idle.pc = "idle"
    BY <1>1, <1>3 DEF Ends, Moved, Idle
  <2>2. \A q \in Resources : ~Holds(call[c], q)
    BY <1>2, <1>3, Constants DEF Holds, LeadsVideo, LeadsKeys, RecOK
  <2> QED BY <1>2, <2>1, <2>2, QuietWait
<1>4. CASE call[c].for # Space
  <2>1. PICK b : b = [call[c] EXCEPT !.pc = place, !.got = got]
    OBVIOUS
  <2>2. Moved(c, b) /\ b.pc = place /\ b.at = call[c].at /\ b.for = call[c].for
    BY <1>1, <1>2, <1>4, <2>1 DEF Ends, Moved, CallRecs
  <2>3. \A q \in Resources : Holds(call[c], q) => Holds(b, q)
    BY <1>2, <2>2 DEF Holds, LeadsVideo, LeadsKeys
  <2> QED BY <1>2, <2>2, <2>3, QuietWait
<1> QED BY <1>3, <1>4

LEMMA SettleWaits ==
  ASSUME WaitInv, NEW c \in Calls, Settle(c)
  PROVE  FlightsHeld' /\ WaitersOK' /\ PopsOK'
<1>1. PICK r, got : r = call[c].at /\ got = call[c].got
  OBVIOUS
<1>2. IInv /\ r \in Resources /\ call[c].pc = "settle" /\ RecOK(call[c]) /\ call[c] \in CallRecs
  BY <1>1, CallFacts DEF WaitInv, Settle
<1>3. call' = [w \in Calls |-> IF w = c THEN [call[c] EXCEPT !.pc = "pop"]
                               ELSE IF Waits(w, r) THEN Returned(w, r, got) ELSE call[w]]
  BY <1>1 DEF Settle
<1>4. /\ flight'[r].done /\ flight'[r].leader = flight[r].leader
      /\ \A q \in Resources \ {r} : flight'[q] = flight[q]
  BY <1>1, <1>2, CallFacts DEF Settle, FlightsOK, Flights
<1>5. call'[c].pc = "pop" /\ call'[c].at = r /\ call'[c].for = call[c].for
  BY <1>1, <1>2, <1>3 DEF CallRecs
<1>6. ASSUME NEW w \in Calls, w # c
      PROVE  /\ call'[w].pc # "pop" \/ call'[w] = call[w]
             /\ call'[w].pc = "wait" => call'[w] = call[w] /\ call[w].at # r
             /\ \A q \in Resources : Holds(call[w], q) => Holds(call'[w], q)
  <2>1. CASE Waits(w, r)
    <3>1. call'[w] = Returned(w, call[w].at, got) /\ call[w].pc = "wait"
      BY <1>3, <1>6, <2>1 DEF Waits
    <3> QED BY <1>2, <3>1, ReturnedKeeps, NotHeld
  <2>2. CASE ~Waits(w, r)
    <3>1. call'[w] = call[w]
      BY <1>3, <1>6, <2>2
    <3> QED BY <2>2, <3>1 DEF Waits
  <2> QED BY <2>1, <2>2
<1>7. \A q \in Resources : Holds(call[c], q) => Holds(call'[c], q)
  BY <1>1, <1>2, <1>5 DEF Holds, LeadsVideo, LeadsKeys
<1>8. FlightsHeld'
  <2> SUFFICES ASSUME NEW q \in Resources, flight'[q] # NoFlight
               PROVE  \E d \in Calls : flight'[q].leader = d /\ Holds(call'[d], q)
    BY DEF FlightsHeld, Holds, LeadsVideo, LeadsKeys, NoFlight, Error
  <2>1. CASE q = r
    <3>1. Holds(call[c], r)
      BY <1>1, <1>2, Constants DEF Holds, LeadsVideo, LeadsKeys, RecOK
    <3>2. flight[r].leader = c
      BY <1>2, <3>1 DEF IInv, LeadersOK
    <3> QED BY <1>4, <1>7, <2>1, <3>1, <3>2
  <2>2. CASE q # r
    <3>1. PICK d \in Calls : flight[q].leader = d /\ Holds(call[d], q)
      BY <1>4, <2>2 DEF WaitInv, FlightsHeld
    <3>2. Holds(call'[d], q) /\ flight'[q].leader = d
      BY <1>4, <1>6, <1>7, <2>2, <3>1
    <3> QED BY <3>2
  <2> QED BY <2>1, <2>2
<1>9. WaitersOK'
  <2> SUFFICES ASSUME NEW w \in Calls, call'[w].pc = "wait"
               PROVE  flight'[call'[w].at] # NoFlight /\ ~flight'[call'[w].at].done
    BY DEF WaitersOK, NoFlight, Error
  <2>1. call'[w] = call[w] /\ call[w].at # r
    BY <1>5, <1>6
  <2>2. call[w].at \in Resources
    BY <1>2, <2>1, CallFacts
  <2> QED BY <1>4, <2>1, <2>2 DEF WaitInv, WaitersOK
<1>10. PopsOK'
  <2> SUFFICES ASSUME NEW d \in Calls, call'[d].pc = "pop"
               PROVE  flight'[call'[d].at].done
    BY DEF PopsOK
  <2>1. CASE d = c
    BY <1>4, <1>5, <2>1
  <2>2. CASE d # c
    <3>1. call'[d] = call[d]
      BY <1>6, <2>2
    <3>2. call[d].at \in Resources /\ flight[call[d].at].done
      BY <1>2, <3>1, CallFacts DEF WaitInv, PopsOK
    <3> QED BY <1>4, <3>1, <3>2
  <2> QED BY <2>1, <2>2
<1> QED BY <1>8, <1>9, <1>10

LEMMA PopWaits ==
  ASSUME WaitInv, NEW c \in Calls, Pop(c)
  PROVE  FlightsHeld' /\ WaitersOK' /\ PopsOK'
<1>1. PICK r : r = call[c].at
  OBVIOUS
<1>2. IInv /\ r \in Resources /\ call[c].pc = "pop" /\ RecOK(call[c])
  BY <1>1, CallFacts DEF WaitInv, Pop
<1>3. PICK b : b = Returned(c, r, call[c].got)
  OBVIOUS
<1>4. b.pc \notin {"wait", "pop"} /\ \A q \in Resources : Holds(call[c], q) /\ q # r => Holds(b, q)
  BY <1>1, <1>2, <1>3, ReturnedKeeps
<1>5. \A d \in Calls : call'[d] = IF d = c THEN b ELSE call[d]
  BY <1>1, <1>2, <1>3 DEF Pop, IInv, CallsOK
<1>6. flight'[r] = NoFlight /\ \A q \in Resources \ {r} : flight'[q] = flight[q]
  BY <1>1, <1>2, CallFacts DEF Pop, FlightsOK
<1>7. flight[r].done /\ flight[r].leader = c
  <2>1. Holds(call[c], r)
    BY <1>1, <1>2, Constants DEF Holds, LeadsVideo, LeadsKeys, RecOK
  <2> QED BY <1>1, <1>2, <2>1 DEF WaitInv, PopsOK, IInv, LeadersOK
<1>8. FlightsHeld'
  <2> SUFFICES ASSUME NEW q \in Resources, flight'[q] # NoFlight
               PROVE  \E d \in Calls : flight'[q].leader = d /\ Holds(call'[d], q)
    BY DEF FlightsHeld, Holds, LeadsVideo, LeadsKeys, NoFlight, Error
  <2>1. q # r
    BY <1>6
  <2>2. PICK d \in Calls : flight[q].leader = d /\ Holds(call[d], q)
    BY <1>6, <2>1 DEF WaitInv, FlightsHeld
  <2>3. Holds(call'[d], q) /\ flight'[q].leader = d
    BY <1>4, <1>5, <1>6, <2>1, <2>2
  <2> QED BY <2>3
<1>9. WaitersOK'
  <2> SUFFICES ASSUME NEW w \in Calls, call'[w].pc = "wait"
               PROVE  flight'[call'[w].at] # NoFlight /\ ~flight'[call'[w].at].done
    BY DEF WaitersOK, NoFlight, Error
  <2>1. call'[w] = call[w]
    BY <1>4, <1>5
  <2>2. call[w].at \in Resources /\ call[w].at # r
    BY <1>2, <1>7, <2>1, CallFacts DEF WaitInv, WaitersOK
  <2> QED BY <1>6, <2>1, <2>2 DEF WaitInv, WaitersOK
<1>10. PopsOK'
  <2> SUFFICES ASSUME NEW d \in Calls, call'[d].pc = "pop"
               PROVE  flight'[call'[d].at].done
    BY DEF PopsOK
  <2>1. d # c /\ call'[d] = call[d]
    BY <1>4, <1>5
  <2>2. call[d].at \in Resources /\ call[d].at # r
    <3>1. call[d].at \in Resources /\ Holds(call[d], call[d].at)
      BY <1>2, <2>1, CallFacts, Constants DEF Holds, LeadsVideo, LeadsKeys, RecOK
    <3>2. flight[call[d].at].leader = d
      BY <1>2, <3>1 DEF IInv, LeadersOK
    <3> QED BY <1>7, <2>1, <3>1, <3>2
  <2> QED BY <1>6, <2>1, <2>2 DEF WaitInv, PopsOK
<1> QED BY <1>8, <1>9, <1>10

LEMMA WaitInvariant == Spec => []WaitInv
<1>1. Init => WaitInv
  <2> SUFFICES ASSUME Init
               PROVE  WaitInv
    OBVIOUS
  <2>1. \A c \in Calls : call[c].pc = "idle"
    BY DEF Init, Idle
  <2>2. \A r \in Resources : flight[r] = NoFlight
    BY DEF Init
  <2> QED BY <2>1, <2>2, InvInit DEF WaitInv, FlightsHeld, WaitersOK, PopsOK
<1>2. WaitInv /\ [Next]_vars => WaitInv'
  <2> SUFFICES ASSUME WaitInv, [Next]_vars
               PROVE  FlightsHeld' /\ WaitersOK' /\ PopsOK'
    BY InvNext DEF WaitInv
  <2>1. ASSUME NEW c \in Calls, Step(c)
        PROVE  FlightsHeld' /\ WaitersOK' /\ PopsOK'
    <3>1. CASE Hit(c) \/ Miss(c) \/ Settle(c) \/ Pop(c)
      BY <3>1, HitWaits, MissWaits, SettleWaits, PopWaits
    <3>2. CASE LoadKeys(c) \/ Store(c) \/ Refused(c) \/ RiskControl(c) \/ Refresh(c)
      BY <3>2, LoaderWaits
    <3>3. CASE Accepted(c) \/ Fails(c) \/ Rejected(c)
      BY <3>3, EndsWaits
    <3> QED BY <2>1, <3>1, <3>2, <3>3 DEF Step
  <2>2. ASSUME NEW c \in Calls, NEW x \in Videos \union {Space}, Request(c, x)
        PROVE  FlightsHeld' /\ WaitersOK' /\ PopsOK'
    BY <2>2, RequestWaits
  <2>3. CASE flight' = flight /\ call' = call
    BY <2>3 DEF WaitInv, FlightsHeld, WaitersOK, PopsOK, Holds, LeadsVideo, LeadsKeys, NoFlight, Error
  <2> QED BY <2>1, <2>2, <2>3 DEF Next, Age, Rotate, vars
<1> QED BY <1>1, <1>2, PTL DEF Spec

\* No deadlock between the two caches: whoever waits for a Future, waits for a request that
\* goes on, or for one that waits for the keys, whose loader goes on.
THEOREM NoDeadlock == Spec => []NobodyWaitsInVain
<1>1. WaitInv => NobodyWaitsInVain
  <2> SUFFICES ASSUME WaitInv, NEW w \in Calls, call[w].pc = "wait"
               PROVE  /\ ~flight[call[w].at].done
                      /\ \E c \in Calls : /\ flight[call[w].at].leader = c
                                          /\ \/ call[c].pc \notin {"idle", "wait"}
                                             \/ call[w].at # Keys /\ call[c].at = Keys
    BY DEF NobodyWaitsInVain
  <2>1. IInv /\ call[w].at \in Resources /\ flight[call[w].at] # NoFlight /\ ~flight[call[w].at].done
    BY CallFacts DEF WaitInv, WaitersOK
  <2>2. PICK c \in Calls : flight[call[w].at].leader = c /\ Holds(call[c], call[w].at)
    BY <2>1 DEF WaitInv, FlightsHeld
  <2>3. call[c].pc \notin {"idle", "wait"} \/ (call[w].at # Keys /\ call[c].at = Keys)
    BY <2>1, <2>2, CallFacts, Constants DEF Holds, LeadsVideo, LeadsKeys, RecOK
  <2> QED BY <2>1, <2>2, <2>3
<1> QED BY <1>1, WaitInvariant, PTL
=============================================================================
