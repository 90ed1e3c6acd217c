---------------------------- MODULE CompareProofs ----------------------------
(***************************************************************************)
(* Theorems about Compare.                                                 *)
(***************************************************************************)
EXTENDS Compare, FiniteSetTheorems, SequenceTheorems, TLAPS

-----------------------------------------------------------------------------
(* The cache.                                                               *)

\* A sequence without one of its entries: the others, in their order.
LEMMA RemoveAtIs ==
  ASSUME NEW S, NEW q \in Seq(S), NEW i \in DOMAIN q
  PROVE  /\ RemoveAt(q, i) \in Seq(S) /\ Len(RemoveAt(q, i)) = Len(q) - 1
         /\ \A j \in 1 .. Len(q) - 1 :
               RemoveAt(q, i)[j] = q[IF j < i THEN j ELSE j + 1]
<1>1. Len(q) \in Nat /\ i \in 1 .. Len(q)
  BY LenProperties
<1>2. PICK head : head = SubSeq(q, 1, i - 1)
  OBVIOUS
<1>3. PICK tail : tail = SubSeq(q, i + 1, Len(q))
  OBVIOUS
<1>4. /\ head \in Seq(S) /\ Len(head) = i - 1
      /\ \A j \in 1 .. i - 1 : head[j] = q[j]
  <2>1. i - 1 \in 1 - 1 .. Len(q) /\ 1 \in 1 .. Len(q) + 1
    BY <1>1
  <2> QED
    BY <1>1, <1>2, <2>1, SubSeqProperties
<1>5. /\ tail \in Seq(S) /\ Len(tail) = Len(q) - i
      /\ \A j \in 1 .. Len(q) - i : tail[j] = q[i + j]
  <2>1. i + 1 \in 1 .. Len(q) + 1 /\ Len(q) \in i + 1 - 1 .. Len(q)
    BY <1>1
  <2>2. /\ tail \in Seq(S)
        /\ Len(tail) = IF i + 1 <= Len(q) THEN Len(q) - (i + 1) + 1 ELSE 0
        /\ \A j \in 1 .. Len(q) - (i + 1) + 1 : tail[j] = q[i + 1 + j - 1]
    BY <1>3, <2>1, SubSeqProperties
  <2>3. \A j \in 1 .. Len(q) - i : tail[j] = q[i + j]
    BY <1>1, <2>2
  <2> QED
    BY <1>1, <2>2, <2>3
<1>6. RemoveAt(q, i) = head \o tail
  BY <1>2, <1>3 DEF RemoveAt
<1>7. PICK both : both = RemoveAt(q, i) /\ both = head \o tail
  BY <1>6
<1>8. /\ both \in Seq(S) /\ Len(both) = Len(head) + Len(tail)
      /\ \A j \in 1 .. Len(head) + Len(tail) :
            both[j] = IF j <= Len(head) THEN head[j] ELSE tail[j - Len(head)]
  <2>1. head \in Seq(S) /\ tail \in Seq(S)
    BY <1>4, <1>5
  <2>2. /\ head \o tail \in Seq(S) /\ Len(head \o tail) = Len(head) + Len(tail)
        /\ \A j \in 1 .. Len(head) + Len(tail) :
              (head \o tail)[j] = IF j <= Len(head) THEN head[j] ELSE tail[j - Len(head)]
    BY <2>1, ConcatProperties, Zenon
  <2> QED
    BY <1>7, <2>2, Zenon
<1>9. Len(head) + Len(tail) = Len(q) - 1
  BY <1>1, <1>4, <1>5
<1>10. ASSUME NEW j \in 1 .. Len(q) - 1
      PROVE  both[j] = q[IF j < i THEN j ELSE j + 1]
  <2>1. both[j] = IF j <= i - 1 THEN head[j] ELSE tail[j - (i - 1)]
    BY <1>4, <1>8, <1>9
  <2>2. CASE j < i
    BY <1>1, <1>4, <2>1, <2>2
  <2>3. CASE ~(j < i)
    <3>1. j - (i - 1) \in 1 .. Len(q) - i /\ i + (j - (i - 1)) = j + 1
      BY <1>1, <2>3
    <3>2. tail[j - (i - 1)] = q[j + 1]
      BY <1>5, <3>1
    <3> QED
      BY <1>1, <2>1, <2>3, <3>2
  <2> QED
    BY <2>2, <2>3
<1> QED
  BY <1>7, <1>8, <1>9, <1>10

\* The other entries stay, in their order.
LEMMA WithoutIs ==
  ASSUME CacheTypeOK, NEW key
  PROVE  /\ Without(key) \in Seq(CachedEntry) /\ Len(Without(key)) <= Len(cache)
         /\ \A j \in DOMAIN Without(key) :
               Without(key)[j].key # key /\ Without(key)[j] \in ToSet(cache)
         /\ \A i, j \in DOMAIN Without(key) :
               Without(key)[i].key = Without(key)[j].key => i = j
<1>1. Len(cache) \in Nat /\ DOMAIN cache = 1 .. Len(cache)
  BY LenProperties DEF CacheTypeOK
<1>2. CASE Places(key) = {}
  <2>1. Without(key) = cache
    BY <1>2 DEF Without
  <2> QED
    BY <1>1, <1>2, <2>1 DEF CacheTypeOK, Places, ToSet
<1>3. CASE Places(key) # {}
  <2>1. PICK p \in Places(key) : Without(key) = RemoveAt(cache, p)
    BY <1>3 DEF Without
  <2>2. p \in DOMAIN cache /\ cache[p].key = key
    BY <2>1 DEF Places
  <2>3. /\ Without(key) \in Seq(CachedEntry) /\ Len(Without(key)) = Len(cache) - 1
        /\ \A j \in 1 .. Len(cache) - 1 :
              Without(key)[j] = cache[IF j < p THEN j ELSE j + 1]
    BY <2>1, <2>2, RemoveAtIs DEF CacheTypeOK
  <2>4. DOMAIN Without(key) = 1 .. Len(cache) - 1
    BY <2>3, LenProperties
  <2>5. ASSUME NEW j \in DOMAIN Without(key)
        PROVE  \E k \in DOMAIN cache : /\ k # p /\ k = (IF j < p THEN j ELSE j + 1)
                                       /\ Without(key)[j] = cache[k]
    BY <1>1, <2>2, <2>3, <2>4
  <2>6. \A j \in DOMAIN Without(key) :
           Without(key)[j].key # key /\ Without(key)[j] \in ToSet(cache)
    BY <2>2, <2>5 DEF CacheTypeOK, ToSet
  <2>7. ASSUME NEW i \in DOMAIN Without(key), NEW j \in DOMAIN Without(key),
               Without(key)[i].key = Without(key)[j].key
        PROVE  i = j
    <3>1. PICK k \in DOMAIN cache : k = (IF i < p THEN i ELSE i + 1) /\ Without(key)[i] = cache[k]
      BY <2>5
    <3>2. PICK m \in DOMAIN cache : m = (IF j < p THEN j ELSE j + 1) /\ Without(key)[j] = cache[m]
      BY <2>5
    <3>3. k = m
      BY <2>7, <3>1, <3>2 DEF CacheTypeOK
    <3> QED
      BY <1>1, <2>2, <2>4, <3>1, <3>2, <3>3
  <2> QED
    BY <1>1, <2>3, <2>6, <2>7
<1> QED
  BY <1>2, <1>3

\* An entry of another key, put at the end of what there is room beside.
LEMMA AppendEntry ==
  ASSUME NEW q \in Seq(CachedEntry), NEW e \in CachedEntry, Len(q) < MaxEntries,
         \A i, j \in DOMAIN q : q[i].key = q[j].key => i = j,
         \A j \in DOMAIN q : q[j].key # e.key,
         cache' = Append(q, e)
  PROVE  CacheTypeOK' /\ \A x \in ToSet(cache') : x = e \/ x \in ToSet(q)
<1>1. Len(q) \in Nat /\ DOMAIN q = 1 .. Len(q)
  BY LenProperties
<1>2. /\ cache' \in Seq(CachedEntry) /\ Len(cache') = Len(q) + 1
      /\ \A i \in 1 .. Len(q) : cache'[i] = q[i]
      /\ cache'[Len(q) + 1] = e
  BY AppendProperties
<1>3. DOMAIN cache' = 1 .. Len(q) + 1
  BY <1>2, LenProperties
<1>4. Len(cache') <= MaxEntries
  BY <1>1, <1>2, CompareAssumption
<1>5. ASSUME NEW i \in DOMAIN cache', NEW j \in DOMAIN cache', cache'[i].key = cache'[j].key
      PROVE  i = j
  BY <1>1, <1>2, <1>3, <1>5
<1>6. \A x \in ToSet(cache') : x = e \/ x \in ToSet(q)
  BY <1>1, <1>2, <1>3 DEF ToSet
<1> QED
  BY <1>2, <1>4, <1>5, <1>6 DEF CacheTypeOK

\* get_comparison: a hit, and an entry that has expired.
LEMMA HitKeepsCache ==
  ASSUME CacheTypeOK, NEW key, NEW e \in Cached(key), cache' = Append(Without(key), e)
  PROVE  CacheTypeOK' /\ \A x \in ToSet(cache') : x \in ToSet(cache)
<1>1. PICK p \in Places(key) : e = cache[p]
  BY DEF Cached
<1>2. p \in DOMAIN cache /\ e.key = key /\ e \in CachedEntry /\ e \in ToSet(cache)
  BY <1>1 DEF Places, CacheTypeOK, ToSet
<1>3. PICK n \in DOMAIN cache : Without(key) = RemoveAt(cache, n)
  BY <1>1 DEF Without, Places
<1>4. Len(Without(key)) = Len(cache) - 1 /\ Len(cache) \in Nat
  BY <1>3, RemoveAtIs, LenProperties DEF CacheTypeOK
<1>5. Len(Without(key)) < MaxEntries
  BY <1>4, CompareAssumption DEF CacheTypeOK
<1>6. CacheTypeOK' /\ \A x \in ToSet(cache') : x = e \/ x \in ToSet(Without(key))
  BY <1>2, <1>5, WithoutIs, AppendEntry
<1>7. \A x \in ToSet(Without(key)) : x \in ToSet(cache)
  BY WithoutIs DEF ToSet
<1> QED
  BY <1>2, <1>6, <1>7

\* Dropping a key leaves a sound cache with nothing new in it.
LEMMA DropKeepsCache ==
  ASSUME CacheTypeOK, NEW key, cache' = Without(key)
  PROVE  CacheTypeOK' /\ \A x \in ToSet(cache') : x \in ToSet(cache)
<1>1. /\ Without(key) \in Seq(CachedEntry) /\ Len(Without(key)) <= Len(cache)
      /\ \A j \in DOMAIN Without(key) : Without(key)[j] \in ToSet(cache)
      /\ \A i, j \in DOMAIN Without(key) :
            Without(key)[i].key = Without(key)[j].key => i = j
  BY WithoutIs
<1>2. Len(cache) \in Nat /\ Len(Without(key)) \in Nat
  BY <1>1, LenProperties DEF CacheTypeOK
<1>3. Len(cache') <= MaxEntries
  BY <1>1, <1>2, CompareAssumption DEF CacheTypeOK
<1> QED
  BY <1>1, <1>3 DEF CacheTypeOK, ToSet

\* store_comparison: the new entry, and of the others the oldest makes room.
LEMMA StoreKeepsCache ==
  ASSUME CacheTypeOK, NEW e \in CachedEntry, cache' = Stored(e)
  PROVE  CacheTypeOK' /\ \A x \in ToSet(cache') : x = e \/ x \in ToSet(cache)
<1>1. PICK others : others = Without(e.key)
  OBVIOUS
<1>2. /\ others \in Seq(CachedEntry) /\ Len(others) <= Len(cache)
      /\ \A j \in DOMAIN others : others[j].key # e.key /\ others[j] \in ToSet(cache)
      /\ \A i, j \in DOMAIN others : others[i].key = others[j].key => i = j
  BY <1>1, WithoutIs
<1>3. Len(others) \in Nat /\ Len(cache) \in Nat /\ Len(others) <= MaxEntries
  BY <1>2, LenProperties, CompareAssumption DEF CacheTypeOK
<1>4. \A x \in ToSet(others) : x \in ToSet(cache)
  BY <1>2 DEF ToSet
<1>5. CASE Len(others) # MaxEntries
  <2>1. cache' = Append(others, e) /\ Len(others) < MaxEntries
    BY <1>1, <1>3, <1>5, CompareAssumption DEF Stored
  <2> QED
    BY <1>2, <1>4, <2>1, AppendEntry
<1>6. CASE Len(others) = MaxEntries
  <2>1. others # <<>>
    BY <1>3, <1>6, CompareAssumption, EmptySeq
  <2>2. PICK rest : rest = Tail(others)
    OBVIOUS
  <2>3. /\ rest \in Seq(CachedEntry) /\ Len(rest) = Len(others) - 1
        /\ \A i \in 1 .. Len(rest) : rest[i] = others[i + 1]
    BY <1>2, <2>1, <2>2, HeadTailProperties
  <2>4. DOMAIN rest = 1 .. Len(others) - 1 /\ DOMAIN others = 1 .. Len(others)
    BY <1>2, <2>3, LenProperties
  <2>5. \A j \in DOMAIN rest : j + 1 \in DOMAIN others /\ rest[j] = others[j + 1]
    BY <1>3, <2>3, <2>4
  <2>6. /\ \A j \in DOMAIN rest : rest[j].key # e.key
        /\ \A i, j \in DOMAIN rest : rest[i].key = rest[j].key => i = j
    BY <1>2, <1>3, <2>4, <2>5
  <2>7. \A x \in ToSet(rest) : x \in ToSet(cache)
    BY <1>2, <2>5 DEF ToSet
  <2>8. Len(rest) < MaxEntries
    BY <1>3, <1>6, <2>3, CompareAssumption
  <2>9. cache' = Append(rest, e)
    BY <1>1, <1>6, <2>2 DEF Stored
  <2> QED
    BY <2>3, <2>6, <2>7, <2>8, <2>9, AppendEntry
<1> QED
  BY <1>5, <1>6

\* An entry whose time is over stays until it is asked for.
LEMMA ExpireKeepsCache ==
  ASSUME CacheTypeOK, NEW n \in DOMAIN cache, cache' = [cache EXCEPT ![n].fresh = FALSE]
  PROVE  /\ CacheTypeOK'
         /\ \A x \in ToSet(cache') : \E y \in ToSet(cache) : x.unreviewed = y.unreviewed
<1>1. Len(cache) \in Nat /\ DOMAIN cache = 1 .. Len(cache) /\ cache \in Seq(CachedEntry)
  BY LenProperties DEF CacheTypeOK
<1>2. PICK e : e = [cache[n] EXCEPT !.fresh = FALSE]
  OBVIOUS
<1>3. cache[n] \in CachedEntry
  BY DEF CacheTypeOK
<1>4. e \in CachedEntry /\ e.key = cache[n].key /\ e.unreviewed = cache[n].unreviewed
  BY <1>2, <1>3 DEF CachedEntry
<1>5. cache' = [cache EXCEPT ![n] = e]
  BY <1>1, <1>2
<1>6. /\ cache' \in Seq(CachedEntry) /\ Len(cache') = Len(cache)
      /\ \A i \in 1 .. Len(cache) : cache'[i] = IF i = n THEN e ELSE cache[i]
  <2>1. n \in 1 .. Len(cache)
    BY <1>1
  <2>2. /\ [cache EXCEPT ![n] = e] \in Seq(CachedEntry)
        /\ Len([cache EXCEPT ![n] = e]) = Len(cache)
        /\ \A i \in 1 .. Len(cache) : [cache EXCEPT ![n] = e][i] = IF i = n THEN e ELSE cache[i]
    BY <1>1, <1>4, <2>1, ExceptSeq, Zenon
  <2> QED
    BY <1>5, <2>2, Zenon
<1>7. DOMAIN cache' = DOMAIN cache
  BY <1>1, <1>6, LenProperties
<1>8. \A i \in DOMAIN cache : /\ cache'[i].key = cache[i].key
                              /\ cache'[i].unreviewed = cache[i].unreviewed
  BY <1>1, <1>4, <1>6
<1>9. CacheTypeOK'
  BY <1>6, <1>7, <1>8 DEF CacheTypeOK
<1>10. ASSUME NEW x \in ToSet(cache')
       PROVE  \E y \in ToSet(cache) : x.unreviewed = y.unreviewed
  <2>1. PICK i \in DOMAIN cache : x = cache'[i]
    BY <1>7 DEF ToSet
  <2>2. cache[i] \in ToSet(cache)
    BY DEF ToSet
  <2> QED
    BY <1>8, <2>1, <2>2
<1> QED
  BY <1>9, <1>10

-----------------------------------------------------------------------------
(* The requests.                                                            *)

SoundRequest(q) ==
    /\ q \in Request
    /\ \A s \in q.told : s \in DOMAIN q.search /\ q.search[s] \in Outcomes
    /\ q.pc \in {"idle", "admitting", "listing", "sizing"} => q.told = {}
    /\ q.pc \in {"extracting", "answering"} => \A s \in DOMAIN q.search : q.search[s] \in Finished
    /\ q.pc = "closed" => DOMAIN q.search = {}

InvOfRequests == req \in [Requests -> Request] /\ \A r \in Requests : SoundRequest(req[r])

\* The searches of a request, by what each of them is.
LEMMA SearchesAre ==
  ASSUME NEW f
  PROVE  f \in Searches <=> /\ DOMAIN f \subseteq Sources
                            /\ f \in [DOMAIN f -> Finished \cup Unfinished]
BY DEF Searches

\* A step of one request leaves the others as they are.
LEMMA RequestMoves ==
  ASSUME InvOfRequests, NEW r \in Requests, NEW new, SoundRequest(new),
         req' = [req EXCEPT ![r] = new]
  PROVE  InvOfRequests'
<1>1. /\ req' \in [Requests -> Request] /\ req'[r] = new
      /\ \A q \in Requests \ {r} : req'[q] = req[q]
  BY DEF InvOfRequests, SoundRequest
<1> QED
  BY <1>1 DEF InvOfRequests

\* A request with some searches left, and nothing else.
LEMMA SearchesLeft ==
  ASSUME InvOfRequests, NEW r \in Requests, NEW S, S \subseteq Searched(r),
         NEW left, left = Restrict(req[r].search, S),
         NEW new, req' = [req EXCEPT ![r] = new],
         left \in Searches => new \in Request,
         new.search = left, new.told = {},
         new.pc = "closing" \/ (new.pc = "closed" /\ S = {})
  PROVE  InvOfRequests'
<1>1. req[r] \in Request
  BY DEF InvOfRequests, SoundRequest
<1>2. req[r].search \in Searches
  BY <1>1 DEF Request
<1>3. DOMAIN left = S /\ left \in Searches
  <2>1. DOMAIN left = S /\ \A s \in S : left[s] = req[r].search[s]
    BY DEF Restrict
  <2>2. left \in [S -> Finished \cup Unfinished]
    BY <1>2, SearchesAre DEF Restrict, Searched
  <2> QED
    BY <1>2, <2>1, <2>2, SearchesAre DEF Searched
<1>4. SoundRequest(new)
  BY <1>3 DEF SoundRequest
<1> QED
  BY <1>4, RequestMoves

\* An answer closes its request and leaves it no search.
LEMMA AnswersIsSound ==
  ASSUME InvOfRequests, NEW r \in Requests,
         NEW a \in {"none", "cached", "results", "capacity", "error", "broken"}, Answers(r, a)
  PROVE  InvOfRequests'
<1>1. PICK S : S = Ended(r, "queued") \cup Ended(r, "running")
  OBVIOUS
<1>2. PICK left : left = Restrict(req[r].search, S)
  OBVIOUS
<1>3. PICK new : new = [Idle EXCEPT !.pc = "closing", !.answer = a, !.search = left]
  OBVIOUS
<1>4. req' = [req EXCEPT ![r] = new]
  BY <1>1, <1>2, <1>3 DEF Answers
<1>5. new.search = left /\ new.told = {} /\ new.pc = "closing"
  BY <1>3 DEF Idle
<1>6. left \in Searches => new \in Request
  BY <1>3 DEF Idle, Request, Stages
<1>7. S \subseteq Searched(r)
  BY <1>1 DEF Ended
<1> QED
  BY <1>2, <1>4, <1>5, <1>6, <1>7, SearchesLeft

\* One search of a request goes on, of which nobody has been told.
LEMMA SearchMoves ==
  ASSUME InvOfRequests, NEW r \in Requests, NEW s \in Searched(r),
         req[r].search[s] \in Unfinished, NEW o \in Finished \cup Unfinished,
         req' = [req EXCEPT ![r].search[s] = o]
  PROVE  InvOfRequests'
<1>1. SoundRequest(req[r])
  BY DEF InvOfRequests
<1>2. req[r] \in Request /\ req[r].search \in Searches
  BY <1>1 DEF SoundRequest, Request
<1>3. PICK search : search = [req[r].search EXCEPT ![s] = o]
  OBVIOUS
<1>4. /\ DOMAIN search = Searched(r) /\ search[s] = o
      /\ \A t \in Searched(r) \ {s} : search[t] = req[r].search[t]
  BY <1>3 DEF Searched
<1>5. search \in Searches
  BY <1>2, <1>3, <1>4, SearchesAre DEF Searched
<1>6. PICK new : new = [req[r] EXCEPT !.search = search]
  OBVIOUS
<1>7. /\ new \in Request /\ new.search = search
      /\ new.told = req[r].told /\ new.pc = req[r].pc
  BY <1>2, <1>5, <1>6 DEF Request
<1>8. s \notin req[r].told /\ req[r].pc \notin {"extracting", "answering"}
  BY <1>1 DEF SoundRequest, Searched, Outcomes, Finished, Unfinished
<1>9. req[r].pc # "closed"
  BY <1>1 DEF SoundRequest, Searched
<1>10. SoundRequest(new)
  BY <1>1, <1>4, <1>7, <1>8, <1>9 DEF SoundRequest, Searched
<1>11. req' = [req EXCEPT ![r] = new]
  BY <1>3, <1>6 DEF InvOfRequests
<1> QED
  BY <1>10, <1>11, RequestMoves

\* Everything but the searches of a request may change otherwise.
LEMMA StageMoves ==
  ASSUME InvOfRequests, NEW r \in Requests, NEW new,
         req' = [req EXCEPT ![r] = new], new \in Request, new.search = req[r].search,
         \A s \in new.told : s \in Searched(r) /\ req[r].search[s] \in Outcomes,
         new.pc \in {"idle", "admitting", "listing", "sizing"} => new.told = {},
         new.pc \in {"extracting", "answering"} => AllEnded(r), new.pc # "closed"
  PROVE  InvOfRequests'
BY RequestMoves DEF SoundRequest, Searched, AllEnded

\* A request goes on to its claims when every search has ended.
LEMMA GoesIsSound ==
  ASSUME InvOfRequests, NEW r \in Requests, NEW pc \in {"searching", "draining", "extracting"},
         req[r].pc \in {"searching", "sizing"}, Goes(r, pc),
         pc = "extracting" => AllEnded(r)
  PROVE  InvOfRequests'
<1>1. SoundRequest(req[r]) /\ req[r] \in Request
  BY DEF InvOfRequests, SoundRequest
<1>2. PICK new : new = [req[r] EXCEPT !.pc = pc]
  OBVIOUS
<1>3. /\ new \in Request /\ new.pc = pc /\ new.search = req[r].search
      /\ new.told = req[r].told
  BY <1>1, <1>2 DEF Request, Stages
<1>4. req' = [req EXCEPT ![r] = new]
  BY <1>2 DEF Goes, InvOfRequests
<1> QED
  BY <1>1, <1>3, <1>4, StageMoves DEF SoundRequest, Searched

\* Up to the search.
LEMMA AskingIsSound ==
  ASSUME InvOfRequests, NEW r \in Requests,
         (\E key \in Keys : Ask(r, key)) \/ Admit(r) \/ List(r) \/ Size(r)
  PROVE  InvOfRequests'
<1>1. SoundRequest(req[r]) /\ req[r] \in Request /\ req[r].search \in Searches
  BY DEF InvOfRequests, SoundRequest, Request
<1>2. CASE \E a \in {"cached", "error"} : Answers(r, a)
  BY <1>2, AnswersIsSound
<1>3. ASSUME NEW key \in Keys, At(r, "idle"),
             req' = [req EXCEPT ![r].pc = "admitting", ![r].key = key]
      PROVE  InvOfRequests'
  <2>1. PICK new : new = [req[r] EXCEPT !.pc = "admitting", !.key = key]
    OBVIOUS
  <2>2. /\ new \in Request /\ new.pc = "admitting" /\ new.search = req[r].search
        /\ new.told = req[r].told
    BY <1>1, <2>1 DEF Request, Stages
  <2>3. req' = [req EXCEPT ![r] = new]
    BY <1>3, <2>1 DEF InvOfRequests
  <2> QED
    BY <1>1, <1>3, <2>2, <2>3, StageMoves DEF SoundRequest, At
<1>4. ASSUME At(r, "admitting"), Goes(r, "listing")
      PROVE  InvOfRequests'
  <2>1. PICK new : new = [req[r] EXCEPT !.pc = "listing"]
    OBVIOUS
  <2>2. /\ new \in Request /\ new.pc = "listing" /\ new.search = req[r].search
        /\ new.told = req[r].told
    BY <1>1, <2>1 DEF Request, Stages
  <2>3. req' = [req EXCEPT ![r] = new]
    BY <1>4, <2>1 DEF InvOfRequests, Goes
  <2> QED
    BY <1>1, <1>4, <2>2, <2>3, StageMoves DEF SoundRequest, At
<1>5. ASSUME NEW S \in SUBSET Sources, At(r, "listing"),
             req' = [req EXCEPT ![r].pc = "sizing", ![r].search = [s \in S |-> "queued"]]
      PROVE  InvOfRequests'
  <2>1. PICK search : search = [s \in S |-> "queued"]
    OBVIOUS
  <2>2. search \in Searches
    BY <2>1, SearchesAre DEF Unfinished
  <2>3. PICK new : new = [req[r] EXCEPT !.pc = "sizing", !.search = search]
    OBVIOUS
  <2>4. new \in Request /\ new.pc = "sizing" /\ new.told = req[r].told
    BY <1>1, <2>2, <2>3 DEF Request, Stages
  <2>5. req[r].told = {}
    BY <1>1, <1>5 DEF SoundRequest, At
  <2>6. SoundRequest(new)
    BY <2>4, <2>5 DEF SoundRequest
  <2>7. req' = [req EXCEPT ![r] = new]
    BY <1>5, <2>1, <2>3 DEF InvOfRequests
  <2> QED
    BY <2>6, <2>7, RequestMoves
<1>6. ASSUME At(r, "sizing"), NEW n \in 1 .. Cardinality(Searched(r)),
             req' = [req EXCEPT ![r].pc = "searching", ![r].permits = n]
      PROVE  InvOfRequests'
  <2>1. Searched(r) \subseteq Sources
    BY <1>1, SearchesAre DEF Searched
  <2>2. n \in Nat
    BY <2>1, FS_Subset, FS_CardinalityType, CompareAssumption
  <2>3. PICK new : new = [req[r] EXCEPT !.pc = "searching", !.permits = n]
    OBVIOUS
  <2>4. /\ new \in Request /\ new.pc = "searching" /\ new.search = req[r].search
        /\ new.told = req[r].told
    BY <1>1, <2>2, <2>3 DEF Request, Stages
  <2>5. req' = [req EXCEPT ![r] = new]
    BY <1>6, <2>3 DEF InvOfRequests
  <2> QED
    BY <1>1, <2>4, <2>5, StageMoves DEF SoundRequest, Searched
<1>7. CASE \E key \in Keys : Ask(r, key)
  BY <1>2, <1>3, <1>7 DEF Ask
<1>8. CASE Admit(r)
  BY <1>2, <1>4, <1>8 DEF Admit
<1>9. CASE List(r)
  BY <1>2, <1>5, <1>9 DEF List
<1>10. CASE Size(r)
  BY <1>2, <1>6, <1>10 DEF Size
<1> QED
  BY <1>7, <1>8, <1>9, <1>10

\* The searches, and what ends them for the request.
LEMMA SearchingIsSound ==
  ASSUME InvOfRequests, NEW r \in Requests,
         \/ \E s \in Searched(r) : SearchStarts(r, s) \/ SearchEnds(r, s) \/ Tell(r, s)
         \/ Gather(r) \/ Told(r) \/ Drain(r)
  PROVE  InvOfRequests'
<1>1. SoundRequest(req[r]) /\ req[r] \in Request /\ req[r].search \in Searches
  BY DEF InvOfRequests, SoundRequest, Request
<1>2. CASE \E a \in {"capacity", "error"} : Answers(r, a)
  BY <1>2, AnswersIsSound
<1>3. ASSUME NEW s \in Searched(r), SearchStarts(r, s) \/ SearchEnds(r, s)
      PROVE  InvOfRequests'
  BY <1>3, SearchMoves DEF SearchStarts, SearchEnds, Ended, Unfinished, Finished
<1>4. ASSUME NEW s \in Searched(r), Tell(r, s)
      PROVE  InvOfRequests'
  <2>1. CASE Goes(r, "draining")
    BY <1>4, <2>1, GoesIsSound DEF Tell, At
  <2>2. CASE req' = [req EXCEPT ![r].told = @ \cup {s}]
    <3>1. PICK new : new = [req[r] EXCEPT !.told = @ \cup {s}]
      OBVIOUS
    <3>2. req[r].told \cup {s} \subseteq Sources
      BY <1>1, <1>4, SearchesAre DEF Request, Searched
    <3>3. /\ new \in Request /\ new.pc = req[r].pc /\ new.search = req[r].search
          /\ new.told = req[r].told \cup {s}
      BY <1>1, <3>1, <3>2 DEF Request
    <3>4. req' = [req EXCEPT ![r] = new]
      BY <2>2, <3>1 DEF InvOfRequests
    <3>5. \A t \in new.told : t \in Searched(r) /\ req[r].search[t] \in Outcomes
      BY <1>1, <1>4, <3>3 DEF SoundRequest, Searched, Tell
    <3>6. new.pc = "searching"
      BY <1>4, <3>3 DEF Tell, At
    <3> QED
      BY <3>3, <3>4, <3>5, <3>6, StageMoves
  <2> QED
    BY <1>4, <2>1, <2>2 DEF Tell
<1>5. CASE Gather(r)
  BY <1>2, <1>5, GoesIsSound DEF Gather, At
<1>6. CASE Told(r)
  <2>1. AllEnded(r)
    BY <1>1, <1>6 DEF Told, AllEnded, SoundRequest, Searched, Finished
  <2> QED
    BY <1>2, <1>6, <2>1, GoesIsSound DEF Told, At
<1>7. CASE Drain(r)
  BY <1>2, <1>7 DEF Drain
<1> QED
  BY <1>3, <1>4, <1>5, <1>6, <1>7

\* And the rest of a request.
LEMMA AnsweringIsSound ==
  ASSUME InvOfRequests, NEW r \in Requests,
         Extract(r) \/ Answer(r) \/ Close(r) \/ Timeout(r) \/ Disconnect(r)
  PROVE  InvOfRequests'
<1>1. SoundRequest(req[r]) /\ req[r] \in Request /\ req[r].search \in Searches
  BY DEF InvOfRequests, SoundRequest, Request
<1>2. CASE \E a \in {"capacity", "error", "results", "broken"} : Answers(r, a)
  BY <1>2, AnswersIsSound
<1>3. ASSUME At(r, "extracting"), NEW claims \in {"whole", "limited", "unparsed"},
             req' = [req EXCEPT ![r].pc = "answering", ![r].claims = claims]
      PROVE  InvOfRequests'
  <2>1. PICK new : new = [req[r] EXCEPT !.pc = "answering", !.claims = claims]
    OBVIOUS
  <2>2. /\ new \in Request /\ new.pc = "answering" /\ new.search = req[r].search
        /\ new.told = req[r].told
    BY <1>1, <2>1 DEF Request, Stages
  <2>3. req' = [req EXCEPT ![r] = new]
    BY <1>3, <2>1 DEF InvOfRequests
  <2> QED
    BY <1>1, <1>3, <2>2, <2>3, StageMoves DEF SoundRequest, At, Searched, AllEnded
<1>4. CASE Extract(r)
  BY <1>2, <1>3, <1>4 DEF Extract
<1>5. CASE Answer(r) \/ Timeout(r) \/ Disconnect(r)
  BY <1>2, <1>5 DEF Answer, Timeout, Disconnect
<1>6. CASE Close(r)
  <2>1. PICK S : /\ S = {s \in Searched(r) : Cancelled(req[r].search[s]) \in Unfinished}
                 /\ req' = [req EXCEPT ![r] = [Idle EXCEPT !.pc = "closed",
                                                !.search = Restrict(req[r].search, S)]]
    BY <1>6 DEF Close
  <2>2. S = {}
    BY <2>1 DEF Cancelled, Unfinished
  <2>3. PICK left : left = Restrict(req[r].search, S)
    OBVIOUS
  <2>4. PICK new : new = [Idle EXCEPT !.pc = "closed", !.search = left]
    OBVIOUS
  <2>5. req' = [req EXCEPT ![r] = new]
    BY <2>1, <2>3, <2>4
  <2>6. new.search = left /\ new.told = {} /\ new.pc = "closed"
    BY <2>4 DEF Idle
  <2>7. left \in Searches => new \in Request
    BY <2>4 DEF Idle, Request, Stages
  <2> QED
    BY <2>2, <2>3, <2>5, <2>6, <2>7, SearchesLeft
<1> QED
  BY <1>4, <1>5, <1>6

-----------------------------------------------------------------------------
(* The steps.                                                               *)

\* Before anybody asks, there is nothing to be unsound.
LEMMA InitIsSound ==
  ASSUME InitCompare
  PROVE  InvOfRequests /\ CacheTypeOK /\ UnreviewedIsNotReused
<1>1. PICK none : none = NoSearch
  OBVIOUS
<1>2. DOMAIN none = {} /\ none \in Searches
  BY <1>1, SearchesAre DEF NoSearch
<1>3. PICK new : new = Idle
  OBVIOUS
<1>4. new \in Request /\ new.told = {} /\ new.pc = "idle"
  BY <1>1, <1>2, <1>3 DEF Idle, Request, Stages
<1>5. SoundRequest(new)
  BY <1>4 DEF SoundRequest
<1>6. InvOfRequests
  BY <1>3, <1>4, <1>5 DEF InitCompare, InvOfRequests
<1>7. cache = <<>> /\ cache \in Seq(CachedEntry) /\ Len(cache) = 0 /\ DOMAIN cache = {}
  BY DEF InitCompare
<1>8. CacheTypeOK /\ UnreviewedIsNotReused
  BY <1>7, CompareAssumption DEF CacheTypeOK, UnreviewedIsNotReused, ToSet
<1> QED
  BY <1>6, <1>8

\* A step of a request changes the cache by asking and by answering.
LEMMA RequestsStaySound ==
  ASSUME InvOfRequests, Next
  PROVE  InvOfRequests'
<1>1. CASE Expire \/ Done
  BY <1>1 DEF Expire, Done, vars, InvOfRequests
<1>2. ASSUME NEW r \in Requests, NEW key \in Keys, Ask(r, key)
      PROVE  InvOfRequests'
  BY <1>2, AskingIsSound
<1>3. ASSUME NEW r \in Requests, Step(r) \/ Timeout(r) \/ Disconnect(r)
      PROVE  InvOfRequests'
  <2>1. CASE Admit(r) \/ List(r) \/ Size(r)
    BY <2>1, AskingIsSound
  <2>2. CASE \/ \E s \in Searched(r) : SearchStarts(r, s) \/ SearchEnds(r, s) \/ Tell(r, s)
             \/ Gather(r) \/ Told(r) \/ Drain(r)
    BY <2>2, SearchingIsSound
  <2>3. CASE Extract(r) \/ Answer(r) \/ Close(r) \/ Timeout(r) \/ Disconnect(r)
    BY <2>3, AnsweringIsSound
  <2> QED
    BY <1>3, <2>1, <2>2, <2>3 DEF Step
<1> QED
  BY <1>1, <1>2, <1>3 DEF Next

\* What a request would store is an entry.
LEMMA EntryIsCached ==
  ASSUME InvOfRequests, NEW r \in Requests
  PROVE  /\ Entry(r) \in CachedEntry
         /\ Entry(r).unreviewed <=> req[r].claims = "limited"
BY DEF Entry, CachedEntry, InvOfRequests, Request

\* The cache stays within its limit, and what is unreviewed in it was so
\* before or comes from the answer to a stream.
LEMMA CacheStaysSound ==
  ASSUME InvOfRequests, CacheTypeOK, Next
  PROVE  /\ CacheTypeOK'
         /\ \A x \in ToSet(cache') :
               \/ \E y \in ToSet(cache) : x.unreviewed = y.unreviewed
               \/ ~x.unreviewed
               \/ Streams # {}
<1>1. CASE UNCHANGED cache
  BY <1>1 DEF CacheTypeOK, ToSet
<1>2. CASE Expire
  BY <1>2, ExpireKeepsCache DEF Expire
<1>3. ASSUME NEW r \in Requests, NEW key \in Keys, Ask(r, key)
      PROVE  CacheTypeOK' /\ \A x \in ToSet(cache') : x \in ToSet(cache)
  BY <1>3, HitKeepsCache, DropKeepsCache DEF Ask
<1>4. ASSUME NEW r \in Requests, Answer(r), ~UNCHANGED cache
      PROVE  /\ CacheTypeOK'
             /\ \A x \in ToSet(cache') :
                   x \in ToSet(cache) \/ ~x.unreviewed \/ Streams # {}
  <2>1. PICK e : e = Entry(r)
    OBVIOUS
  <2>2. e \in CachedEntry /\ (e.unreviewed <=> req[r].claims = "limited")
    BY <2>1, EntryIsCached
  <2>3. ~Limited(r) /\ cache' = Stored(e)
    BY <1>4, <2>1 DEF Answer
  <2>4. CacheTypeOK' /\ \A x \in ToSet(cache') : x = e \/ x \in ToSet(cache)
    BY <2>2, <2>3, StoreKeepsCache
  <2>5. ~e.unreviewed \/ Streams # {}
    BY <2>2, <2>3 DEF Limited
  <2> QED
    BY <2>4, <2>5
<1>5. ASSUME NEW r \in Requests, Step(r) \/ Timeout(r) \/ Disconnect(r), ~Answer(r)
      PROVE  UNCHANGED cache
  BY <1>5 DEF Step, Admit, List, Size, SearchStarts, SearchEnds, Tell, Gather, Told, Drain,
              Extract, Close, Timeout, Disconnect
<1>6. CASE Done
  BY <1>1, <1>6 DEF Done, vars
<1> QED
  BY <1>1, <1>2, <1>3, <1>4, <1>5, <1>6 DEF Next

-----------------------------------------------------------------------------
(* The theorems.                                                            *)

\* Compare keeps its cache within its limit, with one entry a key, extracts
\* claims when the searches are over, and searches nothing for a closed
\* request: for every number of outlets, requests and entries.
THEOREM RequestsAreBounded == Spec => []CompareInv
<1>1. InitCompare => InvOfRequests /\ CacheTypeOK
  BY InitIsSound
<1>2. InvOfRequests /\ CacheTypeOK /\ [Next]_vars => InvOfRequests' /\ CacheTypeOK'
  <2> SUFFICES ASSUME InvOfRequests, CacheTypeOK, [Next]_vars
               PROVE  InvOfRequests' /\ CacheTypeOK'
    OBVIOUS
  <2>1. CASE Next
    BY <2>1, RequestsStaySound, CacheStaysSound
  <2>2. CASE UNCHANGED vars
    BY <2>2 DEF vars, InvOfRequests, CacheTypeOK
  <2> QED
    BY <2>1, <2>2
<1>3. InvOfRequests /\ CacheTypeOK => CompareInv
  BY DEF InvOfRequests, SoundRequest, CompareInv, CompareTypeOK, ClaimsFollowSearches,
         NoSearchOutlivesItsRequest, At, Searched, AllEnded
<1> QED
  BY <1>1, <1>2, <1>3, PTL DEF Spec

\* Without the stream endpoint no comparison whose review was cut short is
\* served again: the JSON endpoint alone does what store_comparison promises.
THEOREM JsonReusesWhatWasReviewed ==
  ASSUME Streams = {}
  PROVE  Spec => []UnreviewedIsNotReused
<1> DEFINE Inv == InvOfRequests /\ CacheTypeOK /\ UnreviewedIsNotReused
<1>1. InitCompare => Inv
  BY InitIsSound
<1>2. Inv /\ [Next]_vars => Inv'
  <2> SUFFICES ASSUME Inv, [Next]_vars
               PROVE  Inv'
    OBVIOUS
  <2>1. CASE Next
    <3>1. InvOfRequests' /\ CacheTypeOK'
      BY <2>1, RequestsStaySound, CacheStaysSound
    <3>2. UnreviewedIsNotReused'
      BY <2>1, CacheStaysSound DEF UnreviewedIsNotReused
    <3> QED
      BY <3>1, <3>2
  <2>2. CASE UNCHANGED vars
    BY <2>2 DEF vars, InvOfRequests, CacheTypeOK, UnreviewedIsNotReused, ToSet
  <2> QED
    BY <2>1, <2>2
<1> QED
  BY <1>1, <1>2, PTL DEF Spec
=============================================================================
