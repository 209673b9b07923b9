---------------------------- MODULE ClientProofs ----------------------------
(***************************************************************************)
(* Safety of the client of internal/ghclient: ConditionalGet, its          *)
(* conditional reads, for every set of reads, writes and URLs, every       *)
(* capacity and every choice of faults; and AppAuth, its tokens, for every *)
(* number of callers and installations and every lifetime.                 *)
(*                                                                         *)
(* The two share no state: they are proved here side by side.              *)
(***************************************************************************)
EXTENDS ConditionalGet, AppAuth, FiniteSetTheorems, TLAPS

Versions == 0 .. MaxVersion

\* One entry per URL and per rank.
Unique(S) == \A e, o \in S : e.key = o.key \/ e.rank = o.rank => e = o

\* An entry holds a body of its own URL that GitHub had.
CacheInv == \A e \in cache : e.tag.url = e.key /\ e.tag.version <= content[e.key]

\* No older than read r, or than one it joined.
NotBehind(r, v) == \E x \in with[r] : v >= x

\* What is known of a read under way: whatever is in the cache for its URL is
\* what it asked with or was stored by a read that is not behind it, and what
\* GitHub answered is no older than the read.
ReadOK(r) ==
    /\ read[r] \in {"asked", "answered"} =>
          /\ began[r] <= content[UrlOf[r]] /\ began[r] \in with[r]
          /\ asked[r] # NoTag => asked[r].url = UrlOf[r]
          /\ \A s \in UnderWay(UrlOf[r]) : NotBehind(r, began[s])
          /\ \A e \in Cached(UrlOf[r]) : e.tag = asked[r] \/ NotBehind(r, e.tag.version)
    /\ read[r] \in {"idle", "asked"} => body[r] = NoTag
    /\ read[r] = "answered" =>
          /\ answer[r] = "304" => asked[r] # NoTag /\ asked[r].version >= began[r]
          /\ answer[r] = "200" => body[r] # NoTag
          /\ body[r] # NoTag => /\ body[r].url = UrlOf[r] /\ body[r].version >= began[r]
                                /\ body[r].version <= content[UrlOf[r]]

ReadInv == \A r \in Reads : ReadOK(r)

\* The cache still has something for u, and what is in front of it is of the
\* URLs in S.
InFront(S, e) == \A o \in cache : o.rank < e.rank => o.key \in S

Keeps(u, S) == \E e \in cache : e.key = u /\ InFront(S, e)

\* What a read under way asked with is there until it is dropped, or until as
\* many other URLs were read as the cache has room for.
KeepOK(r) ==
    /\ IsFiniteSet(since[r])
    /\ read[r] = "idle" => since[r] = {}
    /\ read[r] \in {"asked", "answered"} /\ asked[r] # NoTag /\ ~dropped[r] =>
          Keeps(UrlOf[r], since[r]) \/ Cardinality(since[r]) >= Cap

KeepInv == \A r \in Reads : KeepOK(r)

IInv == TypeOK /\ CacheInv /\ ReadInv /\ KeepInv

-----------------------------------------------------------------------------
\* The cache

\* What the constants are assumed to be.
LEMMA Bounds == /\ MaxVersion \in Nat /\ Cap \in Nat /\ 1 <= Cap /\ NoTag \notin Tags
                /\ \A r \in Reads : UrlOf[r] \in Urls
BY ConditionalGetAssumption DEF Tags

\* What putting an entry in front leaves in the cache: the entry, and of the
\* others those that fit, each a rank further at most.
LEMMA FrontHas ==
    ASSUME NEW k, NEW t
    PROVE  \A n \in ToFront(k, t) :
              \/ n = [key |-> k, tag |-> t, rank |-> 1]
              \/ \E e \in cache : /\ e.key # k
                                  /\ \/ n = e
                                     \/ n = [e EXCEPT !.rank = @ + 1] /\ e.rank < Cap
BY DEF ToFront, Cached

\* Putting an entry in front keeps one entry per URL and per rank, and none past
\* the capacity.
LEMMA FrontType ==
    ASSUME cache \subseteq Entries, Unique(cache), NEW k \in Urls, NEW t \in Tags
    PROVE  ToFront(k, t) \subseteq Entries /\ Unique(ToFront(k, t))
<1> DEFINE others == cache \ Cached(k)
           pushed(e) == \A n \in 1 .. e.rank : \E o \in others : o.rank = n
           new == [key |-> k, tag |-> t, rank |-> 1]
           up(e) == [e EXCEPT !.rank = @ + 1]
<1>1. /\ \A e \in others : e \in Entries /\ e.key # k
      /\ Unique(others)
  BY DEF Cached, Unique
<1>2. \A e \in others : /\ e.rank \in 1..Cap /\ up(e).key = e.key /\ up(e).tag = e.tag
                        /\ up(e).rank = e.rank + 1
                        /\ e.rank < Cap => up(e) \in Entries
  BY <1>1, Bounds DEF Entries
<1>3. new \in Entries /\ new.key = k /\ new.rank = 1
  BY Bounds DEF Entries
<1>4. \A n \in ToFront(k, t) :
         \/ n = new
         \/ n \in others /\ ~pushed(n)
         \/ \E e \in others : pushed(e) /\ e.rank < Cap /\ n = up(e)
  BY DEF ToFront
<1>5. ToFront(k, t) \subseteq Entries
  BY <1>1, <1>2, <1>3, <1>4
\* A pushed entry goes where no entry stays: the rank after a pushed one is
\* pushed as well, or free; and an entry that stays is not of rank 1.
<1>6. ASSUME NEW e \in others, pushed(e), NEW o \in others, ~pushed(o) PROVE up(e).rank # o.rank
  <2> HIDE DEF others, pushed, up
  <2>0. e.rank \in 1..Cap /\ o.rank \in 1..Cap /\ up(e).rank = e.rank + 1
    BY <1>2
  <2>1. e.rank \in Nat /\ o.rank \in Nat
    BY <2>0, Bounds
  <2>2. ASSUME e.rank + 1 = o.rank, NEW n \in 1..o.rank PROVE \E x \in others : x.rank = n
    <3>1. CASE n = o.rank
      BY <3>1
    <3>2. CASE n # o.rank
      <4>1. n \in 1..e.rank
        BY <2>1, <2>2, <3>2
      <4> QED
        BY <1>6, <4>1 DEF pushed
    <3> QED
      BY <3>1, <3>2
  <2>3. e.rank + 1 # o.rank
    BY <1>6, <2>2 DEF pushed
  <2> QED
    BY <2>0, <2>3
<1>7. ASSUME NEW o \in others, ~pushed(o) PROVE o.rank # 1
  <2> SUFFICES ASSUME o.rank = 1 PROVE FALSE
    OBVIOUS
  <2>1. \A n \in 1..o.rank : n = o.rank
    OBVIOUS
  <2> QED
    BY <1>7, <2>1
<1> HIDE DEF others, pushed, new, up
<1>8. ASSUME NEW a \in ToFront(k, t), NEW b \in ToFront(k, t), a.key = b.key \/ a.rank = b.rank
      PROVE  a = b
  <2>1. CASE a = new \/ b = new
    <3>1. ASSUME NEW x \in ToFront(k, t), x # new PROVE x.key # k /\ x.rank # 1
      <4>1. CASE x \in others /\ ~pushed(x)
        BY <1>1, <1>7, <4>1
      <4>2. ASSUME NEW e \in others, x = up(e) PROVE x.key # k /\ x.rank # 1
        <5>1. e.rank \in 1..Cap /\ x.key = e.key /\ x.rank = e.rank + 1 /\ e.key # k
          BY <1>1, <1>2, <4>2
        <5> QED
          BY <5>1, Bounds
      <4> QED
        BY <1>4, <3>1, <4>1, <4>2
    <3> QED
      BY <1>3, <1>8, <2>1, <3>1
  <2>2. CASE a \in others /\ ~pushed(a) /\ b \in others
    BY <1>1, <1>8, <2>2 DEF Unique
  <2>3. ASSUME NEW x \in others, pushed(x), NEW y \in others, ~pushed(y),
               x.key = y.key \/ up(x).rank = y.rank
        PROVE  FALSE
    BY <1>1, <1>6, <2>3 DEF Unique
  <2>4. ASSUME NEW x \in others, NEW y \in others, up(x).key = up(y).key \/ up(x).rank = up(y).rank
        PROVE  up(x) = up(y)
    BY <1>1, <1>2, <2>4 DEF Unique
  <2> QED
    BY <1>2, <1>4, <1>8, <2>1, <2>2, <2>3, <2>4
<1> QED
  BY <1>5, <1>8 DEF Unique

\* The tag of the entry for a URL.
LEMMA TagOfIt ==
    ASSUME cache \subseteq Entries, NEW k \in Urls
    PROVE  /\ TagOf(k) = NoTag <=> Cached(k) = {}
           /\ Cached(k) # {} => TagOf(k) \in Tags /\ \E e \in Cached(k) : e.tag = TagOf(k)
           /\ TagOf(k) \in Tags \union {NoTag}
<1>1. CASE Cached(k) = {}
  BY <1>1 DEF TagOf
<1>2. CASE Cached(k) # {}
  <2>1. PICK e \in Cached(k) : TagOf(k) = e.tag
    BY <1>2 DEF TagOf
  <2>2. e.tag \in Tags
    BY <2>1 DEF Cached, Entries
  <2> QED
    BY <1>2, <2>1, <2>2, Bounds
<1> QED
  BY <1>1, <1>2

\* Ranks that are all taken by entries of S are no more than S has members.
LEMMA RanksTaken ==
    ASSUME cache \subseteq Entries, Unique(cache), NEW S, IsFiniteSet(S), NEW k \in S,
           \A n \in 1 .. Cap - 1 : \E o \in cache : o.rank = n /\ o.key \in S /\ o.key # k
    PROVE  Cardinality(S) >= Cap
<1> DEFINE at(n) == CHOOSE o \in cache : o.rank = n /\ o.key \in S /\ o.key # k
           f == [n \in 1 .. Cap |-> IF n = Cap THEN k ELSE at(n).key]
<1>1. ASSUME NEW n \in 1 .. Cap, n # Cap
      PROVE  at(n) \in cache /\ at(n).rank = n /\ at(n).key \in S /\ at(n).key # k
  <2>1. n \in 1 .. Cap - 1
    BY <1>1, Bounds
  <2>2. \E o \in cache : o.rank = n /\ o.key \in S /\ o.key # k
    BY <2>1
  <2> QED
    BY <2>2
<1> HIDE DEF at
<1>2. f \in [1 .. Cap -> S]
  BY <1>1
<1>3. ASSUME NEW n \in 1 .. Cap, NEW m \in 1 .. Cap, f[n] = f[m] PROVE n = m
  <2>1. CASE n = Cap \/ m = Cap
    BY <1>1, <1>3, <2>1
  <2>2. CASE n # Cap /\ m # Cap
    <3>1. at(n).key = at(m).key
      BY <1>3, <2>2
    <3>2. at(n) = at(m)
      BY <1>1, <2>2, <3>1 DEF Unique
    <3> QED
      BY <1>1, <2>2, <3>2
  <2> QED
    BY <2>1, <2>2
<1> HIDE DEF f
<1>4. f \in Injection(1 .. Cap, S)
  BY <1>2, <1>3 DEF Injection, IsInjective
<1>5. Cardinality(1 .. Cap) = Cap
  BY FS_Interval, Bounds
<1> QED
  BY <1>4, <1>5, FS_Injection

\* Putting another URL in front moves no entry out but one that has as many
\* others in front of it as there is room for.
LEMMA FrontKeeps ==
    ASSUME cache \subseteq Entries, Unique(cache), NEW k \in Urls, NEW t \in Tags,
           NEW S, IsFiniteSet(S), NEW e \in cache, e.key # k, InFront(S, e)
    PROVE  \/ Cardinality(S \union {k}) >= Cap
           \/ \E n \in ToFront(k, t) :
                 /\ n.key = e.key
                 /\ \A o \in ToFront(k, t) : o.rank < n.rank => o.key \in S \union {k}
<1> DEFINE others == cache \ Cached(k)
           pushed(x) == \A n \in 1 .. x.rank : \E o \in others : o.rank = n
           new == [key |-> k, tag |-> t, rank |-> 1]
           up(x) == [x EXCEPT !.rank = @ + 1]
<1>1. /\ \A x \in others : x \in cache /\ x \in Entries /\ x.key # k
      /\ e \in others
  BY DEF Cached
<1>2. \A x \in others : /\ x.rank \in 1..Cap /\ up(x).key = x.key /\ up(x).rank = x.rank + 1
  BY <1>1 DEF Entries
<1>3. /\ \A n \in ToFront(k, t) :
             \/ n = new
             \/ n \in others /\ ~pushed(n)
             \/ \E x \in others : n = up(x)
      /\ \A x \in others : ~pushed(x) => x \in ToFront(k, t)
      /\ \A x \in others : pushed(x) /\ x.rank < Cap => up(x) \in ToFront(k, t)
  BY DEF ToFront
<1>4. new.key = k /\ new.rank = 1
  OBVIOUS
<1> HIDE DEF new, up
\* Where e stays, and where it is pushed, the same are in front of it and k.
<1>5. CASE ~pushed(e)
  <2>1. e \in ToFront(k, t)
    BY <1>1, <1>3, <1>5
  <2>2. ASSUME NEW o \in ToFront(k, t), o.rank < e.rank PROVE o.key \in S \union {k}
    <3>1. CASE o = new
      BY <1>4, <3>1
    <3>2. CASE o \in others
      BY <1>1, <2>2, <3>2 DEF InFront
    <3>3. ASSUME NEW x \in others, o = up(x) PROVE o.key \in S \union {k}
      <4>1. x.rank < e.rank
        BY <1>1, <1>2, <2>2, <3>3, Bounds
      <4> QED
        BY <1>1, <1>2, <3>3, <4>1 DEF InFront
    <3> QED
      BY <1>3, <3>1, <3>2, <3>3
  <2> QED
    BY <2>1, <2>2
<1>6. CASE pushed(e) /\ e.rank < Cap
  <2>1. up(e) \in ToFront(k, t) /\ up(e).key = e.key /\ up(e).rank = e.rank + 1
    BY <1>1, <1>2, <1>3, <1>6
  <2>2. ASSUME NEW o \in ToFront(k, t), o.rank < up(e).rank PROVE o.key \in S \union {k}
    <3>1. CASE o = new
      BY <1>4, <3>1
    <3>2. CASE o \in others /\ ~pushed(o)
      <4>1. o # e /\ o.rank \in 1..Cap /\ e.rank \in 1..Cap
        BY <1>1, <1>2, <1>6, <3>2
      <4>2. o.rank # e.rank
        BY <1>1, <3>2, <4>1 DEF Unique
      <4>3. o.rank < e.rank
        BY <2>1, <2>2, <4>1, <4>2, Bounds
      <4> QED
        BY <1>1, <3>2, <4>3 DEF InFront
    <3>3. ASSUME NEW x \in others, o = up(x) PROVE o.key \in S \union {k}
      <4>1. x.rank \in 1..Cap /\ e.rank \in 1..Cap /\ o.rank = x.rank + 1 /\ o.key = x.key
        BY <1>1, <1>2, <3>3
      <4>2. x.rank < e.rank
        BY <2>1, <2>2, <4>1, Bounds
      <4> QED
        BY <1>1, <4>1, <4>2 DEF InFront
    <3> HIDE DEF others, pushed
    <3> QED
      BY <1>3, <3>1, <3>2, <3>3
  <2> QED
    BY <2>1, <2>2
<1>7. CASE pushed(e) /\ e.rank = Cap
  <2>1. ASSUME NEW n \in 1 .. Cap - 1
        PROVE  \E o \in cache : o.rank = n /\ o.key \in S \union {k} /\ o.key # k
    <3>1. n \in 1 .. e.rank /\ n < e.rank
      BY <1>7, <2>1, Bounds
    <3>2. PICK o \in others : o.rank = n
      BY <1>7, <3>1
    <3> QED
      BY <1>1, <3>1, <3>2 DEF InFront
  <2>2. IsFiniteSet(S \union {k})
    BY FS_AddElement
  <2> QED
    BY <2>1, <2>2, RanksTaken
<1> QED
  <2>1. e.rank \in 1..Cap
    BY <1>1, <1>2
  <2> QED
    BY <1>5, <1>6, <1>7, <2>1, Bounds

\* The body of entry n is one that is cached for its URL.
Held(n) == \E e \in cache : e.key = n.key /\ e.tag = n.tag

\* The body of entry n is a new one for the URL k.
Fresh(n, k, new) == n.key = k /\ n.tag = new /\ new.url = k /\ new.version <= content'[k]

\* Looking an entry up changes no body that is cached, only its rank.
LEMMA TouchedHas ==
    ASSUME IInv, NEW k \in Urls
    PROVE  /\ Touched(k) \subseteq Entries /\ Unique(Touched(k))
           /\ \A n \in Touched(k) : Held(n)
<1>1. cache \subseteq Entries /\ Unique(cache)
  BY DEF IInv, TypeOK, Unique
<1>2. CASE Cached(k) = {}
  BY <1>1, <1>2 DEF Touched, Held
<1>3. CASE Cached(k) # {}
  <2>1. Touched(k) = ToFront(k, TagOf(k)) /\ TagOf(k) \in Tags
    BY <1>1, <1>3, TagOfIt DEF Touched
  <2>2. PICK c \in cache : c.key = k /\ c.tag = TagOf(k)
    BY <1>1, <1>3, TagOfIt DEF Cached
  <2>3. ASSUME NEW n \in Touched(k) PROVE Held(n)
    <3>1. CASE n = [key |-> k, tag |-> TagOf(k), rank |-> 1]
      BY <2>2, <3>1 DEF Held
    <3>2. CASE n # [key |-> k, tag |-> TagOf(k), rank |-> 1]
      <4>1. PICK e \in cache : n = e \/ n = [e EXCEPT !.rank = @ + 1]
        BY <2>1, <2>3, <3>2, FrontHas
      <4>2. e \in Entries
        BY <1>1
      <4>3. n.key = e.key /\ n.tag = e.tag
        BY <4>1, <4>2 DEF Entries
      <4> QED
        BY <4>3 DEF Held
    <3> QED
      BY <3>1, <3>2
  <2> QED
    BY <1>1, <2>1, <2>3, FrontType
<1> QED
  BY <1>2, <1>3

-----------------------------------------------------------------------------
\* Reads

\* At the start nothing is cached and nothing is read.
LEMMA InitInv == Init => IInv
<1> SUFFICES ASSUME Init PROVE IInv
  OBVIOUS
<1>1. TypeOK
  BY Bounds DEF Init, TypeOK
<1>2. CacheInv /\ ReadInv
  BY DEF Init, CacheInv, ReadInv, ReadOK
<1>3. KeepInv
  BY FS_EmptySet DEF Init, KeepInv, KeepOK
<1> QED
  BY <1>1, <1>2, <1>3 DEF IInv

\* What the cache becomes in a step: some of the bodies it had, at most one
\* body new for the URL k, and no other.  Bodies at GitHub only get newer.
CacheStep(k, new) ==
    /\ cache' \subseteq Entries /\ Unique(cache')
    /\ \A n \in cache' : Held(n) \/ Fresh(n, k, new)
    /\ content' \in [Urls -> Versions] /\ \A u \in Urls : content[u] <= content'[u]

\* Versions only grow, and what is cached was there.
LEMMA CacheKept ==
    ASSUME IInv, NEW k \in Urls, NEW new, CacheStep(k, new)
    PROVE  CacheInv'
<1> USE DEF CacheStep
<1> SUFFICES ASSUME NEW n \in cache' PROVE n.tag.url = n.key /\ n.tag.version <= content'[n.key]
  BY DEF CacheInv
<1>1. CASE Held(n)
  <2>1. PICK e \in cache : e.key = n.key /\ e.tag = n.tag
    BY <1>1 DEF Held
  <2>2. e \in Entries /\ e.tag.url = e.key /\ e.tag.version <= content[e.key]
    BY DEF IInv, TypeOK, CacheInv
  <2>3. /\ e.key \in Urls /\ e.tag.version \in Nat /\ content[e.key] \in Nat
        /\ content'[e.key] \in Nat /\ content[e.key] <= content'[e.key]
    BY <2>2, Bounds DEF Entries, Tags, Versions, IInv, TypeOK
  <2> QED
    BY <2>1, <2>2, <2>3
<1>2. CASE Fresh(n, k, new)
  BY <1>2 DEF Fresh
<1> QED
  BY <1>1, <1>2 DEF CacheStep

\* A read that the step leaves alone: the new body, and the read that the step
\* begins, are not behind it.
LEMMA OtherRead ==
    ASSUME IInv, NEW k \in Urls, NEW new, CacheStep(k, new),
           NEW r \in Reads, read'[r] = read[r], asked'[r] = asked[r], answer'[r] = answer[r],
           body'[r] = body[r], began'[r] = began[r], with'[r] = with[r],
           read[r] \in {"asked", "answered"} =>
              /\ UrlOf[r] = k /\ new # NoTag => NotBehind(r, new.version)
              /\ \A s \in UnderWay(UrlOf[r])' : NotBehind(r, began'[s])
    PROVE  ReadOK(r)'
<1> DEFINE u == UrlOf[r]
<1>1. /\ u \in Urls /\ content[u] \in Nat /\ content'[u] \in Nat /\ content[u] <= content'[u]
      /\ began[r] \in Nat /\ body[r] \in Tags \union {NoTag} /\ ReadOK(r)
  BY Bounds DEF IInv, TypeOK, ReadInv, Versions, CacheStep
<1>2. body[r] # NoTag => body[r].version \in Nat
  BY <1>1, Bounds DEF Tags
<1>3. ASSUME read[r] \in {"asked", "answered"}, NEW e \in cache', e.key = u
      PROVE  e.tag = asked[r] \/ NotBehind(r, e.tag.version)
  <2>1. e.tag # NoTag
    BY <1>3, Bounds DEF CacheStep, Entries
  <2>2. CASE Held(e)
    BY <1>1, <1>3, <2>2 DEF Held, ReadOK, Cached
  <2>3. CASE Fresh(e, k, new)
    BY <1>3, <2>1, <2>3 DEF Fresh
  <2> QED
    BY <2>2, <2>3 DEF CacheStep
<1>4. read[r] \in {"asked", "answered"} =>
         /\ began[r] <= content'[u] /\ began[r] \in with[r]
         /\ asked[r] # NoTag => asked[r].url = u
  BY <1>1 DEF ReadOK
<1>5. /\ read[r] \in {"idle", "asked"} => body[r] = NoTag
      /\ read[r] = "answered" =>
            /\ answer[r] = "304" => asked[r] # NoTag /\ asked[r].version >= began[r]
            /\ answer[r] = "200" => body[r] # NoTag
            /\ body[r] # NoTag => /\ body[r].url = u /\ body[r].version >= began[r]
                                  /\ body[r].version <= content'[u]
  BY <1>1, <1>2 DEF ReadOK
<1>6. read[r] \in {"asked", "answered"} =>
         /\ \A s \in UnderWay(u)' : NotBehind(r, began[s])'
         /\ \A e \in Cached(u)' : e.tag = asked'[r] \/ NotBehind(r, e.tag.version)'
  BY <1>3 DEF NotBehind, Cached
<1> QED
  BY <1>4, <1>5, <1>6 DEF ReadOK

\* Nothing is dropped of what a read under way asked with.
LEMMA SameKept ==
    ASSUME NEW r \in Reads, KeepOK(r), since'[r] = since[r], asked'[r] = asked[r],
           read'[r] \in {"asked", "answered"} => read[r] \in {"asked", "answered"},
           read'[r] = "idle" => read[r] = "idle",
           ~dropped'[r] => /\ ~dropped[r] /\ cache' \subseteq cache
                           /\ \A e \in cache : e.key = UrlOf[r] => e \in cache'
    PROVE  KeepOK(r)'
<1>1. ASSUME read'[r] \in {"asked", "answered"}, asked[r] # NoTag, ~dropped'[r]
      PROVE  Keeps(UrlOf[r], since[r])' \/ Cardinality(since[r]) >= Cap
  <2>1. CASE Keeps(UrlOf[r], since[r])
    <3>1. PICK e \in cache : e.key = UrlOf[r] /\ InFront(since[r], e)
      BY <2>1 DEF Keeps
    <3>2. e \in cache' /\ \A o \in cache' : o.rank < e.rank => o.key \in since'[r]
      BY <1>1, <3>1 DEF InFront
    <3> QED
      BY <3>1, <3>2 DEF Keeps, InFront
  <2> QED
    BY <1>1, <2>1 DEF KeepOK
<1> QED
  BY <1>1 DEF KeepOK

\* The world around the reads: a write is performed or fails, or somebody edits.
LEMMA WorldInv ==
    ASSUME IInv, \/ \E w \in Writes : Land(w) \/ Invalidate(w) \/ WriteFails(w)
                 \/ \E u \in Edited : Edit(u)
    PROVE  IInv'
<1>1. /\ UNCHANGED <<read, asked, answer, body, began, with, since>>
      /\ cache' \subseteq cache /\ write' \in [Writes -> {"idle", "landed", "done", "failed"}]
      /\ dropped' \in [Reads -> BOOLEAN]
  BY DEF Land, Invalidate, WriteFails, Edit, InvalidatePath, IInv, TypeOK, readVars, history
<1>2. content' \in [Urls -> Versions] /\ \A u \in Urls : content[u] <= content'[u]
  <2>1. content' = content \/ \E S : Change(S)
    BY DEF Land, Invalidate, WriteFails, Edit
  <2>2. content \in [Urls -> Versions]
    BY DEF IInv, TypeOK, Versions
  <2> QED
    BY <2>1, <2>2, Bounds DEF Change, Versions
<1>3. TypeOK'
  BY <1>1, <1>2 DEF IInv, TypeOK, Versions
<1>4. \A k \in Urls : CacheStep(k, NoTag)
  <2>1. cache' \subseteq Entries /\ Unique(cache')
    BY <1>1 DEF Unique, IInv, TypeOK
  <2>2. \A n \in cache' : Held(n)
    BY <1>1 DEF Held
  <2> QED
    BY <1>2, <2>1, <2>2 DEF CacheStep
<1>5. ASSUME NEW r \in Reads PROVE ReadOK(r)'
  <2>1. UrlOf[r] \in Urls /\ CacheStep(UrlOf[r], NoTag)
    BY <1>4, Bounds
  <2>2. UnderWay(UrlOf[r])' = UnderWay(UrlOf[r])
    BY <1>1 DEF UnderWay
  <2>3. read[r] \in {"asked", "answered"} =>
           \A s \in UnderWay(UrlOf[r])' : NotBehind(r, began'[s])
    BY <1>1, <2>2 DEF IInv, ReadInv, ReadOK
  <2> QED
    BY <1>1, <2>1, <2>3, OtherRead
<1>6. CacheInv'
  <2>1. CASE Urls = {}
    BY <1>1, <2>1 DEF IInv, TypeOK, Entries, CacheInv
  <2>2. CASE Urls # {}
    BY <1>4, <2>2, CacheKept
  <2> QED
    BY <2>1, <2>2
<1>7. ASSUME NEW r \in Reads PROVE KeepOK(r)'
  <2>1. KeepOK(r) /\ dropped[r] \in BOOLEAN
    BY DEF IInv, KeepInv, TypeOK
  <2>2. CASE cache' = cache /\ dropped' = dropped
    BY <1>1, <2>1, <2>2, SameKept
  <2>3. ASSUME NEW w \in Writes, Invalidate(w)
        PROVE  KeepOK(r)'
    <3>1. /\ cache' = {e \in cache : ~PathsRelated(Path[e.tag.url], Target[w])}
          /\ dropped'[r] = (dropped[r] \/ (r \in UnderWay(UrlOf[r])
                                           /\ Above(Path[UrlOf[r]], Target[w])))
      BY <2>3 DEF Invalidate, InvalidatePath
    <3>2. CASE r \in UnderWay(UrlOf[r])
      <4>1. ASSUME ~dropped'[r], NEW e \in cache, e.key = UrlOf[r] PROVE e \in cache'
        <5>1. e.tag.url = UrlOf[r]
          BY <4>1 DEF IInv, CacheInv
        <5>2. ~PathsRelated(Path[e.tag.url], Target[w])
          BY <3>1, <3>2, <4>1, <5>1 DEF Above, PathsRelated
        <5> QED
          BY <3>1, <5>2
      <4> QED
        BY <1>1, <2>1, <3>1, <4>1, SameKept
    <3>3. CASE r \notin UnderWay(UrlOf[r])
      BY <1>1, <2>1, <3>3 DEF KeepOK, UnderWay
    <3> QED
      BY <3>2, <3>3
  <2> QED
    BY <2>2, <2>3 DEF Land, WriteFails, Edit, readVars, history
<1> QED
  BY <1>3, <1>5, <1>6, <1>7 DEF IInv, ReadInv, KeepInv

\* The URL k was read: the reads under way of the others saw it.
LEMMA SeenIt ==
    ASSUME IInv, NEW k \in Urls, NEW r \in Reads
    PROVE  /\ IsFiniteSet(Seen(k)[r]) /\ Seen(k)[r] \in SUBSET Urls
           /\ read[r] = "idle" => Seen(k)[r] = {}
           /\ since[r] \subseteq Seen(k)[r]
           /\ Cardinality(since[r]) <= Cardinality(Seen(k)[r])
           /\ UrlOf[r] # k /\ read[r] \in {"asked", "answered"} => Seen(k)[r] = since[r] \union {k}
<1>1. Seen(k)[r] = IF read[r] \in {"asked", "answered"} /\ UrlOf[r] # k
                   THEN since[r] \union {k} ELSE since[r]
  BY DEF Seen
<1>2. /\ IsFiniteSet(since[r]) /\ since[r] \in SUBSET Urls
      /\ read[r] = "idle" => since[r] = {}
  BY DEF IInv, TypeOK, KeepInv, KeepOK
<1>3. IsFiniteSet(since[r] \union {k})
  BY <1>2, FS_AddElement
<1>4. IsFiniteSet(Seen(k)[r]) /\ since[r] \in SUBSET Seen(k)[r]
  BY <1>1, <1>2, <1>3
<1>5. Cardinality(since[r]) <= Cardinality(Seen(k)[r])
  BY <1>4, FS_Subset
<1> QED
  BY <1>1, <1>2, <1>4, <1>5

\* The URL k was looked up or stored: what a read under way asked with is there
\* as before, unless it had no room any more.
LEMMA FrontKept ==
    ASSUME IInv, NEW k \in Urls, NEW t \in Tags, NEW r \in Reads, KeepOK(r),
           cache' = cache \/ cache' = ToFront(k, t),
           read'[r] = read[r], asked'[r] = asked[r], dropped'[r] = dropped[r],
           since'[r] = Seen(k)[r]
    PROVE  KeepOK(r)'
<1> DEFINE u == UrlOf[r]  S == since[r]  T == Seen(k)[r]
<1>1. /\ IsFiniteSet(T) /\ (read[r] = "idle" => T = {}) /\ S \subseteq T
      /\ Cardinality(S) <= Cardinality(T)
      /\ u # k /\ read[r] \in {"asked", "answered"} => T = S \union {k}
  BY SeenIt
<1>2. cache \subseteq Entries /\ Unique(cache) /\ IsFiniteSet(S)
  BY DEF IInv, TypeOK, Unique, KeepOK
<1> SUFFICES ASSUME read[r] \in {"asked", "answered"}, asked[r] # NoTag, ~dropped[r]
             PROVE  Keeps(u, S)' \/ Cardinality(T) >= Cap
  BY <1>1 DEF KeepOK
<1>3. CASE Cardinality(S) >= Cap
  <2>1. Cardinality(S) \in Nat /\ Cardinality(T) \in Nat
    BY <1>1, <1>2, FS_CardinalityType
  <2> QED
    BY <1>1, <1>3, <2>1, Bounds
<1>4. CASE Keeps(u, S)
  <2>1. PICK e \in cache : e.key = u /\ InFront(S, e)
    BY <1>4 DEF Keeps
  <2>2. CASE cache' = cache
    BY <1>1, <2>1, <2>2 DEF Keeps, InFront
  <2>3. CASE cache' = ToFront(k, t) /\ u = k
    <3> DEFINE n == [key |-> k, tag |-> t, rank |-> 1]
    <3>1. n \in cache' /\ n.key = u /\ n.rank = 1
      BY <2>3 DEF ToFront
    <3>2. ASSUME NEW o \in cache' PROVE ~(o.rank < 1)
      <4>1. o.rank \in 1..Cap
        BY <1>2, <2>3, FrontType DEF Entries
      <4> QED
        BY <4>1, Bounds
    <3> HIDE DEF n
    <3> QED
      BY <3>1, <3>2 DEF Keeps, InFront
  <2>4. CASE cache' = ToFront(k, t) /\ u # k
    <3>1. \/ Cardinality(S \union {k}) >= Cap
          \/ \E n \in ToFront(k, t) :
                /\ n.key = e.key
                /\ \A o \in ToFront(k, t) : o.rank < n.rank => o.key \in S \union {k}
      BY <1>2, <2>1, <2>4, FrontKeeps
    <3>2. T = S \union {k} /\ since'[r] = T
      BY <1>1, <2>4
    <3> QED
      BY <2>1, <2>4, <3>1, <3>2 DEF Keeps, InFront
  <2> QED
    BY <2>2, <2>3, <2>4
<1> QED
  BY <1>3, <1>4 DEF KeepOK

\* A read begins.
LEMMA AskInv == ASSUME IInv, NEW r \in Reads, Ask(r) PROVE IInv'
<1> DEFINE u == UrlOf[r]
<1>1. /\ u \in Urls /\ content[u] \in Nat /\ content' = content /\ write' = write
      /\ content \in [Urls -> Versions] /\ cache \subseteq Entries /\ Unique(cache)
  BY Bounds DEF Ask, IInv, TypeOK, Versions, Unique
<1>2. /\ read[r] = "idle" /\ read' = [read EXCEPT ![r] = "asked"]
      /\ began' = [began EXCEPT ![r] = content[u]]
      /\ with' = [with EXCEPT ![r] = {content[u]} \union {began[s] : s \in UnderWay(u)}]
      /\ cache' = Touched(u) /\ asked' = [asked EXCEPT ![r] = TagOf(u)]
      /\ answer' = answer /\ body' = body /\ dropped' = dropped /\ since' = Seen(u)
  BY DEF Ask, Key
<1>3. TagOf(u) \in Tags \union {NoTag} /\ content[u] \in Versions
  BY <1>1, TagOfIt
<1>4. CacheStep(u, NoTag)
  <2>1. \A k \in Urls : content[k] <= content'[k]
    BY <1>1, Bounds DEF Versions
  <2> QED
    BY <1>1, <1>2, <2>1, TouchedHas DEF CacheStep
<1>5. CacheInv'
  BY <1>1, <1>4, CacheKept
<1>6. TypeOK'
  <2>1. with' \in [Reads -> SUBSET Versions]
    <3>1. {content[u]} \union {began[s] : s \in UnderWay(u)} \subseteq Versions
      BY <1>3 DEF IInv, TypeOK, UnderWay, Versions
    <3> QED
      BY <1>2, <3>1 DEF IInv, TypeOK, Versions
  <2>2. since' \in [Reads -> SUBSET Urls]
    <3>1. \A s \in Reads : since'[s] \in SUBSET Urls
      BY <1>1, <1>2, SeenIt
    <3>2. since' = [s \in Reads |-> since'[s]]
      BY <1>2 DEF Seen
    <3> QED
      BY <3>1, <3>2
  <2> QED
    BY <1>1, <1>2, <1>3, <1>4, <2>1, <2>2 DEF IInv, TypeOK, CacheStep, Unique, Versions
<1>7. UnderWay(u)' = UnderWay(u) \union {r}
      /\ \A k : k # u => UnderWay(k)' = UnderWay(k)
  BY <1>2 DEF UnderWay, IInv, TypeOK
<1>8. \A s \in Reads : s # r => began'[s] = began[s]
  BY <1>2 DEF IInv, TypeOK
<1>9. ASSUME NEW s \in Reads, s # r PROVE ReadOK(s)'
  <2>1. /\ read'[s] = read[s] /\ asked'[s] = asked[s] /\ answer'[s] = answer[s]
        /\ body'[s] = body[s] /\ began'[s] = began[s] /\ with'[s] = with[s]
    BY <1>2, <1>9 DEF IInv, TypeOK
  <2>2. ASSUME read[s] \in {"asked", "answered"}, NEW x \in UnderWay(UrlOf[s])'
        PROVE  NotBehind(s, began'[x])
    <3>1. ReadOK(s)
      BY DEF IInv, ReadInv
    <3>2. CASE x = r
      <4>1. UrlOf[s] = u
        BY <2>2, <3>2 DEF UnderWay
      <4>2. began'[r] = content[u] /\ began[s] <= content[u] /\ began[s] \in with[s]
        BY <1>2, <2>2, <3>1, <4>1 DEF ReadOK, IInv, TypeOK
      <4>3. began[s] \in Nat
        BY Bounds DEF IInv, TypeOK
      <4> QED
        BY <1>1, <3>2, <4>2, <4>3 DEF NotBehind
    <3>3. CASE x # r
      <4>1. x \in UnderWay(UrlOf[s]) /\ x \in Reads
        BY <1>7, <2>2, <3>3 DEF UnderWay
      <4> QED
        BY <1>8, <2>2, <3>1, <3>3, <4>1 DEF ReadOK
    <3> QED
      BY <3>2, <3>3
  <2> QED
    BY <1>1, <1>4, <2>1, <2>2, OtherRead
<1>10. ReadOK(r)'
  <2>1. /\ read'[r] = "asked" /\ began'[r] = content[u] /\ asked'[r] = TagOf(u)
        /\ body'[r] = body[r]
        /\ with'[r] = {content[u]} \union {began[s] : s \in UnderWay(u)}
    BY <1>2 DEF IInv, TypeOK
  <2>2. body[r] = NoTag
    BY <1>2 DEF IInv, ReadInv, ReadOK
  <2>3. ASSUME NEW s \in UnderWay(u)' PROVE NotBehind(r, began[s])'
    <3>1. began'[s] \in with'[r]
      <4>1. CASE s = r
        BY <2>1, <4>1
      <4>2. CASE s # r
        <5>1. s \in UnderWay(u) /\ s \in Reads
          BY <1>7, <2>3, <4>2 DEF UnderWay
        <5>2. began'[s] = began[s]
          BY <1>8, <4>2, <5>1
        <5> QED
          BY <2>1, <5>1, <5>2
      <4> QED
        BY <4>1, <4>2
    <3>2. began'[s] \in Nat
      BY <1>6, Bounds DEF TypeOK, UnderWay
    <3> QED
      BY <3>1, <3>2 DEF NotBehind
  <2>4. \A e \in cache : e.key = u => e.tag = TagOf(u)
    BY <1>1, TagOfIt DEF Cached, Unique
  <2>5. \A e \in cache' : e.key = u => e.tag = TagOf(u)
    <3> SUFFICES ASSUME NEW e \in cache', e.key = u PROVE e.tag = TagOf(u)
      OBVIOUS
    <3>1. Held(e)
      BY <1>1, <1>2, TouchedHas
    <3> QED
      BY <2>4, <3>1 DEF Held
  <2>6. TagOf(u) # NoTag => TagOf(u).url = u
    BY <1>1, TagOfIt DEF Cached, IInv, CacheInv
  <2> QED
    BY <1>1, <2>1, <2>2, <2>3, <2>5, <2>6 DEF ReadOK, Cached
<1>11. ASSUME NEW s \in Reads, s # r PROVE KeepOK(s)'
  <2>1. /\ read'[s] = read[s] /\ asked'[s] = asked[s] /\ dropped'[s] = dropped[s]
        /\ since'[s] = Seen(u)[s] /\ KeepOK(s)
    BY <1>2, <1>11 DEF IInv, TypeOK, KeepInv
  <2>2. CASE Cached(u) = {}
    <3>1. cache' = cache
      BY <1>2, <2>2 DEF Touched
    <3>2. PICK t : t \in Tags
      <4>1. content[u] \in Versions
        BY <1>1 DEF IInv, TypeOK
      <4>2. [url |-> u, version |-> content[u]] \in Tags
        BY <1>1, <4>1 DEF Tags, Versions
      <4> QED
        BY <4>2
    <3> QED
      BY <1>1, <2>1, <3>1, <3>2, FrontKept
  <2>3. CASE Cached(u) # {}
    <3>1. cache' = ToFront(u, TagOf(u)) /\ TagOf(u) \in Tags
      BY <1>1, <1>2, <2>3, TagOfIt DEF Touched
    <3> QED
      BY <1>1, <2>1, <3>1, FrontKept
  <2> QED
    BY <2>2, <2>3
<1>12. KeepOK(r)'
  <2>1. since'[r] = {} /\ asked'[r] = TagOf(u) /\ read'[r] = "asked"
    BY <1>1, <1>2, SeenIt DEF IInv, TypeOK
  <2>2. ASSUME TagOf(u) # NoTag PROVE Keeps(u, since[r])'
    <3> DEFINE n == [key |-> u, tag |-> TagOf(u), rank |-> 1]
    <3>1. cache' = ToFront(u, TagOf(u))
      BY <1>1, <1>2, <2>2, TagOfIt DEF Touched
    <3>2. n \in cache' /\ n.key = u /\ n.rank = 1
      BY <3>1 DEF ToFront
    <3>3. ASSUME NEW o \in cache' PROVE ~(o.rank < 1)
      <4>1. o.rank \in 1..Cap
        BY <1>4 DEF CacheStep, Entries
      <4> QED
        BY <4>1, Bounds
    <3> HIDE DEF n
    <3> QED
      BY <3>2, <3>3 DEF Keeps, InFront
  <2> QED
    BY <2>1, <2>2, FS_EmptySet DEF KeepOK
<1> QED
  BY <1>5, <1>6, <1>9, <1>10, <1>11, <1>12 DEF IInv, ReadInv, KeepInv

\* GitHub answers with what it has.
LEMMA ServeInv == ASSUME IInv, NEW r \in Reads, Serve(r) PROVE IInv'
<1> DEFINE u == UrlOf[r]  tag == [url |-> u, version |-> content[u]]
<1>1. /\ u \in Urls /\ content[u] \in Versions /\ content[u] \in Nat
      /\ tag \in Tags /\ tag.url = u /\ tag.version = content[u] /\ tag # NoTag
  BY Bounds DEF IInv, TypeOK, Versions, Tags
<1>2. /\ read[r] = "asked" /\ read' = [read EXCEPT ![r] = "answered"]
      /\ UNCHANGED <<content, cache, asked, write, began, with, dropped, since>>
      /\ \/ asked[r] = tag /\ answer' = [answer EXCEPT ![r] = "304"] /\ body' = body
         \/ answer' = [answer EXCEPT ![r] = "200"] /\ body' = [body EXCEPT ![r] = tag]
         \/ answer' = [answer EXCEPT ![r] = "error"] /\ body' = body
  BY DEF Serve, history
<1>3. /\ ReadOK(r) /\ body[r] = NoTag /\ asked[r] \in Tags \union {NoTag}
      /\ began[r] <= content[u] /\ began[r] \in Nat
  <2>1. ReadOK(r) /\ asked[r] \in Tags \union {NoTag} /\ began[r] \in Nat
    BY DEF IInv, TypeOK, ReadInv
  <2> QED
    BY <1>2, <2>1 DEF ReadOK
<1> HIDE DEF tag
<1>4. PICK ans \in {"304", "200", "error"}, b \in {tag, NoTag} :
         /\ answer' = [answer EXCEPT ![r] = ans] /\ body' = [body EXCEPT ![r] = b]
         /\ ans = "304" => asked[r] = tag
         /\ ans = "200" => b = tag
  BY <1>2, <1>3 DEF IInv, TypeOK
<1>5. TypeOK' /\ CacheInv'
  BY <1>1, <1>2, <1>4, Bounds DEF IInv, TypeOK, CacheInv
<1>6. \A k : UnderWay(k)' = UnderWay(k) /\ Cached(k)' = Cached(k)
  BY <1>2 DEF UnderWay, Cached, IInv, TypeOK
<1>7. ReadOK(r)'
  <2>1. /\ read'[r] = "answered" /\ asked'[r] = asked[r] /\ answer'[r] = ans /\ body'[r] = b
        /\ began' = began /\ with' = with /\ content' = content
    BY <1>2, <1>4 DEF IInv, TypeOK
  <2> QED
    BY <1>1, <1>2, <1>3, <1>4, <1>6, <2>1 DEF ReadOK, NotBehind
<1>8. ASSUME NEW s \in Reads, s # r PROVE ReadOK(s)'
  <2>1. /\ read'[s] = read[s] /\ asked'[s] = asked[s] /\ answer'[s] = answer[s]
        /\ body'[s] = body[s] /\ began' = began /\ with' = with /\ content' = content
    BY <1>2, <1>4, <1>8 DEF IInv, TypeOK
  <2> QED
    BY <1>6, <2>1 DEF IInv, ReadInv, ReadOK, NotBehind
<1>9. ASSUME NEW s \in Reads PROVE KeepOK(s)'
  <2>1. /\ read'[s] \in {"asked", "answered"} => read[s] \in {"asked", "answered"}
        /\ read'[s] = "idle" => read[s] = "idle"
    BY <1>2 DEF IInv, TypeOK
  <2> QED
    BY <1>2, <2>1, SameKept DEF IInv, KeepInv
<1> QED
  BY <1>5, <1>7, <1>8, <1>9 DEF IInv, ReadInv, KeepInv

\* A read returns, having looked its URL up or stored the body b.
LEMMA ReturnInv ==
    ASSUME IInv, NEW r \in Reads, read[r] = "answered", Return(r), NEW b \in Tags \union {NoTag},
           body' = [body EXCEPT ![r] = b], NEW new, CacheStep(UrlOf[r], new),
           NEW t \in Tags, cache' = cache \/ cache' = ToFront(UrlOf[r], t),
           content' = content, write' = write,
           new # NoTag => new.version \in Nat /\ new.version >= began[r]
    PROVE  IInv'
<1> DEFINE u == UrlOf[r]
<1>1. u \in Urls
  BY Bounds
<1>2. /\ read' = [read EXCEPT ![r] = "done"] /\ asked' = [asked EXCEPT ![r] = NoTag]
      /\ answer' = [answer EXCEPT ![r] = "none"] /\ began' = [began EXCEPT ![r] = 0]
      /\ with' = [with EXCEPT ![r] = {}] /\ dropped' = [dropped EXCEPT ![r] = FALSE]
      /\ since' = [Seen(u) EXCEPT ![r] = {}]
  BY DEF Return
<1>3. CacheInv'
  BY <1>1, CacheKept
<1>4. since' \in [Reads -> SUBSET Urls]
  <2>1. Seen(u) \in [Reads -> SUBSET Urls]
    <3>1. \A s \in Reads : Seen(u)[s] \in SUBSET Urls
      BY <1>1, SeenIt
    <3>2. Seen(u) = [s \in Reads |-> Seen(u)[s]]
      BY DEF Seen
    <3> QED
      BY <3>1, <3>2
  <2> QED
    BY <1>2, <2>1
<1>5. TypeOK'
  BY <1>2, <1>4, Bounds DEF IInv, TypeOK, CacheStep, Unique
<1>6. ASSUME NEW s \in Reads, s # r
      PROVE  /\ read'[s] = read[s] /\ asked'[s] = asked[s] /\ answer'[s] = answer[s]
             /\ body'[s] = body[s] /\ began'[s] = began[s] /\ with'[s] = with[s]
             /\ dropped'[s] = dropped[s] /\ since'[s] = Seen(u)[s]
  <2>1. since'[s] = Seen(u)[s]
    BY <1>2, <1>6 DEF Seen
  <2> QED
    BY <1>2, <1>6, <2>1 DEF IInv, TypeOK
<1>7. ASSUME NEW s \in Reads, s # r PROVE ReadOK(s)'
  <2>1. ASSUME read[s] \in {"asked", "answered"}, NEW x \in UnderWay(UrlOf[s])'
        PROVE  NotBehind(s, began'[x])
    <3>1. x \in UnderWay(UrlOf[s]) /\ x # r /\ x \in Reads
      BY <1>2, <2>1 DEF UnderWay, IInv, TypeOK
    <3> QED
      BY <1>6, <2>1, <3>1 DEF IInv, ReadInv, ReadOK
  <2>2. ASSUME read[s] \in {"asked", "answered"}, UrlOf[s] = u, new # NoTag
        PROVE  NotBehind(s, new.version)
    <3>1. r \in UnderWay(u)
      BY DEF UnderWay
    <3>2. PICK x \in with[s] : began[r] >= x
      BY <2>2, <3>1 DEF IInv, ReadInv, ReadOK, NotBehind
    <3>3. x \in Nat /\ began[r] \in Nat
      BY <3>2, Bounds DEF IInv, TypeOK
    <3> QED
      BY <2>2, <3>2, <3>3 DEF NotBehind
  <2> QED
    BY <1>1, <1>6, <1>7, <2>1, <2>2, OtherRead
<1>8. ReadOK(r)'
  <2>1. read'[r] = "done"
    BY <1>2 DEF IInv, TypeOK
  <2> QED
    BY <2>1 DEF ReadOK
<1>9. ASSUME NEW s \in Reads, s # r PROVE KeepOK(s)'
  <2>1. KeepOK(s)
    BY DEF IInv, KeepInv
  <2> QED
    BY <1>1, <1>6, <1>9, <2>1, FrontKept
<1>10. KeepOK(r)'
  <2>1. read'[r] = "done" /\ since'[r] = {}
    BY <1>2 DEF IInv, TypeOK, Seen
  <2> QED
    BY <2>1, FS_EmptySet DEF KeepOK
<1> QED
  BY <1>3, <1>5, <1>7, <1>8, <1>9, <1>10 DEF IInv, ReadInv, KeepInv

\* A 304 takes the body of the entry, a 200 replaces it.
LEMMA EndInv == ASSUME IInv, NEW r \in Reads, Substitute(r) \/ Store(r) PROVE IInv'
<1> DEFINE u == UrlOf[r]
<1>1. /\ u \in Urls /\ read[r] = "answered" /\ cache \subseteq Entries /\ Unique(cache)
      /\ content' = content /\ write' = write /\ Return(r)
      /\ content \in [Urls -> Versions] /\ \A k \in Urls : content[k] <= content'[k]
  <2>1. /\ u \in Urls /\ read[r] = "answered" /\ cache \subseteq Entries /\ Unique(cache)
        /\ content' = content /\ write' = write /\ Return(r)
        /\ content \in [Urls -> Versions]
    BY Bounds DEF Substitute, Store, IInv, TypeOK, Unique, Versions
  <2> QED
    BY <2>1, Bounds DEF Versions
<1>2. /\ ReadOK(r) /\ body \in [Reads -> Tags \union {NoTag}] /\ began[r] \in Nat
  BY Bounds DEF IInv, TypeOK, ReadInv
<1>3. CASE cache' = cache /\ body' = body
  <2>1. CacheStep(u, NoTag)
    BY <1>1, <1>3 DEF CacheStep, Held
  <2>2. body' = [body EXCEPT ![r] = body[r]] /\ body[r] \in Tags \union {NoTag}
    BY <1>2, <1>3
  <2>3. [url |-> u, version |-> content[u]] \in Tags
    BY <1>1 DEF Tags, Versions
  <2> QED
    BY <1>1, <1>3, <2>1, <2>2, <2>3, ReturnInv
<1>4. CASE Substitute(r)
  <2>1. cache' = Touched(u) /\ body' = [body EXCEPT ![r] = TagOf(u)]
    BY <1>4 DEF Substitute, Key
  <2>2. TagOf(u) \in Tags \union {NoTag} /\ CacheStep(u, NoTag)
    BY <1>1, <2>1, TagOfIt, TouchedHas DEF CacheStep
  <2>3. CASE Cached(u) = {}
    <3>1. cache' = cache /\ [url |-> u, version |-> content[u]] \in Tags
      BY <1>1, <2>1, <2>3 DEF Touched, Tags, Versions
    <3> QED
      BY <1>1, <2>1, <2>2, <3>1, ReturnInv
  <2>4. CASE Cached(u) # {}
    <3>1. cache' = ToFront(u, TagOf(u)) /\ TagOf(u) \in Tags
      BY <1>1, <2>1, <2>4, TagOfIt DEF Touched
    <3> QED
      BY <1>1, <2>1, <2>2, <3>1, ReturnInv
  <2> QED
    BY <2>3, <2>4
<1>5. CASE Store(r) /\ answer[r] = "200"
  <2>1. cache' = ToFront(u, body[r]) /\ body' = body
    BY <1>5 DEF Store, Stored, Key
  <2>2. /\ body[r] \in Tags /\ body[r].url = u /\ body[r].version <= content[u]
        /\ body[r].version >= began[r] /\ body[r].version \in Nat
    <3>1. body[r] \in Tags /\ body[r].version <= content[u] /\ body[r].version >= began[r]
          /\ body[r].url = u
      BY <1>1, <1>2, <1>5 DEF ReadOK
    <3> QED
      BY <3>1, Bounds DEF Tags
  <2>3. ASSUME NEW n \in cache'
        PROVE  Held(n) \/ Fresh(n, u, body[r])
    <3>1. CASE n = [key |-> u, tag |-> body[r], rank |-> 1]
      BY <1>1, <2>2, <3>1 DEF Fresh
    <3>2. CASE n # [key |-> u, tag |-> body[r], rank |-> 1]
      <4>1. PICK e \in cache : n = e \/ n = [e EXCEPT !.rank = @ + 1]
        BY <2>1, <2>3, <3>2, FrontHas
      <4>2. e \in Entries
        BY <1>1
      <4>3. n.key = e.key /\ n.tag = e.tag
        BY <4>1, <4>2 DEF Entries
      <4> QED
        BY <4>3 DEF Held
    <3> QED
      BY <3>1, <3>2
  <2>4. CacheStep(u, body[r])
    BY <1>1, <2>1, <2>2, <2>3, FrontType DEF CacheStep
  <2>5. body' = [body EXCEPT ![r] = body[r]]
    BY <1>2, <2>1
  <2> QED
    BY <1>1, <2>1, <2>2, <2>4, <2>5, ReturnInv
<1> QED
  BY <1>3, <1>4, <1>5 DEF Store

\* Every step keeps the invariant.
LEMMA StepInv == IInv /\ [Next]_vars => IInv'
<1> SUFFICES ASSUME IInv, [Next]_vars PROVE IInv'
  OBVIOUS
<1>1. CASE UNCHANGED vars
  <2>1. \A u : Cached(u)' = Cached(u) /\ UnderWay(u)' = UnderWay(u)
    BY <1>1 DEF vars, UnderWay, Cached
  <2>2. TypeOK' /\ CacheInv'
    BY <1>1 DEF vars, history, IInv, TypeOK, CacheInv
  <2>3. ReadInv'
    BY <1>1, <2>1 DEF vars, history, IInv, ReadInv, ReadOK, NotBehind
  <2>4. KeepInv'
    BY <1>1 DEF vars, history, IInv, KeepInv, KeepOK, Keeps, InFront
  <2> QED
    BY <2>2, <2>3, <2>4 DEF IInv
<1>2. CASE Next
  BY <1>2, AskInv, ServeInv, EndInv, WorldInv DEF Next
<1> QED
  BY <1>1, <1>2

\* The inductive invariant.
THEOREM Invariant == Spec => []IInv
BY InitInv, StepInv, PTL DEF Spec

\* Type correctness; in particular the cache has one entry per URL and no more
\* than it has room for.
THEOREM TypeCorrect == Spec => []TypeOK
<1>1. IInv => TypeOK
  BY DEF IInv
<1> QED
  BY <1>1, Invariant, PTL

\* A read returns in two ways.
LEMMA ReturnsHow ==
    ASSUME IInv, [Next]_vars, NEW r \in Reads, Returns(r)
    PROVE  Substitute(r) \/ Store(r)
<1>1. ~UNCHANGED read
  BY DEF Returns
<1>2. PICK s \in Reads : Ask(s) \/ Serve(s) \/ Substitute(s) \/ Store(s)
  BY <1>1 DEF Next, vars, Land, Invalidate, WriteFails, Edit, readVars
<1>3. s = r
  BY <1>2 DEF Returns, Ask, Serve, Substitute, Store, Return, IInv, TypeOK
<1>4. ~Ask(r) /\ ~Serve(r)
  BY DEF Returns, Ask, Serve
<1> QED
  BY <1>2, <1>3, <1>4

\* A read returns nothing older than itself and the reads it joined
\* (ghclient/transport.go:48-77).
THEOREM ReadsAreFresh == Spec => FreshRead
<1>1. ASSUME IInv, [Next]_vars, NEW r \in Reads, Returns(r), body'[r] # NoTag
      PROVE  /\ body'[r].url = UrlOf[r]
             /\ \E v \in with[r] : body'[r].version >= v
  <2> DEFINE u == UrlOf[r]
  <2>1. ReadOK(r) /\ read[r] = "answered" /\ began[r] \in with[r] /\ u \in Urls
    BY <1>1, Bounds DEF IInv, ReadInv, ReadOK, Returns
  <2>2. CASE Substitute(r)
    <3>1. body'[r] = TagOf(u) /\ answer[r] = "304"
      BY <1>1, <2>2 DEF Substitute, Key, IInv, TypeOK
    <3>2. PICK e \in cache : e.key = u /\ e.tag = TagOf(u)
      BY <1>1, <2>1, <3>1, TagOfIt DEF Cached, IInv, TypeOK
    <3>3. e.tag.url = u
      BY <1>1, <3>2 DEF IInv, CacheInv
    <3>4. e.tag = asked[r] \/ NotBehind(r, e.tag.version)
      BY <2>1, <3>2 DEF ReadOK, Cached
    <3> QED
      BY <2>1, <3>1, <3>2, <3>3, <3>4 DEF ReadOK, NotBehind
  <2>3. CASE Store(r)
    <3>1. body'[r] = body[r]
      BY <2>3 DEF Store
    <3> QED
      BY <1>1, <2>1, <3>1 DEF ReadOK
  <2> QED
    BY <1>1, <2>2, <2>3, ReturnsHow
<1>2. IInv /\ [Next]_vars =>
        [\A r \in Reads : Returns(r) /\ body'[r] # NoTag =>
            /\ body'[r].url = UrlOf[r]
            /\ \E v \in with[r] : body'[r].version >= v]_vars
  BY <1>1
<1> QED
  BY <1>2, Invariant, PTL DEF Spec, FreshRead

\* A 304 finds no body only after a write above or beneath it, or after as many
\* other URLs as there is room for (ghclient/transport.go:38-53, cache.go:46-99).
THEOREM BareAnswersAreExplained == Spec => BareAnswersHaveACause
<1>1. ASSUME IInv, [Next]_vars, NEW r \in Reads, Returns(r), answer[r] = "304", body'[r] = NoTag
      PROVE  dropped[r] \/ Cardinality(since[r]) >= Cap
  <2>1. /\ read[r] = "answered" /\ asked[r] # NoTag /\ KeepOK(r)
    BY <1>1 DEF IInv, ReadInv, ReadOK, KeepInv, Returns
  <2>2. Substitute(r)
    BY <1>1, ReturnsHow DEF Store
  <2>3. TagOf(UrlOf[r]) = NoTag
    BY <1>1, <2>2 DEF Substitute, Key, IInv, TypeOK
  <2>4. Cached(UrlOf[r]) = {}
    BY <1>1, <2>3, TagOfIt, Bounds DEF IInv, TypeOK
  <2>5. ~Keeps(UrlOf[r], since[r])
    BY <2>4 DEF Keeps, Cached
  <2> QED
    BY <2>1, <2>5 DEF KeepOK
<1>2. IInv /\ [Next]_vars =>
        [\A r \in Reads : Returns(r) /\ answer[r] = "304" /\ body'[r] = NoTag =>
            dropped[r] \/ Cardinality(since[r]) >= Cap]_vars
  BY <1>1
<1> QED
  BY <1>2, Invariant, PTL DEF Spec, BareAnswersHaveACause

-----------------------------------------------------------------------------
\* The tokens

\* A flight that was answered carries an installation, one to GitHub a JWT that
\* was fresh enough when it left.
FlightInv ==
    /\ flight[0].stage = "answered" => flight[0].id \in Ids
    /\ \A f \in Flights : flight[f].stage = "sent" => flight[f].jwt < JWTReuse + flight[f].age

AuthInv == AuthTypeOK /\ FlightInv

-----------------------------------------------------------------------------

\* What the constants are assumed to be.
LEMMA AuthBounds ==
    /\ InstTTL \in Nat /\ TokenLife \in Nat /\ Margin \in Nat /\ JWTLife \in Nat
    /\ JWTReuse \in Nat /\ Transit \in Nat /\ MaxInstalls \in Nat /\ MaxFaults \in Nat
    /\ 0 < JWTReuse /\ JWTReuse + Transit <= JWTLife /\ 0 < MaxInstalls
BY AppAuthAssumption

\* The empty flight, the ages at which things start, and the identifiers.
LEMMA AuthEmpty ==
    /\ 0 \in Flights /\ 0 \in 0..TokenLife /\ 0 \in 0..JWTLife /\ 0 \in 0..Transit
    /\ TokenLife \in 0..TokenLife
    /\ Ids \subseteq Flights /\ Flights \subseteq Nat
    /\ \A i \in Flights : i = 0 \/ i \in Ids
BY AuthBounds DEF Flights, Ids

\* At the start nothing is cached and nothing flies.
LEMMA AuthInitInv ==
    AuthInit => AuthInv
<1> SUFFICES ASSUME AuthInit PROVE AuthInv
  OBVIOUS
<1>1. AuthTypeOK
  <2>1. Grounded \in FlightType
    BY AuthEmpty DEF Grounded, FlightType
  <2>2. 1 \in Ids
    BY AuthBounds DEF Ids
  <2> QED
    BY <2>1, <2>2, AuthEmpty, AuthBounds DEF AuthInit, AuthTypeOK
<1>2. \A f \in Flights : flight[f].stage = "none"
  BY DEF AuthInit, Grounded
<1>3. FlightInv
  BY <1>2, AuthEmpty DEF AuthInit, FlightInv
<1> QED
  BY <1>1, <1>3 DEF AuthInv

\* Sending a flight, or taking a seat in one.
LEMMA AuthFlyInv ==
    ASSUME AuthInv, NEW f \in Flights, Fly(f)
    PROVE  /\ jwtAge' \in 0..JWTLife
           /\ flight' \in [Flights -> FlightType]
           /\ FlightInv'
<1> USE DEF AuthInv
<1>1. AppJWT \in 0..JWTLife /\ AppJWT < JWTReuse /\ AppJWT \in Nat
  BY AuthBounds DEF AppJWT, AuthTypeOK
<1> DEFINE new == [Grounded EXCEPT !.stage = "sent", !.jwt = AppJWT]
<1>2. /\ new.stage = "sent" /\ new.jwt = AppJWT /\ new.age = 0
      /\ new \in FlightType
  BY <1>1, AuthEmpty DEF FlightType, Grounded
<1>3. CASE flight[f].stage = "none"
  <2>1. flight' = [flight EXCEPT ![f] = new] /\ jwtAge' = AppJWT
    BY <1>3 DEF Fly
  <2>2. new.stage = "sent" /\ new.jwt < JWTReuse + new.age
    <3> HIDE DEF new
    <3>1. JWTReuse \in Nat /\ AppJWT \in Nat /\ AppJWT < JWTReuse + 0
      BY <1>1, AuthBounds
    <3> QED
      BY <1>2, <3>1
  <2> HIDE DEF new
  <2> QED
    BY <1>1, <1>2, <2>1, <2>2 DEF AuthTypeOK, FlightInv
<1>4. CASE flight[f].stage # "none"
  BY <1>4 DEF Fly, AuthTypeOK, FlightInv
<1> QED
  BY <1>3, <1>4

\* What a caller does by itself keeps the invariant.
LEMMA AuthCallerInv ==
    ASSUME AuthInv, NEW c \in Callers, CallerStep(c)
    PROVE  AuthInv'
<1> USE DEF AuthInv
<1>1. CASE InstallationID(c)
  <2>1. Reusable => inst.id \in Ids
    BY DEF Reusable, AuthTypeOK, Flights, Ids
  <2>2. AuthTypeOK'
    BY <1>1, <2>1 DEF InstallationID, AuthTypeOK, Flights, Ids
  <2> QED
    BY <1>1, <2>2 DEF InstallationID, FlightInv, AuthTypeOK
<1>2. CASE JoinLookup(c)
  <2>1. 0 \in Flights
    BY AuthBounds DEF Flights
  <2>2. /\ pc' = [pc EXCEPT ![c] = "lookingUp"]
        /\ UNCHANGED <<install, last, inst, tokens, idOf, faults>> /\ Fly(0)
    BY <1>2 DEF JoinLookup
  <2>3. AuthTypeOK' /\ FlightInv'
    BY <2>1, <2>2, AuthFlyInv DEF AuthTypeOK
  <2> QED
    BY <2>2, <2>3
<1>3. CASE StoreId(c)
  <2>1. inst' \in [id : Flights, age : 0..InstTTL]
    BY <1>3, AuthBounds DEF StoreId, AuthTypeOK
  <2> QED
    BY <1>3, <2>1 DEF StoreId, AuthTypeOK, FlightInv
<1>4. CASE InstallationToken(c)
  <2>1. tokens[idOf[c]] \in 0..TokenLife
    BY <1>4 DEF InstallationToken, AuthTypeOK
  <2>2. AuthTypeOK' /\ FlightInv'
    BY <1>4, <2>1 DEF InstallationToken, AuthTypeOK, FlightInv
  <2> QED
    BY <2>2
<1>5. CASE JoinMint(c)
  <2>1. idOf[c] \in Flights
    BY DEF AuthTypeOK
  <2>2. /\ pc' = [pc EXCEPT ![c] = "minting"] /\ pc[c] = "noToken"
        /\ UNCHANGED <<install, last, inst, tokens, idOf, faults>> /\ Fly(idOf[c])
    BY <1>5 DEF JoinMint
  <2>3. AuthTypeOK' /\ FlightInv'
    BY <2>1, <2>2, AuthFlyInv DEF AuthTypeOK
  <2> QED
    BY <2>2, <2>3
<1>6. CASE Again(c)
  BY <1>6, AuthEmpty DEF Again, AuthTypeOK, FlightInv
<1> QED
  BY <1>1, <1>2, <1>3, <1>4, <1>5, <1>6 DEF CallerStep

\* GitHub's answers, and their loss, keep it.
LEMMA AuthNetworkInv ==
    ASSUME AuthInv, Network \/ FlightFails
    PROVE  AuthInv'
<1> USE DEF AuthInv
<1>0. 0 \in Flights /\ Ids \subseteq Flights
  BY AuthBounds DEF Flights, Ids
<1>1. ASSUME NEW f \in Flights, NEW x \in FlightType, x.stage # "sent",
             f = 0 /\ x.stage = "answered" => x.id \in Ids,
             flight' = [flight EXCEPT ![f] = x]
      PROVE  flight' \in [Flights -> FlightType] /\ FlightInv'
  BY <1>1, <1>0 DEF AuthTypeOK, FlightInv
<1>2. /\ Grounded \in FlightType /\ Grounded.stage = "none"
      /\ [Grounded EXCEPT !.stage = "refused"] \in FlightType
      /\ [Grounded EXCEPT !.stage = "refused"].stage = "refused"
  BY AuthEmpty DEF Grounded, FlightType
<1>3. CASE LookupServed
  <2> DEFINE ok == [Grounded EXCEPT !.stage = "answered", !.id = install]
  <2>1. install # 0 => ok \in FlightType /\ ok.stage = "answered" /\ ok.id \in Ids
    <3>1. install # 0 => install \in Ids /\ install \in Flights
      BY AuthBounds DEF AuthTypeOK, Ids, Flights
    <3> QED
      BY <3>1, AuthEmpty DEF Grounded, FlightType
  <2>2. flight' \in [Flights -> FlightType] /\ FlightInv'
    BY <1>0, <1>1, <1>2, <1>3, <2>1 DEF LookupServed
  <2> QED
    BY <1>3, <2>2 DEF LookupServed, AuthTypeOK
<1>4. CASE LookupReturns
  <2>1. flight' \in [Flights -> FlightType] /\ FlightInv'
    BY <1>0, <1>1, <1>2, <1>4 DEF LookupReturns
  <2>2. /\ idOf' \in [Callers -> Flights]
        /\ pc' \in [Callers -> {"idle", "noId", "lookingUp", "gotId", "hasId",
                                "noToken", "minting", "done", "failed"}]
        /\ \A c \in Callers : pc'[c] \in {"gotId", "hasId", "noToken", "minting"} =>
              idOf'[c] \in Ids
    BY <1>0, <1>4 DEF LookupReturns, AuthTypeOK, FlightInv, Passengers
  <2> QED
    BY <1>4, <2>1, <2>2 DEF LookupReturns, AuthTypeOK
<1>5. ASSUME NEW i \in Ids, MintServed(i) PROVE AuthInv'
  <2> DEFINE ok == [Grounded EXCEPT !.stage = "answered", !.left = TokenLife]
  <2>1. ok \in FlightType /\ ok.stage = "answered" /\ i \in Flights /\ i # 0
    <3>1. i \in Flights /\ i # 0
      BY AuthBounds DEF Flights, Ids
    <3> QED
      BY <3>1, AuthEmpty DEF Grounded, FlightType
  <2>2. flight' \in [Flights -> FlightType] /\ FlightInv'
    BY <1>1, <1>2, <1>5, <2>1 DEF MintServed
  <2> QED
    BY <1>5, <2>2 DEF MintServed, AuthTypeOK
<1>6. ASSUME NEW i \in Ids, MintReturns(i) PROVE AuthInv'
  <2>1. flight' \in [Flights -> FlightType] /\ FlightInv'
    BY <1>0, <1>1, <1>2, <1>6 DEF MintReturns
  <2>2. flight[i].left \in 0..TokenLife
    <3>1. flight[i] \in FlightType
      BY <1>0 DEF AuthTypeOK
    <3> QED
      BY <3>1 DEF FlightType
  <2>3. tokens' \in [Ids -> 0..TokenLife]
    BY <1>6, <2>2 DEF MintReturns, AuthTypeOK
  <2>4. /\ pc' \in [Callers -> {"idle", "noId", "lookingUp", "gotId", "hasId",
                                "noToken", "minting", "done", "failed"}]
        /\ \A c \in Callers : pc'[c] \in {"gotId", "hasId", "noToken", "minting"} =>
              pc'[c] = pc[c]
    BY <1>6 DEF MintReturns, AuthTypeOK
  <2> QED
    BY <1>6, <2>1, <2>3, <2>4 DEF MintReturns, AuthTypeOK
<1>7. CASE FlightFails
  <2>1. flight' \in [Flights -> FlightType] /\ FlightInv'
    BY <1>1, <1>2, <1>7 DEF FlightFails
  <2> QED
    BY <1>7, <2>1, AuthBounds DEF FlightFails, AuthTypeOK
<1> QED
  BY <1>3, <1>4, <1>5, <1>6, <1>7 DEF Network

\* Uninstalling the App and installing it again keep it.
LEMMA AuthInstallInv ==
    ASSUME AuthInv, Uninstall \/ Reinstall
    PROVE  AuthInv'
<1>1. install' \in 0..last' /\ last' \in Ids
  BY AuthBounds DEF AuthInv, Uninstall, Reinstall, AuthTypeOK, Ids
<1> QED
  BY <1>1 DEF AuthInv, Uninstall, Reinstall, AuthTypeOK, FlightInv

\* The clock keeps it: what is cached grows no older than it may.
LEMMA AuthTickInv ==
    ASSUME AuthInv, Tick
    PROVE  AuthInv'
<1> USE DEF AuthInv
<1>1. ASSUME NEW f \in Flights
      PROVE  /\ flight'[f] \in FlightType
             /\ flight'[f].stage = flight[f].stage /\ flight'[f].id = flight[f].id
             /\ flight[f].stage = "sent" =>
                   flight'[f].age = flight[f].age + 1 /\ flight'[f].jwt <= flight[f].jwt + 1
  <2>1. flight[f] \in FlightType
    BY DEF AuthTypeOK
  <2>2. CASE flight[f].stage = "sent"
    <3>1. flight'[f] = [flight[f] EXCEPT !.jwt = More(@, JWTLife), !.age = @ + 1]
      BY <2>2 DEF Tick
    <3>2. /\ More(flight[f].jwt, JWTLife) \in 0..JWTLife
          /\ More(flight[f].jwt, JWTLife) <= flight[f].jwt + 1
          /\ flight[f].age + 1 \in 0..Transit
      <4>1. /\ flight[f].jwt \in 0..JWTLife /\ flight[f].age \in 0..Transit
            /\ flight[f].age < Transit
        BY <2>1, <2>2 DEF Tick, FlightType
      <4> QED
        BY <4>1, AuthBounds DEF More
    <3> QED
      BY <2>1, <3>1, <3>2 DEF FlightType
  <2>3. CASE flight[f].stage # "sent"
    <3>1. flight'[f] = [flight[f] EXCEPT !.left = Less(@)]
      BY <2>3 DEF Tick
    <3>2. Less(flight[f].left) \in 0..TokenLife
      BY <2>1, AuthBounds DEF Less, FlightType
    <3> QED
      BY <2>1, <2>3, <3>1, <3>2 DEF FlightType
  <2> QED
    BY <2>2, <2>3
<1>2. flight' \in [Flights -> FlightType]
  <2>1. \A f \in Flights : flight'[f] \in FlightType
    BY <1>1
  <2>2. flight' = [f \in Flights |-> flight'[f]]
    BY DEF Tick
  <2> QED
    BY <2>1, <2>2
<1>3. /\ jwtAge' \in 0..JWTLife /\ inst' \in [id : Flights, age : 0..InstTTL]
      /\ tokens' \in [Ids -> 0..TokenLife]
  <2>1. jwtAge' \in 0..JWTLife
    <3>1. More(jwtAge, JWTLife) \in 0..JWTLife
      BY AuthBounds DEF AuthTypeOK, More
    <3> QED
      BY <3>1 DEF Tick
  <2>2. inst' \in [id : Flights, age : 0..InstTTL]
    <3>1. More(inst.age, InstTTL) \in 0..InstTTL
      BY AuthBounds DEF AuthTypeOK, More
    <3> QED
      BY <3>1 DEF Tick, AuthTypeOK
  <2>3. tokens' \in [Ids -> 0..TokenLife]
    <3>1. \A i \in Ids : Less(tokens[i]) \in 0..TokenLife
      BY AuthBounds DEF AuthTypeOK, Less
    <3> QED
      BY <3>1 DEF Tick
  <2> QED
    BY <2>1, <2>2, <2>3
<1>4. FlightInv'
  <2>1. \A f \in Flights : /\ flight[f] \in FlightType /\ flight'[f] \in FlightType
                           /\ flight[f].jwt \in Nat /\ flight[f].age \in Nat
                           /\ flight'[f].jwt \in Nat /\ flight'[f].age \in Nat
    <3>1. \A f \in Flights : flight[f] \in FlightType /\ flight'[f] \in FlightType
      BY <1>2 DEF AuthTypeOK
    <3> QED
      BY <3>1, AuthBounds DEF FlightType
  <2>2. ASSUME NEW f \in Flights, flight'[f].stage = "sent"
        PROVE  flight'[f].jwt < JWTReuse + flight'[f].age
    <3>1. flight[f].stage = "sent" /\ flight[f].jwt < JWTReuse + flight[f].age
      BY <1>1, <2>2 DEF FlightInv
    <3> QED
      BY <1>1, <2>1, <3>1, AuthBounds
  <2> QED
    BY <1>1, <2>2, AuthEmpty DEF FlightInv
<1>5. AuthTypeOK'
  BY <1>2, <1>3 DEF Tick, AuthTypeOK
<1> QED
  BY <1>4, <1>5 DEF Tick

\* Every step keeps it.
LEMMA AuthStepInv ==
    AuthInv /\ [AuthNext]_authVars => AuthInv'
<1>1. AuthInv /\ UNCHANGED authVars => AuthInv'
  BY DEF authVars, AuthInv, AuthTypeOK, FlightInv
<1> QED
  BY <1>1, AuthCallerInv, AuthNetworkInv, AuthInstallInv, AuthTickInv DEF AuthNext

\* The inductive invariant.
THEOREM AuthInvariant ==
    AuthSpec => []AuthInv
<1>1. AuthInit => AuthInv
  BY AuthInitInv
<1>2. AuthInv /\ [AuthNext]_authVars => AuthInv'
  BY AuthStepInv
<1> QED
  BY <1>1, <1>2, PTL DEF AuthSpec

\* Type correctness: a caller past the lookup has an installation, and no cached
\* token has more than its life left.
THEOREM AuthTypeCorrect ==
    AuthSpec => []AuthTypeOK
<1>1. AuthInv => AuthTypeOK
  BY DEF AuthInv
<1>2. AuthSpec => []AuthInv
  BY AuthInvariant
<1> QED
  BY <1>1, <1>2, PTL

\* No call is refused for the age of its JWT.
THEOREM JWTsAreAccepted ==
    AuthSpec => []JWTAccepted
<1>1. AuthInv => JWTAccepted
  <2> SUFFICES ASSUME AuthInv, NEW f \in Flights, flight[f].stage = "sent"
               PROVE  flight[f].jwt <= JWTLife - 1
    BY DEF JWTAccepted
  <2>1. flight[f].jwt \in Nat /\ flight[f].age \in 0..Transit
    <3>1. flight[f] \in FlightType
      BY DEF AuthInv, AuthTypeOK
    <3> QED
      BY <3>1, AuthBounds DEF FlightType
  <2>2. flight[f].jwt < JWTReuse + flight[f].age
    BY DEF AuthInv, FlightInv
  <2> QED
    BY <2>1, <2>2, AuthBounds
<1>2. AuthSpec => []AuthInv
  BY AuthInvariant
<1> QED
  BY <1>1, <1>2, PTL
=============================================================================
