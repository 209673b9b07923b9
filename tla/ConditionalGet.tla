--------------------------- MODULE ConditionalGet ---------------------------
(***************************************************************************)
(* The conditional GET layer under every GitHub call                       *)
(* (internal/ghclient/transport.go) and its LRU of tagged bodies           *)
(* (internal/ghclient/cache.go).  Reads and writes run on goroutines of    *)
(* their own; only single operations of the cache are under its mutex, so  *)
(* a read looks the entry up, asks GitHub, and looks it up AGAIN.          *)
(*                                                                         *)
(* A path is the sequence of its segments.  The body GitHub has for a URL  *)
(* is a version that only grows, and its ETag names URL and version.       *)
(***************************************************************************)
EXTENDS Naturals, Sequences, FiniteSets, SequencesExt

CONSTANTS
    Reads,       \* GET requests, each made once
    Writes,      \* requests of any other method, each made once
    Urls,        \* absolute URLs, query included
    Path,        \* Path[u]: the path of URL u
    UrlOf,       \* UrlOf[r]: what read r gets
    Target,      \* Target[w]: the path write w is sent to
    Changes,     \* Changes[w]: the URLs whose bodies write w changes at GitHub,
                 \* whatever their paths: PUT /orgs/o/teams/t/repos/o/r changes
                 \* GET /repos/o/r/teams
    Cap,         \* capacity of the LRU (10000)
    MaxVersion,  \* bound on the changes of one body
    Edited,      \* URLs whose bodies somebody else changes
    Faults,      \* whether "fail" may happen
    NoTag        \* no If-None-Match, no body

ASSUME ConditionalGetAssumption ==
    /\ Path \in [Urls -> Seq(STRING)]
    /\ UrlOf \in [Reads -> Urls]
    /\ Target \in [Writes -> Seq(STRING)]
    /\ Changes \in [Writes -> SUBSET Urls]
    /\ Edited \subseteq Urls
    /\ MaxVersion \in Nat
    /\ NoTag \notin [url : Urls, version : 0 .. MaxVersion]
    /\ Cap \in Nat \ {0}

VARIABLES
    content,  \* content[u]: version of the body GitHub has for u
    cache,    \* the LRU: entries, ranked from the most recently used
    read,     \* read[r]: where read r stands
    asked,    \* asked[r]: the If-None-Match of read r
    answer,   \* answer[r]: what GitHub said: "none", "304", "200", "error"
    body,     \* body[r]: the tag of the body that came, then of the one returned
    write,    \* write[w]: where write w stands
    \* History of the reads under way: no step depends on it.
    began,    \* began[r]: content when read r began
    with,     \* with[r]: began of r, and of the reads of its URL it joined
    dropped,  \* dropped[r]: a write above or beneath was answered during r
    since     \* since[r]: the other URLs read during r

history == <<began, with, dropped, since>>
readVars == <<read, asked, answer, body, history>>
vars == <<content, cache, read, asked, answer, body, write, history>>

Tags == [url : Urls, version : 0 .. MaxVersion]

Entries == [key : Urls, tag : Tags, rank : 1 .. Cap]

Init ==
    /\ content = [u \in Urls |-> 0]
    /\ cache = {}
    /\ read = [r \in Reads |-> "idle"]
    /\ asked = [r \in Reads |-> NoTag]
    /\ answer = [r \in Reads |-> "none"]
    /\ body = [r \in Reads |-> NoTag]
    /\ write = [w \in Writes |-> "idle"]
    /\ began = [r \in Reads |-> 0]
    /\ with = [r \in Reads |-> {}]
    /\ dropped = [r \in Reads |-> FALSE]
    /\ since = [r \in Reads |-> {}]

-----------------------------------------------------------------------------
\* The cache

KeyOfPath(u) ==                      \* mutant: the query is not in the key
    CHOOSE v \in Urls : Path[v] = Path[u]

Key(u) == u

Cached(k) == {e \in cache : e.key = k}

TagOf(k) == IF Cached(k) = {} THEN NoTag ELSE (CHOOSE e \in Cached(k) : TRUE).tag

\* The entry in front.  Those before the first free rank make room for it, and
\* where none is free the last is evicted.
ToFront(k, t) ==
    LET others == cache \ Cached(k)
        pushed(e) == \A n \in 1 .. e.rank : \E o \in others : o.rank = n
    IN {[key |-> k, tag |-> t, rank |-> 1]}
       \union {e \in others : ~pushed(e)}
       \union {[e EXCEPT !.rank = @ + 1] : e \in {o \in others : pushed(o) /\ o.rank < Cap}}

TouchedNot(k) == cache               \* mutant: the oldest entry is evicted

\* Get moves the entry to the front.
Touched(k) == IF Cached(k) = {} THEN cache ELSE ToFront(k, TagOf(k))

\* Set puts the entry in front and evicts the last when there are too many.
Stored(k, t) == ToFront(k, t)

\* Equal, or one a segment-ancestor of the other.
PathsRelated(p, written) == IsPrefix(written, p) \/ IsPrefix(p, written)

InvalidatePath(written) == {e \in cache : ~PathsRelated(Path[e.tag.url], written)}

-----------------------------------------------------------------------------
\* A read

UnderWay(u) == {r \in Reads : UrlOf[r] = u /\ read[r] \in {"asked", "answered"}}

\* The reads under way see that u is read.
Seen(u) ==
    [r \in Reads |-> IF read[r] \in {"asked", "answered"} /\ UrlOf[r] # u
                     THEN since[r] \union {u} ELSE since[r]]

\* Read r returns: of its request only the body is left.
Return(r) ==
    /\ read' = [read EXCEPT ![r] = "done"]
    /\ asked' = [asked EXCEPT ![r] = NoTag]
    /\ answer' = [answer EXCEPT ![r] = "none"]
    /\ began' = [began EXCEPT ![r] = 0]
    /\ with' = [with EXCEPT ![r] = {}]
    /\ dropped' = [dropped EXCEPT ![r] = FALSE]
    /\ since' = [Seen(UrlOf[r]) EXCEPT ![r] = {}]

\* The entry is looked up and its tag goes with the request.
Ask(r) ==
    LET k == Key(UrlOf[r])
    IN /\ read[r] = "idle"
       /\ read' = [read EXCEPT ![r] = "asked"]
       /\ began' = [began EXCEPT ![r] = content[UrlOf[r]]]
       /\ with' = [with EXCEPT ![r] =
             {content[UrlOf[r]]} \union {began[s] : s \in UnderWay(UrlOf[r])}]
       /\ cache' = Touched(k)
       /\ asked' = [asked EXCEPT ![r] = TagOf(k)]
       /\ since' = Seen(UrlOf[r])
       /\ UNCHANGED <<content, answer, body, write, dropped>>

\* GitHub compares the tag with the body it has at this moment.
Serve(r) ==
    LET tag == [url |-> UrlOf[r], version |-> content[UrlOf[r]]]
    IN /\ read[r] = "asked"
       /\ read' = [read EXCEPT ![r] = "answered"]
       /\ \/ /\ asked[r] = tag
             /\ answer' = [answer EXCEPT ![r] = "304"]
             /\ UNCHANGED body
          \/ /\ asked[r] # tag
             /\ answer' = [answer EXCEPT ![r] = "200"]
             /\ body' = [body EXCEPT ![r] = tag]
          \/ /\ "fail" \in Faults
             /\ answer' = [answer EXCEPT ![r] = "error"]
             /\ UNCHANGED body
       /\ UNCHANGED <<content, cache, asked, write, history>>

\* 304: the body of whatever entry the cache has for the URL by now.
Substitute(r) ==
    LET k == Key(UrlOf[r])
    IN /\ read[r] = "answered"
       /\ answer[r] = "304"
       /\ cache' = Touched(k)
       /\ body' = [body EXCEPT ![r] = TagOf(k)]
       /\ Return(r)
       /\ UNCHANGED <<content, write>>

\* 200: the body and its tag replace the entry.  Anything else passes through.
Store(r) ==
    /\ read[r] = "answered"
    /\ answer[r] # "304"
    /\ cache' = IF answer[r] = "200" THEN Stored(Key(UrlOf[r]), body[r]) ELSE cache
    /\ Return(r)
    /\ UNCHANGED <<content, body, write>>

-----------------------------------------------------------------------------
\* A write, and changes made by others

Change(S) ==
    /\ \A u \in S : content[u] < MaxVersion
    /\ content' = [u \in Urls |-> IF u \in S THEN content[u] + 1 ELSE content[u]]

Land(w) ==
    /\ write[w] = "idle"
    /\ Change(Changes[w])
    /\ write' = [write EXCEPT ![w] = "landed"]
    /\ UNCHANGED <<cache, readVars>>

\* One of the two is the other or above it.
Above(p, q) == IsPrefix(p, q) \/ IsPrefix(q, p)

\* Answered with 2xx.
Invalidate(w) ==
    /\ write[w] = "landed"
    /\ cache' = InvalidatePath(Target[w])
    /\ write' = [write EXCEPT ![w] = "done"]
    /\ dropped' = [r \in Reads |->
          dropped[r] \/ (r \in UnderWay(UrlOf[r]) /\ Above(Path[UrlOf[r]], Target[w]))]
    /\ UNCHANGED <<content, read, asked, answer, body, began, with, since>>

\* The write was refused, or it landed and the answer was lost.
WriteFails(w) ==
    /\ "fail" \in Faults
    /\ write[w] \in {"idle", "landed"}
    /\ write' = [write EXCEPT ![w] = "failed"]
    /\ UNCHANGED <<content, cache, readVars>>

Edit(u) ==
    /\ Change({u})
    /\ UNCHANGED <<cache, readVars, write>>

-----------------------------------------------------------------------------

Next ==
    \/ \E r \in Reads : Ask(r) \/ Serve(r) \/ Substitute(r) \/ Store(r)
    \/ \E w \in Writes : Land(w) \/ Invalidate(w) \/ WriteFails(w)
    \/ \E u \in Edited : Edit(u)

Spec == Init /\ [][Next]_vars

-----------------------------------------------------------------------------
\* Properties

\* The LRU has one entry per URL and no more than Cap of them.
TypeOK ==
    /\ content \in [Urls -> 0 .. MaxVersion]
    /\ cache \subseteq Entries
    /\ \A e, o \in cache : e.key = o.key \/ e.rank = o.rank => e = o
    /\ read \in [Reads -> {"idle", "asked", "answered", "done"}]
    /\ asked \in [Reads -> Tags \union {NoTag}]
    /\ answer \in [Reads -> {"none", "304", "200", "error"}]
    /\ body \in [Reads -> Tags \union {NoTag}]
    /\ write \in [Writes -> {"idle", "landed", "done", "failed"}]
    /\ began \in [Reads -> 0 .. MaxVersion]
    /\ with \in [Reads -> SUBSET (0 .. MaxVersion)]
    /\ dropped \in [Reads -> BOOLEAN]
    /\ since \in [Reads -> SUBSET Urls]

Returns(r) == read[r] = "answered" /\ read'[r] = "done"

(***************************************************************************)
(* A read returns a body of its own URL no older than itself, or than the  *)
(* oldest of the reads of that URL that were under way when it began: what *)
(* a 304 is given may come from another read's late 200, which takes no    *)
(* caller back further, whatever writes, evictions and lost answers come   *)
(* in between (transport.go:48-65, 68-77).                                 *)
(***************************************************************************)
FreshRead ==
    [][\A r \in Reads : Returns(r) /\ body'[r] # NoTag =>
          /\ body'[r].url = UrlOf[r]
          /\ \E v \in with[r] : body'[r].version >= v]_vars

(***************************************************************************)
(* A read whose 304 finds no body, which its caller takes for an error, is *)
(* the work of a write above or beneath it that was answered meanwhile, or *)
(* of as many other URLs read meanwhile as the cache has room for: no      *)
(* unrelated write, and no smaller crowd, loses the body between the two   *)
(* looks at the cache (transport.go:38-53).                                *)
(***************************************************************************)
BareAnswersHaveACause ==
    [][\A r \in Reads : Returns(r) /\ answer[r] = "304" /\ body'[r] = NoTag =>
          dropped[r] \/ Cardinality(since[r]) >= Cap]_vars
=============================================================================
