-------------------------- MODULE DataStreamHandler --------------------------
(***************************************************************************)
(* The state behind the DataStreamHandler singleton that every stream      *)
(* shares: the heap of cache objects, the map HttpCache from URL to cache  *)
(* object, and the queue freeHandles of idle curl easy handles.  The       *)
(* member functions are operators on those parts, composed into actions    *)
(* by HttpStream.                                                          *)
(***************************************************************************)
EXTENDS CacheObject, FiniteSets, FiniteSetsExt, SequencesExt

CONSTANTS
  Url,                          \* a set of numbers, in the order of std::map
  Obj,                          \* addresses of cache objects
  Handle,                       \* addresses of curl easy handles
  MAX_CACHE_SIZE                \* in the units of BufferSize

ASSUME UrlAssumption  == Url \subseteq Nat /\ None \notin Url
ASSUME ObjAssumption  == None \notin Obj
ASSUME HandleAssumption == None \notin Handle
ASSUME CacheSizeAssumption == MAX_CACHE_SIZE \in Nat

VARIABLES
  heap,                         \* heap[o]: the object at o, or NoObject
  HttpCache,                    \* HttpCache[u]: its object's address or None
  freeHandles                   \* queue of handles no stream uses

handlerVars == <<heap, HttpCache, freeHandles>>

HandlerInit ==
  /\ heap = [o \in Obj |-> NoObject]
  /\ HttpCache = [u \in Url |-> None]
  /\ freeHandles = <<>>

Cached(c) == {u \in Url : c[u] # None}

(***************************************************************************)
(* getCacheObject: an entry in use is not handed out.  A dangling entry is *)
(* handed out as if it were idle (the caller records the access).          *)
(***************************************************************************)
GetCacheObject(h, c, u) ==
  IF c[u] # None /\ (Exists(h[c[u]]) => State(h[c[u]]) # "BUSY")
  THEN c[u] ELSE None

(***************************************************************************)
(* checkCacheSize walks the map from its last key down to, but not         *)
(* including, its first one, and frees what is idle and is not the object  *)
(* just added, for as long as the total is above the maximum.              *)
(***************************************************************************)
SizeAt(h, c, u) == IF Exists(h[c[u]]) THEN BufferSize(h[c[u]]) ELSE 0

CacheSize(h, c, urls) == MapThenSumSet(LAMBDA u : SizeAt(h, c, u), urls)

\* Mutant: an entry is freed whether or not it is in use.
IdleAnyhow(h, o) == Exists(h[o])

\* Mutant: the test of the state is the wrong way round.
IdleSwapped(h, o) == Exists(h[o]) /\ State(h[o]) = "BUSY"

Idle(h, o) == Exists(h[o]) /\ State(h[o]) # "BUSY"

\* Mutant: an entry is freed when the total only equals the maximum.
ExamineAtLimit(h, c, item, walk, u) ==
  IF walk.size >= MAX_CACHE_SIZE /\ c[u] # item /\ Idle(h, c[u])
  THEN [walk EXCEPT !.size = @ - SizeAt(h, c, u), !.gone = @ \cup {u}]
  ELSE walk

\* One turn of the loop, at key u.  erase() leaves the loop's own iterator
\* invalid: it is decremented when the total is still above the maximum, which
\* is undefined.  That is recorded ("bad"), and the walk goes on at the entry
\* before, as it does when the freed node has not been overwritten.
Examine(h, c, item, walk, u) ==
  IF walk.size > MAX_CACHE_SIZE /\ c[u] # item /\ Idle(h, c[u])
  THEN LET left == walk.size - SizeAt(h, c, u)
       IN  [size |-> left,
            gone |-> walk.gone \cup {u},
            bad  |-> walk.bad \/ left > MAX_CACHE_SIZE]
  ELSE walk

\* The fold takes the least key out last.
Walk(h, c, item) ==
  MapThenFoldSet(LAMBDA u, walk : Examine(h, c, item, walk, u),
                 [size |-> CacheSize(h, c, Cached(c)), gone |-> {}, bad |-> FALSE],
                 LAMBDA u : u, Min, Cached(c) \ {Min(Cached(c))})

\* Mutant: the entries of freed objects stay in the map.
CheckCacheSizeKeepingKeys(h, c, item) ==
  LET walk == Walk(h, c, item)
  IN  [heap  |-> [o \in Obj |->
                    IF \E u \in Url : u \in walk.gone /\ c[u] = o
                    THEN NoObject ELSE h[o]],
       cache |-> c,
       bad   |-> IF walk.bad THEN {"iterator"} ELSE {}]

CheckCacheSize(h, c, item) ==
  LET walk == Walk(h, c, item)
  IN  [heap  |-> [o \in Obj |->
                    IF \E u \in Url : u \in walk.gone /\ c[u] = o
                    THEN NoObject ELSE h[o]],
       cache |-> [u \in Url |-> IF u \in walk.gone THEN None ELSE c[u]],
       bad   |-> IF walk.bad THEN {"iterator"} ELSE {}]

(***************************************************************************)
(* addCacheObject: an entry in use wins over the new object; an idle one   *)
(* is freed and replaced; the entry itself is left in place.               *)
(***************************************************************************)
DeletesItem(h, c, u, item) ==
  /\ c[u] # None
  /\ c[u] # item
  /\ Exists(h[c[u]])
  /\ State(h[c[u]]) = "BUSY"

AddCacheObject(h, c, u, item) ==
  IF DeletesItem(h, c, u, item)
  THEN [heap |-> [h EXCEPT ![item] = NoObject], cache |-> c, bad |-> {}]
  ELSE LET freed == IF c[u] # None /\ c[u] # item
                    THEN [h EXCEPT ![c[u]] = NoObject] ELSE h
       IN  CheckCacheSize(freed, [c EXCEPT ![u] = item], item)

(***************************************************************************)
(* newStream takes the oldest idle handle, or creates one when there is    *)
(* none; releaseHandle puts a handle at the end of the queue.              *)
(***************************************************************************)
HandleToUse(held, h) ==
  IF freeHandles # <<>> THEN h = Head(freeHandles) ELSE h \in Handle \ held

\* Mutant: the handle taken is not popped from the queue.
HandlesLeftUnpopped == freeHandles

HandlesLeft == IF freeHandles # <<>> THEN Tail(freeHandles) ELSE freeHandles

ReleaseHandle(h) == freeHandles' = Append(freeHandles, h)

=============================================================================
