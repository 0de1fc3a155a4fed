-------------------------------- MODULE Routes --------------------------------
(***************************************************************************)
(* The mocked routes: database.routes (internal/database/routes.go), a     *)
(* mongo collection behind a gcache and an RWMutex, with the typed API of  *)
(* mongo.go and the HTTP handlers of static and proxy routes on top.       *)
(*                                                                         *)
(* Writers hold the mutex alone, so each is one action, whose database call*)
(* may fail before or after it took effect.  Readers share it: a lookup    *)
(* that misses the cache queries the collection and fills the cache in     *)
(* separate steps.  The cache holds CacheSize routes; one more evicts any. *)
(***************************************************************************)
EXTENDS Naturals, FiniteSets

CONSTANTS Path,
          Type,       \* route types in use, of {"static", "proxy", "dynamic"}
          Value,      \* responses, proxy URLs and script names
          ValidURL,   \* the values url.ParseRequestURI accepts
          Reader,     \* goroutines serving requests
          CacheSize,  \* cfg.CacheSize, 0 for a cache without bound
          DbErrors,   \* when a write may fail: of {"before", "after"}
          MaxUnknown, \* routes a path may have after failed writes: bounds the runs
          None, NoAnswer, Failed

Route == [type : Type, value : Value]

ASSUME RoutesAssumption == /\ Type \subseteq {"static", "proxy", "dynamic"}
                           /\ ValidURL \subseteq Value
                           /\ CacheSize \in Nat /\ MaxUnknown \in Nat
                           /\ {None, NoAnswer, Failed} \cap
                                [type : Type, value : Value \cup {None}] = {}
                           /\ Cardinality({None, NoAnswer, Failed}) = 3

VARIABLES coll,       \* coll[p]: the document with path p, or None
          cache,      \* cache[p]: the cached route of p, or None
          got,        \* got[r]: the path r asks for, and its answer
          pc, loaded, \* where each reader is, and what it read from coll
          allowed     \* allowed[p]: the routes p may have, as the clients know
                      \* from the answers to their writes.  A history variable.

readerVars == <<got, pc, loaded>>
vars == <<coll, cache, readerVars, allowed>>

TypeOK == /\ coll \in [Path -> Route \cup {None}]
          /\ cache \in [Path -> Route \cup {None}]
          /\ got \in [Reader -> [path : Path, answer : Route \cup {None, NoAnswer, Failed}]]
          /\ pc \in [Reader -> {"idle", "lookup", "load", "fill"}]
          /\ loaded \in [Reader -> Route \cup {None}]
          /\ allowed \in [Path -> SUBSET (Route \cup {None})]
          /\ \A r \in Reader : /\ pc[r] = "idle" <=> got[r].answer # NoAnswer
                               /\ pc[r] = "fill" <=> loaded[r] # None
          /\ CacheSize > 0 => Cardinality({p \in Path : cache[p] # None}) <= CacheSize

Init == /\ coll = [p \in Path |-> None] /\ cache = [p \in Path |-> None]
        /\ got \in [Reader -> [path : Path, answer : {Failed}]]
        /\ pc = [r \in Reader |-> "idle"] /\ loaded = [r \in Reader |-> None]
        /\ allowed = [p \in Path |-> {None}]

-----------------------------------------------------------------------------
(* gcache.Cache: Set evicts any one entry when the cache is full and the   *)
(* key is new.                                                             *)
Cached == {p \in Path : cache[p] # None}

\* Mutant: nothing is evicted.
CacheSet_NoEvict(p, x) == cache' = [cache EXCEPT ![p] = x]

CacheSet(p, x) ==
  IF cache[p] = None /\ CacheSize > 0 /\ Cardinality(Cached) >= CacheSize
    THEN \E e \in Cached : cache' = [cache EXCEPT ![e] = None, ![p] = x]
    ELSE cache' = [cache EXCEPT ![p] = x]

CacheRemove(p) == cache' = [cache EXCEPT ![p] = None]

\* Mutant: the mutex is not taken.
WriteLock_Missing == UNCHANGED readerVars

\* RunWithWriteLock: no reader is inside RunWithReadLock.
WriteLock == /\ \A r \in Reader : pc[r] \notin {"load", "fill"}
             /\ UNCHANGED readerVars

\* What clients know of p after a write that succeeded, or failed.
Succeeded(p, x) == allowed' = [allowed EXCEPT ![p] = {x}]
Unknown(p, x) == /\ Cardinality(allowed[p] \cup {x}) <= MaxUnknown
                 /\ allowed' = [allowed EXCEPT ![p] = @ \cup {x}]

addRoute(p, x) ==
  /\ WriteLock
  /\ \/ coll[p] # None /\ UNCHANGED <<coll, cache, allowed>>    \* ErrDuplicateKey
     \/ /\ coll[p] = None
        /\ coll' = [coll EXCEPT ![p] = x]
        /\ CacheSet(p, x)
        /\ Succeeded(p, x)
     \/ /\ "before" \in DbErrors
        /\ Unknown(p, x)
        /\ UNCHANGED <<coll, cache>>
     \/ /\ coll[p] = None /\ "after" \in DbErrors
        /\ coll' = [coll EXCEPT ![p] = x]
        /\ Unknown(p, x)
        /\ UNCHANGED cache

\* By path only, and a success when there is nothing to delete.
removeRoute(p) ==
  /\ WriteLock
  /\ \/ /\ coll' = [coll EXCEPT ![p] = None]
        /\ CacheRemove(p)
        /\ Succeeded(p, None)
     \/ /\ "before" \in DbErrors
        /\ Unknown(p, None)
        /\ UNCHANGED <<coll, cache>>
     \/ /\ "after" \in DbErrors
        /\ coll' = [coll EXCEPT ![p] = None]
        /\ Unknown(p, None)
        /\ UNCHANGED cache

\* The document UpdateOne leaves: $set names response and script_name only.
Updated(old, x) == IF x.type = "proxy" THEN old ELSE x

\* The filter has path and type.  An error leaves the result nil and the
\* handler panics on res.MatchedCount; gin recovers and answers 500.
updateRoute(p, x) ==
  /\ WriteLock
  /\ LET matched == coll[p] # None /\ coll[p].type = x.type IN
     \/ ~matched /\ UNCHANGED <<coll, cache, allowed>>          \* ErrNoSuchPath
     \/ /\ matched
        /\ coll' = [coll EXCEPT ![p] = Updated(coll[p], x)]
        /\ CacheSet(p, x)
        /\ Succeeded(p, x)
     \/ /\ "before" \in DbErrors
        /\ Unknown(p, x)
        /\ UNCHANGED <<coll, cache>>
     \/ /\ matched /\ "after" \in DbErrors
        /\ coll' = [coll EXCEPT ![p] = Updated(coll[p], x)]
        /\ Unknown(p, x)
        /\ UNCHANGED cache

-----------------------------------------------------------------------------
(* The HTTP API *)
Routed(t, v) == [type |-> t, value |-> v]

Post(t, p, v) == t # "proxy" /\ addRoute(p, Routed(t, v))

PostProxy(p, v) == /\ "proxy" \in Type /\ v \in ValidURL
                   /\ addRoute(p, Routed("proxy", v))

Put(t, p, v) == t # "proxy" /\ updateRoute(p, Routed(t, v))

\* Mutant: the URL is not parsed on update.
PutProxy_Unchecked(p, v) == "proxy" \in Type /\ updateRoute(p, Routed("proxy", v))

PutProxy(p, v) == /\ "proxy" \in Type /\ v \in ValidURL
                  /\ updateRoute(p, Routed("proxy", v))

Delete(p) == removeRoute(p)

(* getRoute, in RunWithReadLock from the lookup on *)
GetCall(r, p) == /\ pc[r] = "idle"
                 /\ pc' = [pc EXCEPT ![r] = "lookup"]
                 /\ got' = [got EXCEPT ![r] = [path |-> p, answer |-> NoAnswer]]
                 /\ UNCHANGED <<coll, cache, loaded, allowed>>

Respond(r, a) == /\ pc' = [pc EXCEPT ![r] = "idle"]
                 /\ got' = [got EXCEPT ![r].answer = a]

GetLookup(r) ==
  /\ pc[r] = "lookup"
  /\ LET x == cache[got[r].path] IN
       IF x # None THEN Respond(r, x)
                   ELSE pc' = [pc EXCEPT ![r] = "load"] /\ UNCHANGED got
  /\ UNCHANGED <<coll, cache, loaded, allowed>>

\* LoaderFunc: FindOne.  Only a success goes to the cache.
GetLoad(r) ==
  /\ pc[r] = "load"
  /\ \/ Respond(r, Failed) /\ UNCHANGED loaded
     \/ coll[got[r].path] = None /\ Respond(r, None) /\ UNCHANGED loaded
     \/ /\ coll[got[r].path] # None
        /\ loaded' = [loaded EXCEPT ![r] = coll[got[r].path]]
        /\ pc' = [pc EXCEPT ![r] = "fill"]
        /\ UNCHANGED got
  /\ UNCHANGED <<coll, cache, allowed>>

GetFill(r) ==
  /\ pc[r] = "fill"
  /\ CacheSet(got[r].path, loaded[r])
  /\ Respond(r, loaded[r])
  /\ loaded' = [loaded EXCEPT ![r] = None]
  /\ UNCHANGED <<coll, allowed>>

getRoute(r) == GetLookup(r) \/ GetLoad(r) \/ GetFill(r)

Next == \/ \E t \in Type, p \in Path, v \in Value : Post(t, p, v) \/ Put(t, p, v)
        \/ \E p \in Path, v \in Value : PostProxy(p, v) \/ PutProxy(p, v)
        \/ \E p \in Path : Delete(p)
        \/ \E r \in Reader : getRoute(r) \/ \E p \in Path : GetCall(r, p)

Spec == Init /\ [][Next]_vars /\ \A r \in Reader : WF_vars(getRoute(r))

-----------------------------------------------------------------------------
(* handleProxyRouteRequest ends the process if the URL of a proxy route    *)
(* does not parse (noroute_handler.go:61): no such route is ever served.   *)
NoFatalRoute ==
  \A p \in Path : \A x \in {coll[p], cache[p]} :
    x # None /\ x.type = "proxy" => x.value \in ValidURL

(* A request gets the route of the last write that succeeded, or of a      *)
(* later one that failed; proxy_routes_api_test.go:96 expects as much after*)
(* an update.                                                              *)
ReadsAreCurrent ==
  [][\A r \in Reader :
       got[r].answer = NoAnswer /\ got'[r].answer \notin {NoAnswer, Failed} =>
         got'[r].answer \in allowed[got[r].path]]_vars

(* Cache, collection and mutex together are one atomic map, up to the URLs *)
(* of proxy routes: whatever is evicted, loaded and written in between, the*)
(* answer to a request is what the map held after it was made.             *)
Visible(x) == IF x \in Route /\ x.type = "proxy" THEN [x EXCEPT !.value = None] ELSE x

Abstract == INSTANCE RouteMap WITH
  Route <- {Visible(x) : x \in Route},
  m <- [p \in Path |-> {Visible(x) : x \in allowed[p]}],
  got <- [r \in Reader |-> [got[r] EXCEPT !.answer = Visible(@)]]
ImplementsRouteMap == Abstract!Spec
=============================================================================
