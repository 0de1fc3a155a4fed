----------------------------- MODULE RoutesProofs -----------------------------
(***************************************************************************)
(* Routes for any number of paths, values and readers and any size of the  *)
(* cache: collection, cache and mutex implement the atomic map of RouteMap,*)
(* and no proxy route with a broken URL is ever stored, cached or loaded.  *)
(***************************************************************************)
EXTENDS Routes, FiniteSetTheorems, TLAPS

LEMMA Distinct == None # NoAnswer /\ None # Failed /\ NoAnswer # Failed
<1>1. \A x, y : Cardinality({x, y}) <= 2
  <2> TAKE x, y
  <2>1. IsFiniteSet({x}) /\ Cardinality({x}) = 1
    BY FS_Singleton
  <2>2. Cardinality({x} \cup {y}) \in {1, 2}
    BY <2>1, FS_AddElement
  <2>3. {x} \cup {y} = {x, y}
    OBVIOUS
  <2> QED BY <2>2, <2>3
<1>2. ASSUME None = NoAnswer \/ None = Failed \/ NoAnswer = Failed
      PROVE  \E x, y : {None, NoAnswer, Failed} = {x, y}
  <2>1. CASE None = NoAnswer
    <3>1. {None, NoAnswer, Failed} = {None, Failed}
      BY <2>1
    <3> QED BY <3>1
  <2>2. CASE None = Failed \/ NoAnswer = Failed
    <3>1. {None, NoAnswer, Failed} = {None, NoAnswer}
      BY <2>2
    <3> QED BY <3>1
  <2> QED BY <1>2, <2>1, <2>2
<1>3. Cardinality({None, NoAnswer, Failed}) = 3
  BY RoutesAssumption
<1> QED
  <2> SUFFICES ASSUME None = NoAnswer \/ None = Failed \/ NoAnswer = Failed
               PROVE  FALSE
    OBVIOUS
  <2>1. PICK x, y : {None, NoAnswer, Failed} = {x, y}
    BY <1>2
  <2>2. Cardinality({x, y}) = 3 /\ Cardinality({x, y}) <= 2
    BY <1>1, <1>3, <2>1
  <2> QED BY <2>2

-----------------------------------------------------------------------------
(* Types.  The cache is finite whatever Path is, so that CacheSize bounds  *)
(* its cardinality.                                                        *)
Question == [path : Path, answer : Route \cup {None, NoAnswer, Failed}]
ReaderPc == {"idle", "lookup", "load", "fill"}

ReaderOK(r) ==
  /\ pc[r] = "idle" <=> got[r].answer # NoAnswer
  /\ pc[r] = "fill" <=> loaded[r] # None

Typed ==
  /\ coll \in [Path -> Route \cup {None}]
  /\ cache \in [Path -> Route \cup {None}]
  /\ allowed \in [Path -> SUBSET (Route \cup {None})]
  /\ got \in [Reader -> Question] /\ pc \in [Reader -> ReaderPc]
  /\ loaded \in [Reader -> Route \cup {None}]
  /\ \A r \in Reader : ReaderOK(r)
  /\ IsFiniteSet(Cached)
  /\ CacheSize > 0 => Cardinality(Cached) <= CacheSize

\* A route that may be served.
Sound(x) == x # None /\ x.type = "proxy" => x.value \in ValidURL

(* Collection, cache and what readers have loaded agree with what clients  *)
(* know, up to the URLs of proxy routes.  No write comes between load and  *)
(* fill, so what was loaded is still what the collection has.              *)
Agree ==
  /\ \A p \in Path : /\ Visible(coll[p]) \in {Visible(x) : x \in allowed[p]}
                     /\ cache[p] # None => Visible(cache[p]) \in {Visible(x) : x \in allowed[p]}
  /\ \A r \in Reader : pc[r] = "fill" => loaded[r] = coll[got[r].path]

Safe == \A p \in Path : Sound(coll[p]) /\ Sound(cache[p])

IInv == Typed /\ Agree /\ Safe

-----------------------------------------------------------------------------
\* Setting an entry keeps the others or evicts one of them, within the bound.
LEMMA CacheSetFacts ==
  ASSUME Typed, NEW p \in Path, NEW x \in Route, CacheSet(p, x)
  PROVE  /\ cache' \in [Path -> Route \cup {None}]
         /\ cache'[p] = x
         /\ \A q \in Path \ {p} : cache'[q] \in {cache[q], None}
         /\ IsFiniteSet(Cached') /\ (CacheSize > 0 => Cardinality(Cached') <= CacheSize)
<1>1. cache \in [Path -> Route \cup {None}] /\ IsFiniteSet(Cached) /\ x # None
      /\ CacheSize \in Nat /\ Cardinality(Cached) \in Nat
      /\ (CacheSize > 0 => Cardinality(Cached) <= CacheSize)
  <2>1. x # None
    BY RoutesAssumption DEF Route
  <2> QED BY <2>1, RoutesAssumption, FS_CardinalityType DEF Typed
<1>2. CASE cache' = [cache EXCEPT ![p] = x]
           /\ ~(cache[p] = None /\ CacheSize > 0 /\ Cardinality(Cached) >= CacheSize)
  <2>1. Cached' = Cached \cup {p}
    BY <1>1, <1>2 DEF Cached
  <2>2. IsFiniteSet(Cached') /\ Cardinality(Cached') =
          IF p \in Cached THEN Cardinality(Cached) ELSE Cardinality(Cached) + 1
    BY <1>1, <2>1, FS_AddElement
  <2>3. p \in Cached <=> cache[p] # None
    BY DEF Cached
  <2>4. CacheSize > 0 => Cardinality(Cached') <= CacheSize
    BY <1>1, <1>2, <2>2, <2>3
  <2> QED BY <1>1, <1>2, <2>2, <2>4
<1>3. ASSUME NEW e \in Cached, cache' = [cache EXCEPT ![e] = None, ![p] = x], cache[p] = None
      PROVE  /\ cache' \in [Path -> Route \cup {None}]
             /\ cache'[p] = x
             /\ \A q \in Path \ {p} : cache'[q] \in {cache[q], None}
             /\ IsFiniteSet(Cached') /\ Cardinality(Cached') = Cardinality(Cached)
  <2>1. Cached' = (Cached \ {e}) \cup {p} /\ p \notin Cached \ {e}
    BY <1>1, <1>3 DEF Cached
  <2>2. IsFiniteSet(Cached \ {e}) /\ Cardinality(Cached \ {e}) = Cardinality(Cached) - 1
    BY <1>1, FS_RemoveElement
  <2>3. IsFiniteSet(Cached') /\ Cardinality(Cached') = Cardinality(Cached \ {e}) + 1
    BY <2>1, <2>2, FS_AddElement
  <2>4. Cardinality(Cached') = Cardinality(Cached)
    BY <1>1, <2>2, <2>3
  <2> QED BY <1>1, <1>3, <2>3, <2>4 DEF Cached
<1> QED BY <1>1, <1>2, <1>3 DEF CacheSet

LEMMA CacheRemoveFacts ==
  ASSUME Typed, NEW p \in Path, CacheRemove(p)
  PROVE  /\ cache' \in [Path -> Route \cup {None}]
         /\ cache'[p] = None
         /\ \A q \in Path \ {p} : cache'[q] = cache[q]
         /\ IsFiniteSet(Cached') /\ (CacheSize > 0 => Cardinality(Cached') <= CacheSize)
<1>1. IsFiniteSet(Cached) /\ Cardinality(Cached) \in Nat /\ CacheSize \in Nat
      /\ cache \in [Path -> Route \cup {None}]
      /\ (CacheSize > 0 => Cardinality(Cached) <= CacheSize)
  BY RoutesAssumption, FS_CardinalityType DEF Typed
<1>2. cache' = [cache EXCEPT ![p] = None]
  BY DEF CacheRemove
<1>3. Cached' = Cached \ {p}
  BY <1>1, <1>2 DEF Cached
<1>4. IsFiniteSet(Cached') /\ Cardinality(Cached') \in {Cardinality(Cached), Cardinality(Cached) - 1}
  BY <1>1, <1>3, FS_RemoveElement
<1> QED BY <1>1, <1>2, <1>4

-----------------------------------------------------------------------------
(* What a write does to p.  The database may have applied it, with or      *)
(* without the client knowing.                                             *)
Applied(p, x, y) ==
  /\ coll' = [coll EXCEPT ![p] = y]
  /\ cache' \in [Path -> Route \cup {None}]
  /\ cache'[p] \in {x, None} /\ \A q \in Path \ {p} : cache'[q] \in {cache[q], None}
  /\ IsFiniteSet(Cached') /\ (CacheSize > 0 => Cardinality(Cached') <= CacheSize)
  /\ Succeeded(p, x)

Broken(p, x, y) ==
  /\ coll' \in {coll, [coll EXCEPT ![p] = y]}
  /\ UNCHANGED cache
  /\ Unknown(p, x)

Written(p, x, y) ==
  /\ WriteLock
  /\ {x, y} \subseteq Route \cup {None} /\ Sound(x) /\ Sound(y) /\ Visible(x) = Visible(y)
  /\ Applied(p, x, y) \/ Broken(p, x, y)

LEMMA WrittenKeeps ==
  ASSUME IInv, NEW p \in Path, NEW x, NEW y, Written(p, x, y)
  PROVE  IInv'
<1>1. /\ coll' \in {coll, [coll EXCEPT ![p] = y]} /\ {x, y} \subseteq Route \cup {None}
      /\ UNCHANGED readerVars /\ \A r \in Reader : pc[r] \notin {"load", "fill"}
      /\ cache' \in [Path -> Route \cup {None}]
      /\ cache'[p] \in {x, None, cache[p]} /\ \A q \in Path \ {p} : cache'[q] \in {cache[q], None}
      /\ Visible(x) = Visible(y) /\ Sound(x) /\ Sound(y)
  BY DEF Written, Applied, Broken, WriteLock, IInv, Typed
<1>2. allowed' \in [Path -> SUBSET (Route \cup {None})]
  BY DEF Written, Applied, Broken, Succeeded, Unknown, IInv, Typed
<1>3. IsFiniteSet(Cached') /\ (CacheSize > 0 => Cardinality(Cached') <= CacheSize)
  <2>1. CASE UNCHANGED cache
    BY <2>1 DEF Cached, IInv, Typed
  <2> QED BY <2>1 DEF Written, Applied, Broken
<1>4. Typed'
  <2>1. coll' \in [Path -> Route \cup {None}]
    BY <1>1 DEF IInv, Typed
  <2>2. /\ (\A r \in Reader : ReaderOK(r))' /\ got' \in [Reader -> Question]
        /\ pc' \in [Reader -> ReaderPc] /\ loaded' \in [Reader -> Route \cup {None}]
    BY <1>1 DEF IInv, Typed, ReaderOK, readerVars
  <2> QED BY <1>1, <1>2, <1>3, <2>1, <2>2 DEF Typed
<1>5. \A q \in Path : /\ Visible(coll'[q]) \in {Visible(z) : z \in allowed'[q]}
                      /\ cache'[q] # None => Visible(cache'[q]) \in {Visible(z) : z \in allowed'[q]}
  <2>0. \A q \in Path : /\ Visible(coll[q]) \in {Visible(z) : z \in allowed[q]}
                        /\ cache[q] # None => Visible(cache[q]) \in {Visible(z) : z \in allowed[q]}
    BY DEF IInv, Agree
  <2>1. \A q \in Path \ {p} : allowed'[q] = allowed[q] /\ coll'[q] = coll[q]
    BY <1>1 DEF Written, Applied, Broken, Succeeded, Unknown, IInv, Typed
  <2>2. CASE Applied(p, x, y)
    <3>1. allowed'[p] = {x} /\ coll'[p] = y
      BY <2>2 DEF Applied, Succeeded, IInv, Typed
    <3>2. cache'[p] # None => cache'[p] = x
      BY <2>2 DEF Applied
    <3> QED BY <1>1, <2>0, <2>1, <3>1, <3>2
  <2>3. CASE Broken(p, x, y)
    <3>1. allowed'[p] = allowed[p] \cup {x} /\ coll'[p] \in {coll[p], y} /\ cache' = cache
      BY <2>3 DEF Broken, Unknown, IInv, Typed
    <3> QED BY <1>1, <2>0, <2>1, <3>1
  <2> QED BY <2>2, <2>3 DEF Written
<1>6. Agree'
  <2>1. \A r \in Reader : pc'[r] # "fill"
    BY <1>1 DEF readerVars
  <2> QED BY <1>5, <2>1 DEF Agree
<1>7. Safe'
  <2>1. \A q \in Path : coll'[q] \in {coll[q], y} /\ cache'[q] \in {cache[q], x, None}
    BY <1>1 DEF IInv, Typed
  <2>2. Sound(None)
    BY DEF Sound
  <2> QED BY <1>1, <2>1, <2>2 DEF IInv, Safe, Sound
<1> QED BY <1>4, <1>6, <1>7 DEF IInv

(* Every write changes nothing, or succeeds where the map lets it, or fails.*)
Idles == UNCHANGED <<coll, cache, allowed, readerVars>>

LEMMA AddStep ==
  ASSUME IInv, NEW p \in Path, NEW x \in Route, Sound(x), addRoute(p, x)
  PROVE  \/ Idles
         \/ Written(p, x, x) /\ Applied(p, x, x) /\ coll[p] = None
         \/ Written(p, x, x) /\ Broken(p, x, x)
<1>0. WriteLock /\ UNCHANGED readerVars
  BY DEF addRoute, WriteLock
<1>1. CASE coll[p] = None /\ coll' = [coll EXCEPT ![p] = x] /\ CacheSet(p, x) /\ Succeeded(p, x)
  <2>1. Applied(p, x, x)
    BY <1>1, CacheSetFacts DEF IInv, Applied
  <2> QED BY <1>0, <1>1, <2>1 DEF Written
<1>2. CASE Broken(p, x, x)
  BY <1>0, <1>2 DEF Written
<1>3. CASE UNCHANGED <<coll, cache, allowed>>
  BY <1>0, <1>3 DEF Idles
<1> QED BY <1>1, <1>2, <1>3 DEF addRoute, Broken

LEMMA RemoveStep ==
  ASSUME IInv, NEW p \in Path, removeRoute(p)
  PROVE  Written(p, None, None)
<1>0. WriteLock /\ Sound(None)
  BY DEF removeRoute, Sound
<1>1. CASE coll' = [coll EXCEPT ![p] = None] /\ CacheRemove(p) /\ Succeeded(p, None)
  <2>1. Applied(p, None, None)
    BY <1>1, CacheRemoveFacts DEF IInv, Applied
  <2> QED BY <1>0, <2>1 DEF Written
<1>2. CASE Broken(p, None, None)
  BY <1>0, <1>2 DEF Written
<1> QED BY <1>1, <1>2 DEF removeRoute, Broken

LEMMA UpdateStep ==
  ASSUME IInv, NEW p \in Path, NEW x \in Route, Sound(x), updateRoute(p, x)
  PROVE  \/ Idles
         \/ \E y : /\ Written(p, x, y) /\ Applied(p, x, y)
                  /\ coll[p] # None /\ coll[p].type = x.type
         \/ \E y : Written(p, x, y) /\ Broken(p, x, y)
<1> DEFINE y == Updated(coll[p], x)
           matched == coll[p] # None /\ coll[p].type = x.type
<1>0. WriteLock /\ UNCHANGED readerVars
  BY DEF updateRoute, WriteLock
<1>1. matched => y \in Route /\ Sound(y) /\ Visible(x) = Visible(y)
  <2> SUFFICES ASSUME matched PROVE y \in Route /\ Sound(y) /\ Visible(x) = Visible(y)
    OBVIOUS
  <2>1. coll[p] \in Route /\ Sound(coll[p])
    BY DEF IInv, Typed, Safe
  <2>2. CASE x.type # "proxy"
    BY <2>2 DEF Updated
  <2>3. CASE x.type = "proxy"
    <3>1. y = coll[p] /\ y.type = "proxy"
      BY <2>3 DEF Updated
    <3>2. \A z \in Route : z.type = "proxy" => Visible(z) = [type |-> "proxy", value |-> None]
      BY DEF Visible, Route
    <3> QED BY <2>1, <2>3, <3>1, <3>2
  <2> QED BY <2>2, <2>3
<1> HIDE DEF y
<1>2. CASE matched /\ coll' = [coll EXCEPT ![p] = y] /\ CacheSet(p, x) /\ Succeeded(p, x)
  <2>1. Applied(p, x, y)
    BY <1>2, CacheSetFacts DEF IInv, Applied
  <2> QED BY <1>0, <1>1, <1>2, <2>1 DEF Written
<1>3. CASE UNCHANGED <<coll, cache>> /\ Unknown(p, x)
  <2>1. Written(p, x, x) /\ Broken(p, x, x)
    BY <1>0, <1>3 DEF Written, Broken
  <2> QED BY <2>1
<1>4. CASE matched /\ coll' = [coll EXCEPT ![p] = y] /\ UNCHANGED cache /\ Unknown(p, x)
  BY <1>0, <1>1, <1>4 DEF Written, Broken
<1>5. CASE UNCHANGED <<coll, cache, allowed>>
  BY <1>0, <1>5 DEF Idles
<1> QED BY <1>2, <1>3, <1>4, <1>5 DEF updateRoute, y

-----------------------------------------------------------------------------
(* The readers *)

\* Reader r goes to c with question and answer g and the loaded route l.
Moves(r, g, c, l) ==
  /\ got' = [got EXCEPT ![r] = g] /\ pc' = [pc EXCEPT ![r] = c] /\ loaded' = [loaded EXCEPT ![r] = l]
  /\ g \in Question /\ c \in ReaderPc /\ l \in Route \cup {None}
  /\ c = "idle" <=> g.answer # NoAnswer
  /\ c = "fill" <=> l # None
  /\ c = "fill" => l = coll[g.path]
  /\ UNCHANGED <<coll, allowed>>

\* A step of a reader, with what it may put into the cache.
Reads(r, g, c, l) ==
  /\ Moves(r, g, c, l)
  /\ \/ UNCHANGED cache
     \/ coll[got[r].path] # None /\ CacheSet(got[r].path, coll[got[r].path])

LEMMA ReadsKeeps ==
  ASSUME IInv, NEW r \in Reader, NEW g, NEW c, NEW l, Reads(r, g, c, l)
  PROVE  IInv'
<1>1. /\ coll' = coll /\ allowed' = allowed /\ got[r].path \in Path
      /\ \A q \in Path : coll[q] \in Route \cup {None}
  BY DEF Reads, Moves, IInv, Typed, Question
<1>2. /\ (\A q \in Reader : ReaderOK(q))'
      /\ got' \in [Reader -> Question] /\ pc' \in [Reader -> ReaderPc]
      /\ loaded' \in [Reader -> Route \cup {None}]
      /\ \A q \in Reader : pc'[q] = "fill" => loaded'[q] = coll[got'[q].path]
  BY DEF Reads, Moves, IInv, Typed, Agree, ReaderOK, Question
<1>3. /\ cache' \in [Path -> Route \cup {None}]
      /\ \A q \in Path : cache'[q] \in {None, cache[q], coll[q]}
      /\ IsFiniteSet(Cached') /\ (CacheSize > 0 => Cardinality(Cached') <= CacheSize)
  <2>1. CASE UNCHANGED cache
    BY <2>1 DEF Cached, IInv, Typed
  <2>2. CASE coll[got[r].path] # None /\ CacheSet(got[r].path, coll[got[r].path])
    <3> DEFINE p == got[r].path
    <3>1. p \in Path /\ coll[p] \in Route
      BY <1>1, <2>2
    <3> HIDE DEF p
    <3>2. CacheSet(p, coll[p])
      BY <2>2 DEF p
    <3> QED BY <3>1, <3>2, CacheSetFacts DEF IInv
  <2> QED BY <2>1, <2>2 DEF Reads
<1>4. Typed'
  BY <1>1, <1>2, <1>3 DEF IInv, Typed
<1>5. Agree'
  BY <1>1, <1>2, <1>3 DEF IInv, Agree
<1>6. Safe'
  BY <1>1, <1>3 DEF IInv, Safe, Sound
<1> QED BY <1>4, <1>5, <1>6 DEF IInv

(* What a reader does: it asks, it goes on, or it answers with what it     *)
(* found in the cache or the collection, or with an error.                 *)
Found(p) == {Failed, coll[p]} \cup {x \in {cache[p]} : x # None}

ReaderDoes(r) ==
  \E g, c, l :
    /\ Reads(r, g, c, l)
    /\ \/ \E p \in Path : got[r].answer # NoAnswer /\ g = [path |-> p, answer |-> NoAnswer]
       \/ g = got[r]
       \/ got[r].answer = NoAnswer /\ \E a \in Found(got[r].path) : g = [got[r] EXCEPT !.answer = a]

LEMMA RespondStep ==
  ASSUME IInv, NEW r \in Reader, got[r].answer = NoAnswer,
         NEW a \in Found(got[r].path), Respond(r, a),
         UNCHANGED <<coll, allowed>>, loaded' = [loaded EXCEPT ![r] = None],
         \/ UNCHANGED cache
         \/ coll[got[r].path] # None /\ CacheSet(got[r].path, coll[got[r].path])
  PROVE  ReaderDoes(r)
<1> DEFINE g == [got[r] EXCEPT !.answer = a]
<1>0. /\ got[r] \in Question /\ coll[got[r].path] \in Route \cup {None}
      /\ cache[got[r].path] \in Route \cup {None}
  BY DEF IInv, Typed, Question
<1>1. a \in Route \cup {None, Failed} /\ a # NoAnswer
  <2>1. NoAnswer \notin Route
    BY RoutesAssumption DEF Route
  <2> QED BY <1>0, <2>1, Distinct DEF Found
<1>2. g \in Question /\ g.answer = a
  BY <1>0, <1>1 DEF Question
<1>3. got' = [got EXCEPT ![r] = g] /\ pc' = [pc EXCEPT ![r] = "idle"]
  BY DEF Respond
<1> HIDE DEF g
<1>4. Reads(r, g, "idle", None)
  BY <1>1, <1>2, <1>3 DEF Reads, Moves, ReaderPc
<1> QED BY <1>4 DEF ReaderDoes, g

LEMMA ReaderStep ==
  ASSUME IInv, NEW r \in Reader, getRoute(r) \/ \E p \in Path : GetCall(r, p)
  PROVE  ReaderDoes(r)
<1> DEFINE p == got[r].path
<1>0. /\ got[r] \in Question /\ p \in Path
      /\ loaded[r] \in Route \cup {None}
      /\ (pc[r] = "idle" <=> got[r].answer # NoAnswer) /\ (pc[r] = "fill" <=> loaded[r] # None)
      /\ pc[r] = "fill" => loaded[r] = coll[p]
      /\ coll[p] \in Route \cup {None} /\ cache[p] \in Route \cup {None}
  BY DEF IInv, Typed, Agree, ReaderOK, Question
<1>1. NoAnswer \notin Route \cup {None, Failed}
  BY RoutesAssumption, Distinct DEF Route
<1>2. loaded[r] # None => loaded[r] \in Route
  BY <1>0
<1>3. /\ got = [got EXCEPT ![r] = got[r]] /\ loaded = [loaded EXCEPT ![r] = loaded[r]]
  BY DEF IInv, Typed
<1>4. ASSUME NEW q \in Path, GetCall(r, q) PROVE ReaderDoes(r)
  <2> DEFINE g == [path |-> q, answer |-> NoAnswer]
  <2>1. Reads(r, g, "lookup", loaded[r])
    BY <1>0, <1>1, <1>3, <1>4 DEF GetCall, Reads, Moves, Question, ReaderPc
  <2>2. got[r].answer # NoAnswer
    BY <1>0, <1>4 DEF GetCall
  <2> QED BY <2>1, <2>2 DEF ReaderDoes
<1>6. CASE GetLookup(r)
  <2>1. UNCHANGED <<coll, cache, loaded, allowed>> /\ pc[r] = "lookup" /\ loaded[r] = None
        /\ got[r].answer = NoAnswer
    BY <1>0, <1>6 DEF GetLookup
  <2>2. CASE cache[p] # None /\ Respond(r, cache[p])
    <3>1. cache[p] \in Found(p) /\ loaded' = [loaded EXCEPT ![r] = None]
      BY <1>3, <2>1, <2>2 DEF Found
    <3> QED BY <2>1, <2>2, <3>1, RespondStep
  <2>3. CASE pc' = [pc EXCEPT ![r] = "load"] /\ UNCHANGED got
    <3>1. Reads(r, got[r], "load", None)
      BY <1>0, <1>3, <2>1, <2>3 DEF Reads, Moves, ReaderPc
    <3> QED BY <3>1 DEF ReaderDoes
  <2> QED BY <1>6, <2>2, <2>3 DEF GetLookup
<1>7. CASE GetLoad(r)
  <2>1. UNCHANGED <<coll, cache, allowed>> /\ pc[r] = "load" /\ loaded[r] = None
        /\ got[r].answer = NoAnswer
    BY <1>0, <1>7 DEF GetLoad
  <2>2. ASSUME NEW a \in {Failed, None}, Respond(r, a), UNCHANGED loaded, a = None => coll[p] = None
        PROVE  ReaderDoes(r)
    <3>1. a \in Found(p) /\ loaded' = [loaded EXCEPT ![r] = None]
      BY <1>3, <2>1, <2>2 DEF Found
    <3> QED BY <2>1, <2>2, <3>1, RespondStep
  <2>3. CASE /\ coll[p] # None /\ loaded' = [loaded EXCEPT ![r] = coll[p]]
             /\ pc' = [pc EXCEPT ![r] = "fill"] /\ UNCHANGED got
    <3>1. Reads(r, got[r], "fill", coll[p])
      BY <1>0, <1>3, <2>1, <2>3 DEF Reads, Moves, ReaderPc
    <3> QED BY <3>1 DEF ReaderDoes
  <2>4. \/ Respond(r, Failed) /\ UNCHANGED loaded
        \/ coll[p] = None /\ Respond(r, None) /\ UNCHANGED loaded
        \/ /\ coll[p] # None /\ loaded' = [loaded EXCEPT ![r] = coll[p]]
           /\ pc' = [pc EXCEPT ![r] = "fill"] /\ UNCHANGED got
    BY <1>7 DEF GetLoad
  <2> HIDE DEF p
  <2> QED BY <2>2, <2>3, <2>4, Distinct
<1>8. CASE GetFill(r)
  <2>1. /\ got[r].answer = NoAnswer /\ loaded[r] = coll[p] /\ coll[p] # None
        /\ CacheSet(p, coll[p]) /\ Respond(r, coll[p])
        /\ loaded' = [loaded EXCEPT ![r] = None] /\ UNCHANGED <<coll, allowed>>
    BY <1>0, <1>8 DEF GetFill
  <2>2. coll[p] \in Found(p)
    BY DEF Found
  <2> QED BY <2>1, <2>2, RespondStep
<1> QED BY <1>4, <1>6, <1>7, <1>8 DEF getRoute

-----------------------------------------------------------------------------
(* The invariant *)
LEMMA InitHolds == Init => IInv
<1> SUFFICES ASSUME Init PROVE IInv
  OBVIOUS
<1>1. None \notin Route /\ NoAnswer \notin Route
  BY RoutesAssumption DEF Route
<1>2. Cached = {}
  BY DEF Init, Cached
<1>3. IsFiniteSet(Cached) /\ Cardinality(Cached) = 0
  BY <1>2, FS_EmptySet
<1>4. Typed
  <2>1. \A r \in Reader : got[r].answer = Failed
    BY DEF Init
  <2>2. got \in [Reader -> Question]
    BY DEF Init, Question
  <2> QED BY <1>3, <2>1, <2>2, Distinct, RoutesAssumption DEF Init, Typed, ReaderOK, ReaderPc
<1>5. Agree /\ Safe
  BY DEF Init, Agree, Safe, Sound
<1> QED BY <1>4, <1>5 DEF IInv

\* What the steps of Next do.
Does == \/ Idles
        \/ \E p \in Path, x \in Route \cup {None} : \E y :
             /\ Written(p, x, y)
             /\ \/ Broken(p, x, y)
                \/ /\ Applied(p, x, y)
                   /\ \/ x = None
                      \/ x # None /\ coll[p] = None
                      \/ x # None /\ coll[p] # None /\ coll[p].type = x.type
        \/ \E r \in Reader : ReaderDoes(r)

LEMMA NextDoes ==
  ASSUME IInv, [Next]_vars
  PROVE  Does
<1>0. \A x \in Route : x # None
  BY RoutesAssumption DEF Route
<1>1. CASE UNCHANGED vars
  BY <1>1 DEF vars, readerVars, Does, Idles
<1>2. ASSUME NEW p \in Path, NEW x \in Route, Sound(x), addRoute(p, x) \/ updateRoute(p, x)
      PROVE  Does
  BY <1>0, <1>2, AddStep, UpdateStep DEF Does
<1>3. ASSUME NEW t \in Type, NEW p \in Path, NEW v \in Value, Post(t, p, v) \/ Put(t, p, v)
      PROVE  Does
  <2>1. Routed(t, v) \in Route /\ Sound(Routed(t, v))
    BY <1>3 DEF Post, Put, Routed, Route, Sound
  <2> QED BY <1>2, <1>3, <2>1 DEF Post, Put
<1>4. ASSUME NEW p \in Path, NEW v \in Value, PostProxy(p, v) \/ PutProxy(p, v)
      PROVE  Does
  <2>1. Routed("proxy", v) \in Route /\ Sound(Routed("proxy", v))
    BY <1>4 DEF PostProxy, PutProxy, Routed, Route, Sound
  <2> QED BY <1>2, <1>4, <2>1 DEF PostProxy, PutProxy
<1>5. ASSUME NEW p \in Path, Delete(p) PROVE Does
  <2>1. Written(p, None, None)
    BY <1>5, RemoveStep DEF Delete
  <2> QED BY <2>1 DEF Does, Written
<1>6. ASSUME NEW r \in Reader, getRoute(r) \/ \E p \in Path : GetCall(r, p) PROVE Does
  BY <1>6, ReaderStep DEF Does
<1> QED BY <1>1, <1>3, <1>4, <1>5, <1>6 DEF Next

LEMMA DoesKeeps ==
  ASSUME IInv, Does
  PROVE  IInv'
<1>1. CASE Idles
  BY <1>1 DEF Idles, readerVars, IInv, Typed, ReaderOK, Cached, Agree, Safe
<1>2. CASE \E p \in Path, x \in Route \cup {None} : \E y : Written(p, x, y)
  BY <1>2, WrittenKeeps
<1>3. CASE \E r \in Reader : ReaderDoes(r)
  BY <1>3, ReadsKeeps DEF ReaderDoes
<1> QED BY <1>1, <1>2, <1>3 DEF Does

LEMMA Invariance == Spec => []IInv
BY InitHolds, NextDoes, DoesKeeps, PTL DEF Spec

(* The variables have their types and the cache its bound.                 *)
THEOREM TypeCorrect == Spec => []TypeOK
<1>1. IInv => TypeOK
  BY DEF IInv, Typed, ReaderOK, Question, ReaderPc, TypeOK, Cached
<1> QED BY <1>1, Invariance, PTL

(* No proxy route whose URL does not parse is stored or cached, so none can*)
(* end the process when it is requested.                                   *)
THEOREM NoRouteIsFatal == Spec => []NoFatalRoute
<1>1. IInv => NoFatalRoute
  BY DEF IInv, Safe, Sound, NoFatalRoute
<1> QED BY <1>1, Invariance, PTL

-----------------------------------------------------------------------------
(* Refinement.  Value \cup {None} holds what is visible of a route.        *)
LEMMA VisibleFacts ==
  /\ \A x \in Route : /\ Visible(x) \notin {None, NoAnswer, Failed} /\ Visible(x).type = x.type
  /\ \A x \in {None, NoAnswer, Failed} : Visible(x) = x
<1>1. ASSUME NEW x \in Route
      PROVE  Visible(x) \in [type : Type, value : Value \cup {None}] /\ Visible(x).type = x.type
  BY DEF Visible, Route
<1>2. \A x \in {None, NoAnswer, Failed} : x \notin Route
  BY RoutesAssumption DEF Route
<1> QED BY <1>1, <1>2, RoutesAssumption DEF Visible

LEMMA InitRefines == Init => Abstract!Init
<1> SUFFICES ASSUME Init PROVE Abstract!Init
  OBVIOUS
<1>1. {Visible(x) : x \in {None}} = {None}
  BY VisibleFacts
<1>2. [p \in Path |-> {Visible(x) : x \in allowed[p]}] = [p \in Path |-> {None}]
  BY <1>1 DEF Init
<1>3. [r \in Reader |-> [got[r] EXCEPT !.answer = Visible(@)]] \in [Reader -> [path : Path, answer : {Failed}]]
  BY VisibleFacts DEF Init
<1> QED BY <1>2, <1>3 DEF Abstract!Init

Known == [p \in Path |-> {Visible(x) : x \in allowed[p]}]
Seen == [r \in Reader |-> [got[r] EXCEPT !.answer = Visible(@)]]

LEMMA WrittenRefines ==
  ASSUME IInv, NEW p \in Path, NEW x \in Route \cup {None}, NEW y, Written(p, x, y),
         \/ Broken(p, x, y)
         \/ /\ Applied(p, x, y)
            /\ \/ x = None
               \/ x # None /\ coll[p] = None
               \/ x # None /\ coll[p] # None /\ coll[p].type = x.type
  PROVE  Abstract!Next
<1>0. allowed \in [Path -> SUBSET (Route \cup {None})] /\ Visible(coll[p]) \in Known[p]
      /\ coll[p] \in Route \cup {None} /\ Seen' = Seen
  BY DEF IInv, Typed, Agree, Known, Seen, Written, WriteLock, readerVars
<1>1. Visible(None) = None /\ (x # None => Visible(x) \in {Visible(z) : z \in Route})
  BY VisibleFacts
<1>2. CASE Broken(p, x, y)
  <2>1. allowed' = [allowed EXCEPT ![p] = @ \cup {x}]
    BY <1>2 DEF Broken, Unknown
  <2>2. Known' = [Known EXCEPT ![p] = @ \cup {Visible(x)}]
    BY <1>0, <2>1 DEF Known
  <2>3. Abstract!WriteFails(p, Visible(x))
    BY <1>0, <2>2 DEF Abstract!WriteFails, Known, Seen
  <2> QED BY <1>1, <2>3 DEF Abstract!Next
<1>3. CASE Applied(p, x, y)
  <2>1. allowed' = [allowed EXCEPT ![p] = {x}]
    BY <1>3 DEF Applied, Succeeded
  <2>2. Known' = [Known EXCEPT ![p] = {Visible(x)}]
    BY <1>0, <2>1 DEF Known
  <2>3. CASE x = None
    <3>1. Abstract!Remove(p)
      BY <1>0, <1>1, <2>2, <2>3 DEF Abstract!Remove, Known, Seen
    <3> QED BY <3>1 DEF Abstract!Next
  <2>4. CASE x # None /\ coll[p] = None
    <3>1. Abstract!Add(p, Visible(x))
      BY <1>0, <1>1, <2>2, <2>4 DEF Abstract!Add, Known, Seen
    <3> QED BY <1>1, <2>4, <3>1 DEF Abstract!Next
  <2>5. CASE x # None /\ coll[p] # None /\ coll[p].type = x.type
    <3>1. Visible(coll[p]) # None /\ Visible(coll[p]).type = Visible(x).type
      BY <1>0, <2>5, VisibleFacts
    <3>2. Abstract!Holds(p, Visible(x).type)
      BY <1>0, <3>1 DEF Abstract!Holds, Known
    <3>3. Abstract!Update(p, Visible(x))
      BY <1>0, <2>2, <3>2 DEF Abstract!Update, Known, Seen
    <3> QED BY <1>1, <2>5, <3>3 DEF Abstract!Next
  <2>6. x = None \/ (x # None /\ coll[p] = None) \/ (x # None /\ coll[p] # None /\ coll[p].type = x.type) \/ Broken(p, x, y)
    OBVIOUS
  <2> QED BY <1>2, <2>3, <2>4, <2>5, <2>6
<1> QED BY <1>2, <1>3

LEMMA ReaderRefines ==
  ASSUME IInv, NEW r \in Reader, ReaderDoes(r)
  PROVE  Abstract!Next \/ UNCHANGED <<Known, Seen>>
<1>1. PICK g, c, l :
        /\ Reads(r, g, c, l)
        /\ \/ \E p \in Path : got[r].answer # NoAnswer /\ g = [path |-> p, answer |-> NoAnswer]
           \/ g = got[r]
           \/ got[r].answer = NoAnswer /\ \E a \in Found(got[r].path) : g = [got[r] EXCEPT !.answer = a]
  BY DEF ReaderDoes
<1>2. /\ got \in [Reader -> Question] /\ got' = [got EXCEPT ![r] = g] /\ g \in Question
      /\ Known' = Known /\ got[r].path \in Path
  BY <1>1 DEF IInv, Typed, Reads, Moves, Known, Question
<1>3. Seen' = [Seen EXCEPT ![r] = [g EXCEPT !.answer = Visible(@)]]
  BY <1>2 DEF Seen
<1>4. \A q \in Reader : Seen[q].path = got[q].path /\ Seen[q].answer = Visible(got[q].answer)
  BY <1>2 DEF Seen, Question
<1>5. \A z \in Route \cup {None, Failed, NoAnswer} : Visible(z) = NoAnswer <=> z = NoAnswer
  BY VisibleFacts, Distinct
<1>6. ASSUME NEW p \in Path, got[r].answer # NoAnswer, g = [path |-> p, answer |-> NoAnswer]
      PROVE  Abstract!Next
  <2>1. Seen[r].answer # NoAnswer
    BY <1>2, <1>4, <1>5, <1>6 DEF Question
  <2>2. [g EXCEPT !.answer = Visible(@)] = [path |-> p, answer |-> NoAnswer]
    BY <1>6, VisibleFacts
  <2>3. Abstract!Ask(r, p)
    BY <1>2, <1>3, <2>1, <2>2 DEF Abstract!Ask, Known, Seen
  <2> QED BY <2>3 DEF Abstract!Next
<1>7. CASE g = got[r]
  <2>1. got' = got
    BY <1>2, <1>7
  <2> QED BY <1>2, <2>1 DEF Seen
<1>8. ASSUME NEW a \in Found(got[r].path), got[r].answer = NoAnswer, g = [got[r] EXCEPT !.answer = a]
      PROVE  Abstract!Next
  <2>1. Seen[r].answer = NoAnswer
    BY <1>4, <1>8, VisibleFacts
  <2>2. Visible(a) \in Known[got[r].path] \cup {Failed}
    BY <1>2, <1>8, VisibleFacts DEF Found, IInv, Agree, Known
  <2>3. [g EXCEPT !.answer = Visible(@)] = [Seen[r] EXCEPT !.answer = Visible(a)]
    BY <1>2, <1>8 DEF Seen, Question
  <2>4. Abstract!Answer(r)
    BY <1>2, <1>3, <1>4, <2>1, <2>2, <2>3 DEF Abstract!Answer, Known, Seen
  <2> QED BY <2>4 DEF Abstract!Next
<1> QED BY <1>1, <1>6, <1>7, <1>8

(* Collection, cache and mutex are one atomic map for every cache size and *)
(* any number of readers and writers: a write that succeeds sets what the  *)
(* map holds, a failed one may have, and an answer is what it holds.       *)
THEOREM Refinement == Spec => ImplementsRouteMap
<1>1. ASSUME IInv, Does PROVE Abstract!Next \/ UNCHANGED <<Known, Seen>>
  <2>1. CASE Idles
    BY <2>1 DEF Idles, Known, Seen, readerVars
  <2>2. CASE \E p \in Path, x \in Route \cup {None} : \E y :
               /\ Written(p, x, y)
               /\ \/ Broken(p, x, y)
                  \/ /\ Applied(p, x, y)
                     /\ \/ x = None
                        \/ x # None /\ coll[p] = None
                        \/ x # None /\ coll[p] # None /\ coll[p].type = x.type
    BY <1>1, <2>2, WrittenRefines
  <2>3. CASE \E r \in Reader : ReaderDoes(r)
    BY <1>1, <2>3, ReaderRefines
  <2> QED BY <1>1, <2>1, <2>2, <2>3 DEF Does
<1>2. UNCHANGED <<Known, Seen>> => UNCHANGED Abstract!mvars
  BY DEF Known, Seen, Abstract!mvars
<1>3. IInv /\ [Next]_vars => [Abstract!Next]_(Abstract!mvars)
  BY <1>1, <1>2, NextDoes
<1> QED BY <1>3, InitRefines, Invariance, PTL DEF Spec, ImplementsRouteMap, Abstract!Spec
===============================================================================
