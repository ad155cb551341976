------------------------------ MODULE TileServing ------------------------------
(***************************************************************************)
(* The read requests of ReadRoutes against the tokens and views of         *)
(* ServingViews: the validation of the token (validateSvQuery), the later  *)
(* checks, the statements, and for composite tiles of long-lived tokens    *)
(* the replay cache (packages/api/src/tiles/replay_cache.ts): two files    *)
(* per tile, each written in place.  The tables the tiles are rendered     *)
(* from move under the requests.                                           *)
(***************************************************************************)
EXTENDS ServingViews, ReadRoutes

CONSTANTS RoutesOf,    \* the routes each client uses
          Flaws,       \* the checks of ReadRoutes their requests may fail
          Big, Huge,   \* versions whose tile is too large, even trimmed
          ReplayMinTtl,
          NoToken, Torn,
          MaxServed, MaxEvents  \* bounds of the model

Versions == 0..MaxServed

\* A rendered tile; its metadata count and measure exactly this tile.
Tile == [version : Versions, trimmed : BOOLEAN]

ASSUME TileServingAssumption ==
  /\ RoutesOf \in [Reqs -> SUBSET RouteNames]
  /\ MaxServed \in Nat /\ MaxEvents \in Nat /\ Huge \subseteq Big
  /\ ReplayMinTtl \in Nat /\ Torn \notin Tile

VARIABLES served,     \* the version of the serving tables
          mvt, meta,  \* the files of the replay cache, by the key's token
          contended,  \* history: keys two requests missed together
          events      \* what happened around the requests, for the bound

vars == <<tokenVars, viewVars, served, mvt, meta, contended, events>>
cacheVars == <<mvt, meta, contended, events>>
worldVars == <<tokenVars, marks, views, held>>

With(f, key, x) == [k \in DOMAIN f \cup {key} |-> IF k = key THEN x ELSE f[k]]

Init ==
  /\ TokensInit /\ ViewsInit
  /\ served = 0 /\ mvt = <<>> /\ meta = <<>> /\ contended = {}
  /\ events = 0

\* What the client gets; token and sound are of the check it passed, if any.
Answer(r, status) ==
  Go(r, [pc |-> "answered", status |-> status, tok |-> req[r].tok,
         sound |-> req[r].sound])

AnswerTile(r, tile, itsMeta) ==
  Go(r, [pc |-> "answered", status |-> 200, tok |-> req[r].tok,
         sound |-> req[r].sound, tile |-> tile, meta |-> itsMeta])

-----------------------------------------------------------------------------
(* The way to the data *)

\* A client sends a token it holds; what is checked before the token answers.
Ask(r) ==
  /\ req[r] = Idle
  /\ \E route \in RoutesOf[r], flaws \in SUBSET Flaws :
     LET checks == Routes[route].before IN
     IF Fails(checks, flaws)
     THEN Go(r, [pc |-> "answered", status |-> Refusal(checks, flaws),
                 tok |-> NoToken, sound |-> FALSE])
     ELSE \E t \in IF Routes[route].token THEN held ELSE {NoToken} :
            Go(r, [pc |-> IF t = NoToken THEN "checks" ELSE "token",
                   route |-> route, tok |-> t, sound |-> FALSE, flaws |-> flaws])
  /\ UNCHANGED <<worldVars, served, cacheVars>>

\* getKey.
ReadKey(r) ==
  /\ req[r].pc = "token"
  /\ LET t == req[r].tok
         key == keys[t.kid]
     IN IF KeyUsable(t.kid, key)
        THEN Go(r, [pc |-> "clock", key |-> key, route |-> req[r].route,
                    tok |-> t, sound |-> Sound(t), flaws |-> req[r].flaws])
        ELSE Answer(r, 401)
  /\ UNCHANGED <<worldVars, served, cacheVars>>

\* The clock is held against the copy of the key.
CheckClock(r) ==
  /\ req[r].pc = "clock"
  /\ IF InTime(req[r].tok, req[r].key)
     THEN Go(r, [pc |-> "record", route |-> req[r].route, tok |-> req[r].tok,
                 sound |-> req[r].sound, flaws |-> req[r].flaws])
     ELSE Answer(r, 401)
  /\ UNCHANGED <<worldVars, served, cacheVars>>

\* getTokenRecord.
ReadRecord(r) ==
  /\ req[r].pc = "record"
  /\ LET t == req[r].tok IN
     IF RecordGood(t)
     THEN Go(r, [req[r] EXCEPT !.pc = "checks"])
     ELSE Answer(r, IF t \in revoked THEN 403 ELSE 401)
  /\ UNCHANGED <<worldVars, served, cacheVars>>

IsReplay == Ttl >= ReplayMinTtl

\* The parameters that are checked once the token is accepted.
CheckRest(r) ==
  /\ req[r].pc = "checks"
  /\ LET route == req[r].route
         rest == Routes[route].after
     IN IF Fails(rest, req[r].flaws) THEN Answer(r, Refusal(rest, req[r].flaws))
        ELSE Go(r, [pc |-> IF route = "composite" THEN "binding" ELSE "read",
                    route |-> route, tok |-> req[r].tok, sound |-> req[r].sound,
                    left |-> Len(Routes[route].reads)])
  /\ UNCHANGED <<worldVars, served, cacheVars>>

\* One statement of a route without a cache; the last one makes the answer,
\* and the first one may already end it.
ReadTables(r) ==
  /\ req[r].pc = "read"
  /\ LET route == Routes[req[r].route] IN
     \/ /\ req[r].left > 1
        /\ Go(r, [req[r] EXCEPT !.left = @ - 1])
     \/ /\ req[r].left <= 1
        /\ \E status \in route.ends : Answer(r, status)
     \/ /\ req[r].left = Len(route.reads)
        /\ \E status \in route.early : Answer(r, status)
  /\ UNCHANGED <<worldVars, served, cacheVars>>

-----------------------------------------------------------------------------
(* Composite tiles *)

\* getPressureBinding of the view, and what the life of the token asks for.
Bind(r) ==
  /\ req[r].pc = "binding"
  /\ \/ Go(r, [req[r] EXCEPT !.pc = IF IsReplay THEN "probe" ELSE "render"])
     \/ \E status \in CompositeRoute.early : Answer(r, status)
  /\ UNCHANGED <<worldVars, served, cacheVars>>

\* get: files never go away, so a tile and its metadata are both there when
\* the second is found.
Probe(r) ==
  /\ req[r].pc = "probe"
  /\ LET t == req[r].tok IN
     Go(r, [req[r] EXCEPT !.pc = IF t \in DOMAIN mvt /\ t \in DOMAIN meta
                                 THEN "meta" ELSE "render"])
  /\ UNCHANGED <<worldVars, served, cacheVars>>

\* The metadata are parsed: half a file throws, and nothing is answered.
ReadMeta(r) ==
  /\ req[r].pc = "meta"
  /\ LET m == meta[req[r].tok] IN
     IF m = Torn THEN Go(r, Idle)
     ELSE Go(r, [pc |-> "tile", tok |-> req[r].tok, sound |-> req[r].sound, m |-> m])
  /\ UNCHANGED <<worldVars, served, cacheVars>>

ReadTile(r) ==
  /\ req[r].pc = "tile"
  /\ AnswerTile(r, mvt[req[r].tok], req[r].m)
  /\ UNCHANGED <<worldVars, served, cacheVars>>

Rendered(r, tile) ==
  IF IsReplay THEN Go(r, [pc |-> "put", tok |-> req[r].tok, sound |-> req[r].sound,
                            tile |-> tile])
  ELSE AnswerTile(r, tile, tile)

\* fetchCompositeTile from the tables of this moment, not of the view; a tile
\* that is too large is rendered again without the optional properties.
Render(r) ==
  /\ req[r].pc = "render"
  /\ IF served \in Big THEN Go(r, [req[r] EXCEPT !.pc = "trim"])
     ELSE Rendered(r, [version |-> served, trimmed |-> FALSE])
  /\ UNCHANGED <<worldVars, served, cacheVars>>

Trim(r) ==
  /\ req[r].pc = "trim"
  /\ IF served \in Huge THEN Answer(r, 429)
     ELSE Rendered(r, [version |-> served, trimmed |-> TRUE])
  /\ UNCHANGED <<worldVars, served, cacheVars>>

\* Another request has stored the tile, or is at it.
Stored(t) ==
  \/ t \in DOMAIN meta
  \/ \E r \in Reqs : req[r].pc \in {"put_tile", "put_meta", "put_end"} /\ req[r].tok = t

\* Mutant: the metadata are written before the tile.
MutPut(r) ==
  LET t == req[r].tok
      q == req[r]
  IN /\ \/ /\ q.pc = "put"
           /\ meta' = With(meta, t, Torn) /\ UNCHANGED mvt
           /\ contended' = IF Stored(t) THEN contended \cup {t} ELSE contended
           /\ Go(r, [q EXCEPT !.pc = "put_tile"])
        \/ /\ q.pc = "put_tile"
           /\ meta' = With(meta, t, q.tile) /\ UNCHANGED <<mvt, contended>>
           /\ Go(r, [q EXCEPT !.pc = "put_meta"])
        \/ /\ q.pc = "put_meta"
           /\ mvt' = With(mvt, t, Torn) /\ UNCHANGED <<meta, contended>>
           /\ Go(r, [q EXCEPT !.pc = "put_end"])
        \/ /\ q.pc = "put_end"
           /\ mvt' = With(mvt, t, q.tile) /\ UNCHANGED <<meta, contended>>
           /\ AnswerTile(r, q.tile, q.tile)
     /\ UNCHANGED <<worldVars, served, events>>

\* put: the tile, then its metadata; a file is empty from its opening until
\* its last byte is written.
Put(r) ==
  LET t == req[r].tok
      q == req[r]
  IN /\ \/ /\ q.pc = "put"
           /\ mvt' = With(mvt, t, Torn) /\ UNCHANGED meta
           /\ contended' = IF Stored(t) THEN contended \cup {t} ELSE contended
           /\ Go(r, [q EXCEPT !.pc = "put_tile"])
        \/ /\ q.pc = "put_tile"
           /\ mvt' = With(mvt, t, q.tile) /\ UNCHANGED <<meta, contended>>
           /\ Go(r, [q EXCEPT !.pc = "put_meta"])
        \/ /\ q.pc = "put_meta"
           /\ meta' = With(meta, t, Torn) /\ UNCHANGED <<mvt, contended>>
           /\ Go(r, [q EXCEPT !.pc = "put_end"])
        \/ /\ q.pc = "put_end"
           /\ meta' = With(meta, t, q.tile) /\ UNCHANGED <<mvt, contended>>
           /\ AnswerTile(r, q.tile, q.tile)
     /\ UNCHANGED <<worldVars, served, events>>

DataRoute(r) ==
  \/ Ask(r) \/ ReadKey(r) \/ CheckClock(r) \/ ReadRecord(r)
  \/ CheckRest(r) \/ ReadTables(r)
  \/ Bind(r) \/ Probe(r) \/ ReadMeta(r) \/ ReadTile(r) \/ Render(r) \/ Trim(r) \/ Put(r)

-----------------------------------------------------------------------------
\* The refresh functions rewrite the serving tables.
Refresh ==
  /\ served < MaxServed /\ served' = served + 1
  /\ UNCHANGED <<tokenVars, viewVars>>

Operate ==
  /\ \/ \E k \in Kids : AddKey(k) \/ RetireKey(k) \/ DropKey(k)
     \/ \E t \in records : Revoke(t)
  /\ UNCHANGED <<viewVars, served>>

\* What operators, ingest and failures do around the requests.
Event ==
  /\ events < MaxEvents /\ events' = events + 1
  /\ \/ Refresh \/ Operate
     \/ /\ \/ \E d \in Datasets : Advance(d)
           \/ \E r \in Reqs : Fail(r)
        /\ UNCHANGED served
  /\ UNCHANGED <<mvt, meta, contended>>

\* The client has its answer.  Nothing else is done meanwhile, so that an
\* answer is looked at in the state it was made in.
Receive(r) ==
  /\ Answered(r)
  /\ Go(r, Idle)
  /\ UNCHANGED <<worldVars, served, cacheVars>>

Next ==
  \/ \E r \in Reqs : Receive(r)
  \/ /\ ~\E r \in Reqs : Answered(r)
     /\ \/ \E r \in Reqs : TimeRoute(r) /\ UNCHANGED <<served, cacheVars>>
        \/ \E r \in Reqs : DataRoute(r)
        \/ Tick /\ UNCHANGED <<viewVars, served, cacheVars>>
        \/ Event

Spec == Init /\ [][Next]_vars

-----------------------------------------------------------------------------
\* Every answer that comes after the check of the token -- data, or a refusal
\* only an accepted token gets to see -- is for a token that was good as a whole
\* at one moment of the request, however the clock, a rotation or a revocation
\* falls between the two statements of validate (sv/service.ts:141, 174).
AcceptedWasSound ==
  \A r \in Reqs :
    (/\ req[r].pc = "answered" /\ req[r].tok # NoToken
     /\ req[r].status \notin {401, 403})
    => req[r].sound

\* A composite tile is answered whole and with its own metadata, whichever
\* writers of other tiles, crashes and failed writes came before, unless two
\* requests missed the tile before either had stored it (replay_cache.ts:41-45, 64-65).
AnsweredTileIsWhole ==
  \A r \in Reqs :
    (/\ req[r].pc = "answered" /\ "tile" \in DOMAIN req[r]
     /\ req[r].tok \notin contended)
    => req[r].tile # Torn /\ req[r].meta = req[r].tile

=============================================================================
