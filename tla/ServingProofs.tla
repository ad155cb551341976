----------------------------- MODULE ServingProofs -----------------------------
(***************************************************************************)
(* Tokens, views, the check of a token and the replay cache are right for  *)
(* any number of keys, data sets, clients and versions of the tables.      *)
(***************************************************************************)
EXTENDS TileServing, FiniteSetTheorems, TLAPS

\* What outlives the requests.
WorldOK ==
  /\ now \in Seconds /\ keys \in [Kids -> Key] /\ marks \in Marks
  /\ served \in Versions /\ held \subseteq Token
  /\ \A k \in Kids : keys[k].from <= now
  /\ TokensStored

\* Every data set the answer lists is in the view, none newer than its table.
Fresh(listed, view) ==
  \A d \in Datasets : listed[d] <= view[d] /\ view[d] <= marks[d]

\* The key could sign at the second t, not in the future: if it was retired
\* since, its grace window began then or later.
Graced(k, t) ==
  /\ keys[k].status # "absent" /\ keys[k].from <= t
  /\ keys[k].status = "retiring" => keys[k].to \in Int /\ t + Grace <= keys[k].to
  /\ keys[k].status = "retired" => t + Grace <= now

\* A mint: the view is fresh but for the data sets it has still to read, and
\* what the token will name is stored.
TimeOK(r) ==
  /\ req[r].pc = "view" =>
       /\ req[r] \in [pc : {"view"}, listed : Marks, spec : Marks, todo : Seq(Datasets)]
       /\ \A d \in Datasets :
            /\ req[r].listed[d] <= marks[d] /\ req[r].spec[d] <= marks[d]
            /\ \/ req[r].listed[d] <= req[r].spec[d]
               \/ \E i \in 1..Len(req[r].todo) : req[r].todo[i] = d
  /\ req[r].pc = "key" =>
       /\ req[r] \in [pc : {"key"}, listed : Marks, spec : Marks]
       /\ req[r].spec \in views /\ Fresh(req[r].listed, req[r].spec)
  /\ req[r].pc = "mint" =>
       /\ req[r] \in [pc : {"mint"}, listed : Marks, spec : Marks, kid : Kids,
                      read : Seconds]
       /\ req[r].spec \in views /\ Fresh(req[r].listed, req[r].spec)
       /\ req[r].read <= now /\ Graced(req[r].kid, req[r].read)
  /\ req[r].pc = "minted" =>
       /\ req[r] \in [pc : {"minted"}, listed : Marks, tok : Token, read : Seconds]
       /\ Fresh(req[r].listed, req[r].tok.view)
       /\ req[r].read <= now /\ Graced(req[r].tok.kid, req[r].read)

Reading == {"binding", "read", "probe", "meta", "render", "trim"}
Storing == {"put_tile", "put_meta", "put_end"}
Accepted == {"checks", "tile", "put"} \cup Reading \cup Storing

\* The check of a token: if the copy of its key passes now, and the token is
\* not revoked, then it was sound when the copy was made.
CheckOK(r) ==
  /\ req[r].pc = "token" =>
       /\ req[r] \in [pc : {"token"}, route : RouteNames, tok : Token,
                      sound : BOOLEAN, flaws : SUBSET Flaws]
       /\ req[r].tok \in held
  /\ req[r].pc = "clock" =>
       /\ req[r] \in [pc : {"clock"}, key : Key, route : RouteNames, tok : Token,
                      sound : BOOLEAN, flaws : SUBSET Flaws]
       /\ req[r].key.from <= now
       /\ InTime(req[r].tok, req[r].key) /\ req[r].tok \notin revoked => req[r].sound
  /\ req[r].pc = "record" =>
       /\ req[r] \in [pc : {"record"}, route : RouteNames, tok : Token,
                      sound : BOOLEAN, flaws : SUBSET Flaws]
       /\ req[r].tok \notin revoked => req[r].sound
  /\ req[r].pc \in Accepted => req[r].tok = NoToken \/ req[r].sound
  /\ req[r].pc = "answered" =>
       \/ req[r].tok = NoToken \/ req[r].status \in {401, 403} \/ req[r].sound

\* A request at a tile knows what it needs of the files of its token, unless
\* these are contended.
CacheOK(r) ==
  /\ req[r].pc = "checks" =>
       req[r] \in [pc : {"checks"}, route : RouteNames, tok : Token \cup {NoToken},
                   sound : BOOLEAN, flaws : SUBSET Flaws]
  /\ req[r].pc \in Reading =>
       req[r] \in [pc : Reading, route : RouteNames, tok : Token \cup {NoToken},
                   sound : BOOLEAN, left : Nat]
  /\ req[r].pc \in {"put"} \cup Storing =>
       req[r] \in [pc : {"put"} \cup Storing, tok : Token \cup {NoToken},
                   sound : BOOLEAN, tile : Tile]
  /\ req[r].pc \in {"answered", "tile"} \cup Reading \cup Storing
       /\ req[r].tok \notin contended =>
       /\ req[r].pc = "put_meta" =>
            req[r].tok \in DOMAIN mvt /\ mvt[req[r].tok] = req[r].tile
       /\ req[r].pc = "put_end" =>
            req[r].tok \in DOMAIN meta /\ mvt[req[r].tok] = req[r].tile
       /\ req[r].pc = "meta" => req[r].tok \in DOMAIN meta
       /\ req[r].pc = "tile" =>
            req[r].tok \in DOMAIN meta /\ req[r].m \in Tile /\ mvt[req[r].tok] = req[r].m
       /\ req[r].pc = "answered" /\ "tile" \in DOMAIN req[r] =>
            req[r].tile \in Tile /\ req[r].meta = req[r].tile

\* The request is between the opening of the tile and the end of its metadata.
Stores(r, t) == req[r].pc \in Storing /\ req[r].tok = t

\* Where there are metadata there is a whole tile, theirs, that nobody writes;
\* and only one request stores a tile.
FilesOK ==
  \A t : t \notin contended =>
    /\ t \in DOMAIN meta =>
         /\ t \in DOMAIN mvt /\ mvt[t] \in Tile /\ meta[t] \in {Torn, mvt[t]}
         /\ \A r \in Reqs : req[r].pc \in {"put_tile", "put_meta"} => req[r].tok # t
    /\ \A r, s \in Reqs : Stores(r, t) /\ Stores(s, t) => r = s

RequestsOK == /\ req = [r \in Reqs |-> req[r]]
              /\ \A r \in Reqs : TimeOK(r) /\ CheckOK(r) /\ CacheOK(r)

ServingInv == WorldOK /\ RequestsOK /\ FilesOK

------------------------------------------------------------------------------
(* Lemmas about the operators and about what a step leaves alone.          *)

\* SetToSeq lists a finite set, all of it.
LEMMA SetToSeqLists ==
  ASSUME NEW S, IsFiniteSet(S)
  PROVE  /\ SetToSeq(S) \in Seq(S)
         /\ \A x \in S : \E i \in 1..Len(SetToSeq(S)) : SetToSeq(S)[i] = x
<1> DEFINE n == Cardinality(S)
<1>1. n \in Nat /\ ExistsBijection(1..n, S)
  BY FS_CardinalityType
<1>2. PICK f \in Bijection(1..n, S) : TRUE
  BY <1>1 DEF ExistsBijection
<1>3. f \in [1..n -> S] /\ IsInjective(f)
  BY <1>2 DEF Bijection, Injection, IsInjective
<1>4. SetToSeq(S) \in [1..n -> S] /\ IsInjective(SetToSeq(S))
  BY <1>3 DEF SetToSeq
<1>5. SetToSeq(S) \in Injection(1..n, S)
  BY <1>4 DEF Injection, IsInjective
<1>6. SetToSeq(S) \in Surjection(1..n, S)
  BY <1>1, <1>5, FS_Injection, FS_Interval
<1> QED
  BY <1>1, <1>4, <1>6 DEF Surjection

\* What a mint has to read is every data set.
LEMMA DatasetsListed ==
  /\ SetToSeq(Required) \o SetToSeq(Optional) \in Seq(Datasets)
  /\ \A x \in Datasets :
       \E i \in 1..Len(SetToSeq(Required) \o SetToSeq(Optional)) :
         (SetToSeq(Required) \o SetToSeq(Optional))[i] = x
<1> DEFINE a == SetToSeq(Required)
           b == SetToSeq(Optional)
<1>1. /\ a \in Seq(Required) /\ b \in Seq(Optional)
      /\ \A x \in Required : \E i \in 1..Len(a) : a[i] = x
      /\ \A x \in Optional : \E i \in 1..Len(b) : b[i] = x
  BY SetToSeqLists, ServingViewsAssumption
<1> HIDE DEF a, b
<1>2. a \in Seq(Datasets) /\ b \in Seq(Datasets)
  BY <1>1 DEF Datasets
<1>3. /\ a \o b \in Seq(Datasets) /\ Len(a \o b) = Len(a) + Len(b)
      /\ \A i \in 1..Len(a) : (a \o b)[i] = a[i]
      /\ \A i \in 1..Len(b) : (a \o b)[Len(a) + i] = b[i]
      /\ Len(a) \in Nat /\ Len(b) \in Nat
  BY <1>2
<1>4. ASSUME NEW x \in Required PROVE \E i \in 1..Len(a \o b) : (a \o b)[i] = x
  <2>1. PICK i \in 1..Len(a) : a[i] = x
    BY <1>1
  <2> QED
    BY <1>3, <2>1
<1>5. ASSUME NEW x \in Optional PROVE \E i \in 1..Len(a \o b) : (a \o b)[i] = x
  <2>1. PICK i \in 1..Len(b) : b[i] = x
    BY <1>1
  <2> DEFINE j == Len(a) + i
  <2>2. j \in 1..Len(a \o b) /\ (a \o b)[j] = x
    BY <1>3, <2>1
  <2> QED
    BY <2>2
<1> QED
  BY <1>3, <1>4, <1>5 DEF a, b, Datasets

\* A key that could sign then could sign then.
GraceStays ==
  \A k \in Kids, t \in Seconds : t <= now /\ Graced(k, t) => Graced(k, t)'

LEMMA KeysStill == ASSUME UNCHANGED <<now, keys>> PROVE GraceStays
BY DEF GraceStays, Graced

\* What the world may do around a request: the clock and the tables go forward,
\* what is stored stays.
Grows ==
  /\ now' \in Int /\ now <= now'
  /\ keys' \in [Kids -> Key]
  /\ \A k \in Kids : /\ keys[k].status # "absent" => keys'[k].status # "absent"
                     /\ keys[k].status # "absent" => keys'[k].from = keys[k].from
                     /\ keys'[k].from <= now'
  /\ GraceStays
  /\ marks' \in Marks /\ \A d \in Datasets : marks[d] <= marks'[d]
  /\ views \subseteq views' /\ records \subseteq records' /\ held \subseteq held'
  /\ revoked \subseteq revoked'

LEMMA WorldStill ==
  ASSUME WorldOK, UNCHANGED worldVars
  PROVE  Grows /\ UNCHANGED <<now, keys, records, revoked, marks, views, held>>
<1>1. UNCHANGED <<now, keys, records, revoked, marks, views, held>>
  BY DEF worldVars, tokenVars
<1>2. now \in Int /\ \A d \in Datasets : marks[d] \in Int
  BY ServingViewsAssumption, ServingTokensAssumption DEF WorldOK, Seconds, Marks
<1> QED
  BY <1>1, <1>2, KeysStill DEF WorldOK, Grows

\* A held token stays backed.
LEMMA HeldStay ==
  ASSUME WorldOK, Grows, NEW t \in held
  PROVE  /\ t \in records' /\ t.view \in views'
         /\ keys'[t.kid].status # "absent" /\ keys'[t.kid].from <= t.issued
<1>1. t.kid \in Kids
  BY DEF WorldOK, Token
<1> QED
  BY <1>1 DEF WorldOK, Grows, TokensStored

\* A mint or a check that is not at it stays right.
LEMMA OthersKeep ==
  ASSUME WorldOK, Grows, NEW r \in Reqs, TimeOK(r), CheckOK(r), req'[r] = req[r]
  PROVE  TimeOK(r)' /\ CheckOK(r)'
<1>1. \A d \in Datasets : marks[d] \in Int /\ marks'[d] \in Int /\ marks[d] <= marks'[d]
  BY ServingViewsAssumption DEF WorldOK, Grows, Marks
<1>2. \A f \in Marks : \A d \in Datasets : f[d] \in Int
  BY ServingViewsAssumption DEF Marks
<1>3. TimeOK(r)'
  <2>1. ASSUME req[r].pc = "view"
        PROVE  /\ req[r] \in [pc : {"view"}, listed : Marks, spec : Marks, todo : Seq(Datasets)]
               /\ \A d \in Datasets :
                    /\ req[r].listed[d] <= marks'[d] /\ req[r].spec[d] <= marks'[d]
                    /\ \/ req[r].listed[d] <= req[r].spec[d]
                       \/ \E i \in 1..Len(req[r].todo) : req[r].todo[i] = d
    <3>1. req[r] \in [pc : {"view"}, listed : Marks, spec : Marks, todo : Seq(Datasets)]
      BY <2>1 DEF TimeOK
    <3>2. req[r].listed \in Marks /\ req[r].spec \in Marks
      BY <3>1
    <3>3. ASSUME NEW d \in Datasets
          PROVE  /\ req[r].listed[d] <= marks'[d] /\ req[r].spec[d] <= marks'[d]
                 /\ \/ req[r].listed[d] <= req[r].spec[d]
                    \/ \E i \in 1..Len(req[r].todo) : req[r].todo[i] = d
      <4>1. /\ req[r].listed[d] <= marks[d] /\ req[r].spec[d] <= marks[d]
            /\ \/ req[r].listed[d] <= req[r].spec[d]
               \/ \E i \in 1..Len(req[r].todo) : req[r].todo[i] = d
        BY <2>1 DEF TimeOK
      <4>2. req[r].listed[d] \in Int /\ req[r].spec[d] \in Int
        BY <1>2, <3>2
      <4> QED
        BY <1>1, <4>1, <4>2
    <3> QED
      BY <3>1, <3>3
  <2>2. ASSUME NEW f \in Marks, NEW g \in Marks, Fresh(f, g)
        PROVE  \A d \in Datasets : f[d] <= g[d] /\ g[d] <= marks'[d]
    <3>1. \A d \in Datasets : g[d] \in Int
      BY <1>2
    <3> QED
      BY <1>1, <2>2, <3>1 DEF Fresh
  <2>3. ASSUME req[r].pc = "key"
        PROVE  /\ req[r] \in [pc : {"key"}, listed : Marks, spec : Marks]
               /\ req[r].spec \in views' /\ Fresh(req[r].listed, req[r].spec)
    BY <2>3 DEF TimeOK, Grows
  <2>6. ASSUME NEW k \in Kids, NEW t \in Seconds, t <= now, Graced(k, t)
        PROVE  t <= now' /\ Graced(k, t)'
    <3>1. t \in Int /\ now \in Int
      BY ServingTokensAssumption DEF WorldOK, Seconds
    <3> QED
      BY <2>6, <3>1 DEF Grows, GraceStays
  <2>4. ASSUME req[r].pc = "mint"
        PROVE  /\ req[r] \in [pc : {"mint"}, listed : Marks, spec : Marks, kid : Kids,
                              read : Seconds]
               /\ req[r].spec \in views' /\ Fresh(req[r].listed, req[r].spec)
               /\ req[r].read <= now' /\ Graced(req[r].kid, req[r].read)'
    <3>1. /\ req[r] \in [pc : {"mint"}, listed : Marks, spec : Marks, kid : Kids,
                         read : Seconds]
          /\ req[r].spec \in views /\ Fresh(req[r].listed, req[r].spec)
          /\ req[r].read <= now /\ Graced(req[r].kid, req[r].read)
      BY <2>4 DEF TimeOK
    <3>2. req[r].kid \in Kids /\ req[r].read \in Seconds
      BY <3>1
    <3>3. req[r].read <= now' /\ Graced(req[r].kid, req[r].read)'
      BY <2>6, <3>1, <3>2
    <3> QED
      BY <3>1, <3>3 DEF Grows
  <2>5. ASSUME req[r].pc = "minted"
        PROVE  /\ req[r] \in [pc : {"minted"}, listed : Marks, tok : Token, read : Seconds]
               /\ Fresh(req[r].listed, req[r].tok.view)
               /\ req[r].read <= now' /\ Graced(req[r].tok.kid, req[r].read)'
    <3>1. /\ req[r] \in [pc : {"minted"}, listed : Marks, tok : Token, read : Seconds]
          /\ Fresh(req[r].listed, req[r].tok.view)
          /\ req[r].read <= now /\ Graced(req[r].tok.kid, req[r].read)
      BY <2>5 DEF TimeOK
    <3>2. req[r].tok.kid \in Kids /\ req[r].read \in Seconds
      BY <3>1 DEF Token
    <3> QED
      BY <2>6, <3>1, <3>2
  <2> QED
    BY <2>1, <2>3, <2>4, <2>5, <2>2 DEF TimeOK, Fresh, Token, View
<1>4. CheckOK(r)'
  <2> DEFINE t == req[r].tok
             key == req[r].key
  <2>1. ASSUME req[r].pc = "clock"
        PROVE  /\ key.from <= now'
               /\ InTime(t, key)' /\ t \notin revoked' => req[r].sound
    <3>1. /\ t \in Token /\ key \in Key /\ key.from <= now
          /\ InTime(t, key) /\ t \notin revoked => req[r].sound
      BY <2>1 DEF CheckOK
    <3>2. key.from <= now'
      BY <3>1, ServingTokensAssumption DEF WorldOK, Grows, Key, Seconds
    <3>3. InTime(t, key)' => InTime(t, key)
      <4>1. key.from \in Int /\ key.to \in Int \cup {Never} /\ t.issued \in Int
        BY <3>1, ServingTokensAssumption DEF Key, Token, Seconds
      <4>2. t' = t /\ key' = key
        OBVIOUS
      <4> HIDE DEF t, key
      <4> QED
        BY <3>1, <4>1, <4>2, ServingTokensAssumption
        DEF WorldOK, Grows, InTime, Expiry, Seconds
    <3> QED
      BY <3>1, <3>2, <3>3 DEF Grows
  <2>2. req[r].pc = "token" => req[r].tok \in held'
    BY DEF CheckOK, Grows
  <2>3. req[r].pc = "clock" =>
          req[r] \in [pc : {"clock"}, key : Key, route : RouteNames, tok : Token,
                      sound : BOOLEAN, flaws : SUBSET Flaws]
    BY DEF CheckOK
  <2>6. req[r].pc = "record" =>
          /\ req[r] \in [pc : {"record"}, route : RouteNames, tok : Token,
                         sound : BOOLEAN, flaws : SUBSET Flaws]
          /\ t \notin revoked' => req[r].sound
    BY DEF CheckOK, Grows
  <2>4. req[r].pc = "token" =>
          req[r] \in [pc : {"token"}, route : RouteNames, tok : Token,
                      sound : BOOLEAN, flaws : SUBSET Flaws]
    BY DEF CheckOK
  <2>5. /\ req[r].pc \in Accepted => req[r].tok = NoToken \/ req[r].sound
        /\ req[r].pc = "answered" =>
             \/ req[r].tok = NoToken \/ req[r].status \in {401, 403} \/ req[r].sound
    BY DEF CheckOK
  <2> QED
    BY <2>1, <2>2, <2>3, <2>4, <2>5, <2>6 DEF CheckOK
<1> QED
  BY <1>3, <1>4

\* One request moves.
Moves(r) == req' = [req EXCEPT ![r] = req'[r]]

LEMMA OneMoves ==
  ASSUME RequestsOK, NEW r \in Reqs, Moves(r)
  PROVE  /\ req' = [i \in Reqs |-> req'[i]]
         /\ \A i \in Reqs \ {r} : req'[i] = req[i]
BY DEF RequestsOK, Moves

LEMMA GoMoves ==
  ASSUME RequestsOK, NEW r \in Reqs, NEW q, Go(r, q)
  PROVE  Moves(r) /\ req'[r] = q
BY DEF RequestsOK, Moves, Go

\* A step of one request that leaves the files alone and is not writing them.
LEMMA RequestStep ==
  ASSUME ServingInv, NEW r \in Reqs, Moves(r), UNCHANGED <<mvt, meta, contended>>,
         WorldOK', Grows, TimeOK(r)', CheckOK(r)', CacheOK(r)', req'[r].pc \notin Storing
  PROVE  ServingInv'
<1>1. RequestsOK /\ FilesOK /\ WorldOK
  BY DEF ServingInv
<1>2. /\ req' = [i \in Reqs |-> req'[i]]
      /\ \A i \in Reqs \ {r} : req'[i] = req[i]
  BY <1>1, OneMoves
<1>3. ASSUME NEW i \in Reqs \ {r}
      PROVE  TimeOK(i)' /\ CheckOK(i)' /\ CacheOK(i)'
  <2>1. TimeOK(i) /\ CheckOK(i) /\ CacheOK(i) /\ req'[i] = req[i]
    BY <1>1, <1>2 DEF RequestsOK
  <2>2. CacheOK(i)'
    BY <2>1 DEF CacheOK
  <2> QED
    BY <1>1, <2>1, <2>2, OthersKeep
<1>4. RequestsOK'
  BY <1>2, <1>3 DEF RequestsOK
<1>5. FilesOK'
  <2>1. ASSUME NEW i \in Reqs, NEW t, Stores(i, t)' PROVE i # r /\ Stores(i, t)
    BY <1>2, <2>1 DEF Stores
  <2>2. \A i \in Reqs : req'[i].pc \in {"put_tile", "put_meta"} => i # r /\ req'[i] = req[i]
    BY <1>2 DEF Storing
  <2> QED
    BY <1>1, <2>1, <2>2 DEF FilesOK
<1> QED
  BY <1>4, <1>5 DEF ServingInv

\* The same with nothing of the world changed: what the step makes of its
\* request decides.
LEMMA OwnStep ==
  ASSUME ServingInv, NEW r \in Reqs, Moves(r), UNCHANGED <<worldVars, served, cacheVars>>,
         TimeOK(r)', CheckOK(r)', CacheOK(r)', req'[r].pc \notin Storing
  PROVE  ServingInv'
<1>1. WorldOK /\ UNCHANGED <<mvt, meta, contended>>
  BY DEF ServingInv, cacheVars
<1>2. Grows /\ UNCHANGED <<now, keys, records, revoked, marks, views, held>>
  BY <1>1, WorldStill
<1>3. WorldOK'
  BY <1>1, <1>2 DEF WorldOK, TokensStored
<1> QED
  BY <1>1, <1>2, <1>3, RequestStep

\* A request that ends is nothing any more.
LEMMA IdleFine ==
  ASSUME NEW r \in Reqs, req'[r] = Idle
  PROVE  TimeOK(r)' /\ CheckOK(r)' /\ CacheOK(r)' /\ req'[r].pc \notin Storing
BY DEF Idle, TimeOK, CheckOK, CacheOK, Reading, Storing, Accepted

\* An answer without a tile.
LEMMA AnswerFine ==
  ASSUME ServingInv, NEW r \in Reqs, NEW status, Answer(r, status),
         status \in {401, 403} \/ req[r].tok = NoToken \/ req[r].sound
  PROVE  /\ Moves(r) /\ TimeOK(r)' /\ CheckOK(r)' /\ CacheOK(r)'
         /\ req'[r].pc \notin Storing
<1> DEFINE a == [pc |-> "answered", status |-> status, tok |-> req[r].tok,
                 sound |-> req[r].sound]
<1>1. Moves(r) /\ req'[r] = a
  BY GoMoves DEF Answer, ServingInv
<1>2. TimeOK(r)' /\ CheckOK(r)'
  BY <1>1 DEF TimeOK, CheckOK, Accepted, Reading, Storing
<1>3. CacheOK(r)' /\ req'[r].pc \notin Storing
  BY <1>1 DEF CacheOK, Reading, Storing
<1> QED
  BY <1>1, <1>2, <1>3

------------------------------------------------------------------------------
(* The time endpoint.                                                      *)

\* Watermarks are numbers.
LEMMA MarksAreInts ==
  /\ \A f \in Marks : \A d \in Datasets : f[d] \in Int
  /\ [d \in Datasets |-> 0] \in Marks
BY ServingViewsAssumption DEF Marks

\* A request of the time endpoint at one of its steps is nothing else.
LEMMA TimeFine ==
  ASSUME NEW r \in Reqs, req'[r].pc \in {"view", "key", "mint", "minted"}
  PROVE  CheckOK(r)' /\ CacheOK(r)' /\ req'[r].pc \notin Storing
BY DEF CheckOK, CacheOK, Accepted, Reading, Storing

LEMMA AskTimeSafe ==
  ASSUME ServingInv, NEW r \in Reqs, AskTime(r), UNCHANGED <<served, cacheVars>>
  PROVE  ServingInv'
<1>1. UNCHANGED <<worldVars, served, cacheVars>>
  BY DEF AskTime, worldVars
<1>2. RequestsOK /\ WorldOK
  BY DEF ServingInv
<1>3. CASE Go(r, Idle)
  BY <1>1, <1>2, <1>3, GoMoves, IdleFine, OwnStep
<1>4. CASE Go(r, [pc |-> "view", listed |-> marks, spec |-> [d \in Datasets |-> 0],
                  todo |-> SetToSeq(Required) \o SetToSeq(Optional)])
  <2> DEFINE todo == SetToSeq(Required) \o SetToSeq(Optional)
             spec == [d \in Datasets |-> 0]
             q == [pc |-> "view", listed |-> marks, spec |-> spec, todo |-> todo]
  <2>1. todo \in Seq(Datasets) /\ \A d \in Datasets : \E i \in 1..Len(todo) : todo[i] = d
    BY DatasetsListed, Zenon
  <2>2. marks \in Marks /\ spec \in Marks
    BY <1>2, MarksAreInts DEF WorldOK
  <2>3. \A d \in Datasets : spec[d] <= marks[d] /\ marks[d] <= marks[d]
    BY <1>2, ServingViewsAssumption DEF WorldOK, Marks
  <2> HIDE DEF todo, spec
  <2>4. Moves(r) /\ req'[r] = q
    BY <1>2, <1>4, GoMoves DEF todo, spec
  <2>5. marks' = marks
    BY <1>1 DEF worldVars
  <2>6. q \in [pc : {"view"}, listed : Marks, spec : Marks, todo : Seq(Datasets)]
    BY <2>1, <2>2
  <2>7. TimeOK(r)'
    BY <2>1, <2>3, <2>4, <2>5, <2>6 DEF TimeOK
  <2> QED
    BY <1>1, <2>4, <2>7, TimeFine, OwnStep
<1> QED
  BY <1>3, <1>4 DEF AskTime

\* The data set that was read is as new as its table.
LEMMA ReadMarkSafe ==
  ASSUME ServingInv, NEW r \in Reqs, ReadMark(r), UNCHANGED <<served, cacheVars>>
  PROVE  ServingInv'
<1>1. UNCHANGED <<worldVars, served, cacheVars>> /\ marks' = marks
  BY DEF ReadMark, worldVars
<1>2. RequestsOK /\ WorldOK /\ TimeOK(r) /\ req[r].pc = "view"
  BY DEF ServingInv, RequestsOK, ReadMark
<1> DEFINE listed == req[r].listed
           spec == req[r].spec
           todo == req[r].todo
           h == Head(todo)
           spec2 == [spec EXCEPT ![h] = marks[h]]
<1>3. /\ req[r] \in [pc : {"view"}, listed : Marks, spec : Marks, todo : Seq(Datasets)]
      /\ \A d \in Datasets :
           /\ listed[d] <= marks[d] /\ spec[d] <= marks[d]
           /\ listed[d] <= spec[d] \/ \E i \in 1..Len(todo) : todo[i] = d
  BY <1>2 DEF TimeOK
<1>4. listed \in Marks /\ spec \in Marks /\ todo \in Seq(Datasets) /\ todo # <<>>
  BY <1>3 DEF ReadMark
<1>5. Go(r, [req[r] EXCEPT !.spec[h] = marks[h], !.todo = Tail(@)])
  BY DEF ReadMark
<1>6. Moves(r) /\ req'[r] = [req[r] EXCEPT !.spec[h] = marks[h], !.todo = Tail(@)]
  BY <1>2, <1>5, GoMoves
<1>7. /\ req'[r] \in [pc : {"view"}, listed : Marks, spec : {spec2}, todo : {Tail(todo)}]
      /\ req'[r].listed = listed /\ req'[r].spec = spec2 /\ req'[r].todo = Tail(todo)
      /\ req'[r].pc = "view"
  BY <1>3, <1>6
<1>8. h \in Datasets /\ Tail(todo) \in Seq(Datasets)
      /\ \A d \in Datasets : (\E i \in 1..Len(todo) : todo[i] = d) =>
            d = h \/ \E i \in 1..Len(Tail(todo)) : Tail(todo)[i] = d
  <2>1. h \in Datasets /\ Tail(todo) \in Seq(Datasets) /\ h = todo[1]
        /\ Len(todo) \in Nat /\ Len(Tail(todo)) = Len(todo) - 1
        /\ \A i \in 1..(Len(todo) - 1) : Tail(todo)[i] = todo[i + 1]
    BY <1>4
  <2> HIDE DEF todo, h
  <2>2. ASSUME NEW i \in 1..Len(todo), i # 1 PROVE \E j \in 1..Len(Tail(todo)) : Tail(todo)[j] = todo[i]
    <3>1. i - 1 \in 1..(Len(todo) - 1) /\ (i - 1) + 1 = i
      BY <2>1, <2>2
    <3> QED
      BY <2>1, <3>1
  <2> QED
    BY <2>1, <2>2
<1>9. spec2 \in Marks
  BY <1>2, <1>4, <1>8 DEF Marks, WorldOK
<1> HIDE DEF listed, spec, todo, h
<1>10. \A d \in Datasets :
         /\ listed[d] <= marks[d] /\ spec2[d] <= marks[d]
         /\ listed[d] <= spec2[d] \/ \E i \in 1..Len(Tail(todo)) : Tail(todo)[i] = d
  <2> TAKE d \in Datasets
  <2>1. CASE d = h
    <3>1. spec2[d] = marks[d]
      BY <1>4, <2>1 DEF Marks
    <3>2. marks[d] \in Int
      BY <1>2, MarksAreInts DEF WorldOK
    <3> QED
      BY <1>3, <3>1, <3>2 DEF listed
  <2>2. CASE d # h
    <3>1. spec2[d] = spec[d]
      BY <1>4, <2>2 DEF Marks
    <3> QED
      BY <1>3, <1>8, <2>2, <3>1 DEF listed, spec, todo
  <2> QED
    BY <2>1, <2>2
<1>11. TimeOK(r)'
  <2>1. req'[r] \in [pc : {"view"}, listed : Marks, spec : Marks, todo : Seq(Datasets)]
    BY <1>7, <1>8, <1>9
  <2> QED
    BY <1>1, <1>7, <1>10, <2>1 DEF TimeOK
<1> QED
  BY <1>1, <1>6, <1>7, <1>11, TimeFine, OwnStep

LEMMA UpsertViewSafe ==
  ASSUME ServingInv, NEW r \in Reqs, UpsertView(r), UNCHANGED <<served, cacheVars>>
  PROVE  ServingInv'
<1>1. /\ UNCHANGED <<tokenVars, marks, held, served, cacheVars>>
      /\ UNCHANGED <<now, keys, records, revoked, mvt, meta, contended>>
      /\ views' = views \cup {req[r].spec}
  BY DEF UpsertView, tokenVars, cacheVars
<1>2. RequestsOK /\ WorldOK /\ TimeOK(r) /\ req[r].pc = "view" /\ req[r].todo = <<>>
  BY DEF ServingInv, RequestsOK, UpsertView
<1>3. Grows /\ WorldOK'
  <2>1. now \in Int /\ \A d \in Datasets : marks[d] <= marks[d]
    BY <1>2, MarksAreInts, ServingTokensAssumption DEF WorldOK, Seconds
  <2>2. Grows
    BY <1>1, <1>2, <2>1, KeysStill DEF WorldOK, Grows
  <2> QED
    BY <1>1, <1>2, <2>2 DEF WorldOK, TokensStored
<1>4. /\ req[r].listed \in Marks /\ req[r].spec \in Marks
      /\ \A d \in Datasets :
           req[r].listed[d] <= req[r].spec[d] /\ req[r].spec[d] <= marks[d]
  BY <1>2 DEF TimeOK
<1> DEFINE q == [pc |-> "key", listed |-> req[r].listed, spec |-> req[r].spec]
<1>5. Moves(r) /\ req'[r] = q
  BY <1>2, GoMoves DEF UpsertView
<1>6. TimeOK(r)'
  BY <1>1, <1>4, <1>5 DEF TimeOK, Fresh
<1> QED
  BY <1>1, <1>3, <1>5, <1>6, TimeFine, RequestStep

LEMMA PickKeySafe ==
  ASSUME ServingInv, NEW r \in Reqs, PickKey(r), UNCHANGED <<served, cacheVars>>
  PROVE  ServingInv'
<1>1. UNCHANGED <<worldVars, served, cacheVars>> /\ UNCHANGED <<now, keys, marks, views>>
  BY DEF PickKey, worldVars, tokenVars
<1>2. RequestsOK /\ WorldOK /\ TimeOK(r) /\ req[r].pc = "key"
  BY DEF ServingInv, RequestsOK, PickKey
<1>3. CASE Go(r, Idle)
  BY <1>1, <1>2, <1>3, GoMoves, IdleFine, OwnStep
<1>4. ASSUME NEW k \in ActiveKeys,
             Go(r, [pc |-> "mint", listed |-> req[r].listed, spec |-> req[r].spec, kid |-> k,
                    read |-> now])
      PROVE  ServingInv'
  <2>1. k \in Kids /\ now \in Seconds /\ now <= now /\ Graced(k, now)
    <3>1. k \in Kids /\ keys[k].status = "active" /\ keys[k].from <= now
      BY DEF ActiveKeys, Mints
    <3>2. now \in Seconds /\ now <= now
      BY <1>2, ServingTokensAssumption DEF WorldOK, Seconds
    <3> QED
      BY <3>1, <3>2 DEF Graced
  <2>2. /\ req[r].listed \in Marks /\ req[r].spec \in Marks /\ req[r].spec \in views
        /\ Fresh(req[r].listed, req[r].spec)
    BY <1>2 DEF TimeOK
  <2> DEFINE q == [pc |-> "mint", listed |-> req[r].listed, spec |-> req[r].spec, kid |-> k,
                   read |-> now]
  <2>3. Moves(r) /\ req'[r] = q
    BY <1>2, <1>4, GoMoves
  <2>4. TimeOK(r)'
    BY <1>1, <2>1, <2>2, <2>3 DEF TimeOK, Fresh, Graced
  <2> QED
    BY <1>1, <2>3, <2>4, TimeFine, OwnStep
<1> QED
  BY <1>3, <1>4 DEF PickKey

\* The key that was picked may have been rotated since, but it has a row, and
\* its grace window did not begin before it was picked.
LEMMA MintSafe ==
  ASSUME ServingInv, NEW r \in Reqs, Mint(r), UNCHANGED <<served, cacheVars>>
  PROVE  ServingInv'
<1> DEFINE t == [kid |-> req[r].kid, view |-> req[r].spec, issued |-> now]
<1>1. /\ UNCHANGED <<now, keys, marks, views, revoked, served, mvt, meta, contended>>
      /\ records' = records \cup {t} /\ held' = held \cup {t}
  BY DEF Mint, SaveTokenRecord, cacheVars
<1>2. RequestsOK /\ WorldOK /\ TimeOK(r) /\ req[r].pc = "mint"
  BY DEF ServingInv, RequestsOK, Mint
<1>3. /\ req[r].listed \in Marks /\ req[r].spec \in Marks /\ req[r].kid \in Kids
      /\ req[r].spec \in views /\ Fresh(req[r].listed, req[r].spec)
      /\ req[r].read \in Seconds /\ req[r].read <= now
      /\ Graced(req[r].kid, req[r].read)
  BY <1>2 DEF TimeOK
<1>4. t \in Token /\ now \in Int /\ \A d \in Datasets : marks[d] <= marks[d]
  BY <1>2, <1>3, MarksAreInts, ServingTokensAssumption DEF WorldOK, Token, View, Seconds
<1>5. Grows
  BY <1>1, <1>2, <1>4, KeysStill DEF WorldOK, Grows
<1>6. WorldOK'
  <2>1. keys[t.kid].from <= t.issued /\ t.view \in views /\ keys[t.kid].status # "absent"
    BY <1>2, <1>3 DEF WorldOK, Graced
  <2> HIDE DEF t
  <2> QED
    BY <1>1, <1>2, <1>4, <2>1 DEF WorldOK, TokensStored
<1>7. Moves(r) /\ req'[r] = [pc |-> "minted", listed |-> req[r].listed, tok |-> t,
                              read |-> req[r].read]
  BY <1>2, GoMoves DEF Mint
<1>8. TimeOK(r)'
  BY <1>1, <1>3, <1>4, <1>7 DEF TimeOK, Fresh, Graced
<1> QED
  BY <1>1, <1>5, <1>6, <1>7, <1>8, TimeFine, RequestStep

LEMMA TimeRouteSafe ==
  ASSUME ServingInv, NEW r \in Reqs, TimeRoute(r), UNCHANGED <<served, cacheVars>>
  PROVE  ServingInv'
BY AskTimeSafe, ReadMarkSafe, UpsertViewSafe, PickKeySafe, MintSafe DEF TimeRoute

------------------------------------------------------------------------------
(* The clock, operators, ingest and failures.                              *)

\* A step of the world: no request moves.
LEMMA WorldStep ==
  ASSUME ServingInv, UNCHANGED <<req, mvt, meta, contended>>, Grows, WorldOK'
  PROVE  ServingInv'
<1>1. RequestsOK /\ FilesOK /\ WorldOK
  BY DEF ServingInv
<1>2. ASSUME NEW i \in Reqs PROVE TimeOK(i)' /\ CheckOK(i)' /\ CacheOK(i)'
  <2>1. TimeOK(i) /\ CheckOK(i) /\ CacheOK(i) /\ req'[i] = req[i]
    BY <1>1 DEF RequestsOK
  <2>2. CacheOK(i)'
    BY <2>1 DEF CacheOK
  <2> QED
    BY <1>1, <2>1, <2>2, OthersKeep
<1>3. RequestsOK'
  BY <1>1, <1>2 DEF RequestsOK
<1>4. FilesOK'
  BY <1>1 DEF FilesOK, Stores
<1> QED
  BY <1>3, <1>4 DEF ServingInv

LEMMA TickSafe ==
  ASSUME ServingInv, Tick, UNCHANGED <<viewVars, served, cacheVars>>
  PROVE  ServingInv'
<1>1. /\ now < MaxTime /\ now' = now + 1
      /\ UNCHANGED <<keys, records, revoked, marks, views, held, req, served, mvt, meta,
                     contended>>
  BY DEF Tick, viewVars, cacheVars
<1>2. WorldOK /\ now \in Int /\ \A d \in Datasets : marks[d] <= marks[d]
  BY MarksAreInts, ServingTokensAssumption DEF ServingInv, WorldOK, Seconds
<1>3. \A k \in Kids : keys[k].from \in Int /\ keys[k].from <= now
  BY <1>2, ServingTokensAssumption DEF WorldOK, Key, Seconds
<1>4. now' \in Seconds /\ \A k \in Kids : keys[k].from <= now'
  BY <1>1, <1>2, <1>3, ServingTokensAssumption DEF WorldOK, Seconds
<1>5. Grows
  <2>1. GraceStays
    BY <1>1, <1>2, ServingTokensAssumption DEF GraceStays, Graced, Seconds
  <2> QED
    BY <1>1, <1>2, <1>4, <2>1 DEF WorldOK, Grows
<1>6. WorldOK'
  BY <1>1, <1>2, <1>4 DEF WorldOK, TokensStored
<1> QED
  BY <1>1, <1>5, <1>6, WorldStep

\* Keys are added, retired and dropped; tokens are revoked.
LEMMA OperateSafe ==
  ASSUME ServingInv, Operate, UNCHANGED <<mvt, meta, contended>>
  PROVE  ServingInv'
<1>1. UNCHANGED <<marks, views, held, req, served>>
  BY DEF Operate, viewVars
<1>2. WorldOK /\ now \in Int /\ \A d \in Datasets : marks[d] <= marks[d]
  BY MarksAreInts, ServingTokensAssumption DEF ServingInv, WorldOK, Seconds
<1>3. /\ now' = now /\ records' = records /\ revoked \subseteq revoked'
      /\ keys' \in [Kids -> Key]
      /\ \A k \in Kids : /\ keys[k].status # "absent" =>
                               keys'[k].status # "absent" /\ keys'[k].from = keys[k].from
                         /\ keys'[k].from <= now
      /\ GraceStays
  <2> DEFINE Safe == /\ now' = now /\ records' = records /\ revoked \subseteq revoked'
                     /\ keys' \in [Kids -> Key]
                     /\ \A k \in Kids :
                          /\ keys[k].status # "absent" =>
                               keys'[k].status # "absent" /\ keys'[k].from = keys[k].from
                          /\ keys'[k].from <= now
                     /\ GraceStays
  <2>1. keys \in [Kids -> Key] /\ now \in Seconds /\ \A k \in Kids : keys[k].from <= now
    BY <1>2 DEF WorldOK
  <2>2. ASSUME NEW k \in Kids, AddKey(k) PROVE Safe
    <3> DEFINE row == [status |-> "active", from |-> now, to |-> Never]
    <3>1. row \in Key /\ row.from <= now
      BY <1>2, <2>1 DEF Key, Statuses
    <3>2. /\ keys' = [keys EXCEPT ![k] = row] /\ keys[k].status = "absent"
          /\ UNCHANGED <<now, records, revoked>>
      BY <2>2 DEF AddKey
    <3> HIDE DEF row
    <3>3. GraceStays
      BY <2>1, <3>2 DEF GraceStays, Graced
    <3> QED
      BY <2>1, <3>1, <3>2, <3>3
  <2>3. ASSUME NEW k \in Kids, RetireKey(k) PROVE Safe
    <3>1. now + Grace \in Int
      BY <1>2, ServingTokensAssumption
    <3>2. /\ keys' = [keys EXCEPT ![k].status = "retiring", ![k].to = now + Grace]
          /\ UNCHANGED <<now, records, revoked>>
      BY <2>3 DEF RetireKey
    <3>3. GraceStays
      <4> SUFFICES ASSUME NEW i \in Kids, NEW t \in Seconds, t <= now, Graced(i, t)
                   PROVE  Graced(i, t)'
        BY DEF GraceStays
      <4>1. t \in Int
        BY ServingTokensAssumption DEF Seconds
      <4>2. CASE i = k
        <5>1. /\ keys'[k].status = "retiring" /\ keys'[k].to = now + Grace
              /\ keys'[k].from = keys[k].from
          BY <2>1, <3>2 DEF Key
        <5> QED
          BY <1>2, <3>1, <3>2, <4>1, <4>2, <5>1, ServingTokensAssumption DEF Graced
      <4>3. CASE i # k
        <5>1. keys'[i] = keys[i]
          BY <2>1, <3>2, <4>3
        <5> QED
          BY <3>2, <5>1 DEF Graced
      <4> QED
        BY <4>2, <4>3
    <3> QED
      BY <2>1, <3>1, <3>2, <3>3 DEF Key, Statuses
  <2>4. ASSUME NEW k \in Kids, DropKey(k) PROVE Safe
    <3>1. /\ keys[k].status = "retiring" /\ keys[k].to <= now
          /\ keys' = [keys EXCEPT ![k].status = "retired"]
          /\ UNCHANGED <<now, records, revoked>>
      BY <2>4 DEF DropKey
    <3>2. GraceStays
      <4> SUFFICES ASSUME NEW i \in Kids, NEW t \in Seconds, t <= now, Graced(i, t)
                   PROVE  Graced(i, t)'
        BY DEF GraceStays
      <4>1. t + Grace \in Int
        BY ServingTokensAssumption DEF Seconds
      <4>2. CASE i = k
        <5>1. keys'[k].status = "retired" /\ keys'[k].from = keys[k].from
          BY <2>1, <3>1 DEF Key
        <5> QED
          BY <1>2, <3>1, <4>1, <4>2, <5>1 DEF Graced
      <4>3. CASE i # k
        <5>1. keys'[i] = keys[i]
          BY <2>1, <3>1, <4>3
        <5> QED
          BY <3>1, <5>1 DEF Graced
      <4> QED
        BY <4>2, <4>3
    <3> QED
      BY <2>1, <3>1, <3>2 DEF Key, Statuses
  <2>5. ASSUME NEW t \in records, Revoke(t) PROVE Safe
    BY <2>1, <2>5, KeysStill DEF Revoke
  <2> QED
    BY <2>2, <2>3, <2>4, <2>5 DEF Operate
<1>5. Grows
  BY <1>1, <1>2, <1>3 DEF WorldOK, Grows
<1>6. WorldOK'
  <2>1. \A t \in held : t.kid \in Kids
    BY <1>2 DEF WorldOK, Token
  <2> QED
    BY <1>1, <1>2, <1>3, <2>1 DEF WorldOK, TokensStored
<1> QED
  BY <1>1, <1>5, <1>6, WorldStep

LEMMA RefreshSafe ==
  ASSUME ServingInv, Refresh, UNCHANGED <<mvt, meta, contended>>
  PROVE  ServingInv'
<1>1. /\ served < MaxServed /\ served' = served + 1
      /\ UNCHANGED <<now, keys, records, revoked, marks, views, held, req>>
  BY DEF Refresh, tokenVars, viewVars
<1>2. WorldOK /\ now \in Int /\ \A d \in Datasets : marks[d] <= marks[d]
  BY MarksAreInts, ServingTokensAssumption DEF ServingInv, WorldOK, Seconds
<1>3. Grows
  BY <1>1, <1>2, KeysStill DEF WorldOK, Grows
<1>4. served' \in Versions
  BY <1>1, <1>2, TileServingAssumption DEF WorldOK, Versions
<1>5. WorldOK'
  BY <1>1, <1>2, <1>4 DEF WorldOK, TokensStored
<1> QED
  BY <1>1, <1>3, <1>5, WorldStep

\* Ingest moves a watermark forward.
LEMMA AdvanceSafe ==
  ASSUME ServingInv, NEW d \in Datasets, Advance(d),
         UNCHANGED <<served, mvt, meta, contended>>
  PROVE  ServingInv'
<1>1. /\ marks[d] < MaxMark /\ marks' = [marks EXCEPT ![d] = @ + 1]
      /\ UNCHANGED <<now, keys, records, revoked, views, held, req>>
  BY DEF Advance, tokenVars
<1>2. WorldOK /\ now \in Int
  BY ServingTokensAssumption DEF ServingInv, WorldOK, Seconds
<1>3. marks' \in Marks /\ \A i \in Datasets : marks[i] <= marks'[i]
  BY <1>1, <1>2, ServingViewsAssumption DEF WorldOK, Marks
<1>4. Grows
  BY <1>1, <1>2, <1>3, KeysStill DEF WorldOK, Grows
<1>5. WorldOK'
  BY <1>1, <1>2, <1>3 DEF WorldOK, TokensStored
<1> QED
  BY <1>1, <1>4, <1>5, WorldStep

LEMMA EndSafe ==
  ASSUME ServingInv, NEW r \in Reqs, Go(r, Idle),
         UNCHANGED <<worldVars, served, mvt, meta, contended>>
  PROVE  ServingInv'
<1>1. RequestsOK /\ WorldOK
  BY DEF ServingInv
<1>2. Grows /\ UNCHANGED <<now, keys, records, revoked, marks, views, held>>
  BY <1>1, WorldStill
<1>3. WorldOK'
  BY <1>1, <1>2 DEF WorldOK, TokensStored
<1> QED
  BY <1>1, <1>2, <1>3, GoMoves, IdleFine, RequestStep

LEMMA EventSafe == ServingInv /\ Event => ServingInv'
<1> SUFFICES ASSUME ServingInv, Event PROVE ServingInv'
  OBVIOUS
<1>1. UNCHANGED <<mvt, meta, contended>>
  BY DEF Event
<1>2. ASSUME NEW r \in Reqs, Fail(r), UNCHANGED served PROVE ServingInv'
  BY <1>1, <1>2, EndSafe DEF Fail, worldVars
<1> QED
  BY <1>1, <1>2, RefreshSafe, OperateSafe, AdvanceSafe DEF Event

------------------------------------------------------------------------------
(* The data routes.                                                        *)

\* A step that answers without a tile.
LEMMA AnswerSafe ==
  ASSUME ServingInv, NEW r \in Reqs, NEW status, Answer(r, status),
         UNCHANGED <<worldVars, served, cacheVars>>,
         status \in {401, 403} \/ req[r].tok = NoToken \/ req[r].sound
  PROVE  ServingInv'
BY AnswerFine, OwnStep

LEMMA AskSafe ==
  ASSUME ServingInv, NEW r \in Reqs, Ask(r)
  PROVE  ServingInv'
<1>1. UNCHANGED <<worldVars, served, cacheVars>> /\ UNCHANGED <<held, contended>>
  BY DEF Ask, worldVars, cacheVars
<1>2. RequestsOK /\ WorldOK
  BY DEF ServingInv
<1>3. ASSUME NEW status,
             Go(r, [pc |-> "answered", status |-> status, tok |-> NoToken, sound |-> FALSE])
      PROVE  ServingInv'
  <2> DEFINE q == [pc |-> "answered", status |-> status, tok |-> NoToken, sound |-> FALSE]
  <2>1. Moves(r) /\ req'[r] = q
    BY <1>2, <1>3, GoMoves
  <2>2. TimeOK(r)' /\ CheckOK(r)'
    BY <2>1 DEF TimeOK, CheckOK, Accepted, Reading, Storing
  <2>3. CacheOK(r)' /\ req'[r].pc \notin Storing
    BY <2>1 DEF CacheOK, Reading, Storing
  <2> QED
    BY <1>1, <2>1, <2>2, <2>3, OwnStep
<1>4. ASSUME NEW route \in RouteNames, NEW flaws \in SUBSET Flaws,
             NEW t \in held \cup {NoToken},
             Go(r, [pc |-> IF t = NoToken THEN "checks" ELSE "token",
                    route |-> route, tok |-> t, sound |-> FALSE, flaws |-> flaws])
      PROVE  ServingInv'
  <2> DEFINE q == [pc |-> IF t = NoToken THEN "checks" ELSE "token",
                   route |-> route, tok |-> t, sound |-> FALSE, flaws |-> flaws]
  <2>1. Moves(r) /\ req'[r] = q
    BY <1>2, <1>4, GoMoves
  <2>2. held \subseteq Token
    BY <1>2 DEF WorldOK
  <2>3. CASE t = NoToken
    <3>1. req'[r] = [pc |-> "checks", route |-> route, tok |-> t, sound |-> FALSE, flaws |-> flaws]
      BY <2>1, <2>3
    <3>2. req'[r] \in [pc : {"checks"}, route : RouteNames, tok : Token \cup {NoToken},
                       sound : BOOLEAN, flaws : SUBSET Flaws]
      BY <2>3, <3>1
    <3>3. TimeOK(r)' /\ CheckOK(r)'
      BY <2>3, <3>1 DEF TimeOK, CheckOK, Accepted, Reading, Storing
    <3>4. CacheOK(r)' /\ req'[r].pc \notin Storing
      BY <3>1, <3>2 DEF CacheOK, Reading, Storing
    <3> QED
      BY <1>1, <2>1, <3>3, <3>4, OwnStep
  <2>4. CASE t # NoToken
    <3>1. req'[r] = [pc |-> "token", route |-> route, tok |-> t, sound |-> FALSE, flaws |-> flaws]
      BY <2>1, <2>4
    <3>2. t \in held /\ t \in Token
      BY <2>2, <2>4
    <3>3. TimeOK(r)' /\ CheckOK(r)'
      BY <1>1, <3>1, <3>2 DEF TimeOK, CheckOK, Accepted, Reading, Storing
    <3>4. CacheOK(r)' /\ req'[r].pc \notin Storing
      BY <3>1 DEF CacheOK, Reading, Storing
    <3> QED
      BY <1>1, <2>1, <3>3, <3>4, OwnStep
  <2> QED
    BY <2>3, <2>4
<1>5. RoutesOf[r] \subseteq RouteNames
  BY TileServingAssumption
<1> QED
  BY <1>3, <1>4, <1>5 DEF Ask

\* The copy of the key passes for a token that is sound now, as far as the
\* record has no say.
LEMMA ReadKeySafe ==
  ASSUME ServingInv, NEW r \in Reqs, ReadKey(r)
  PROVE  ServingInv'
<1> DEFINE t == req[r].tok
           key == keys[t.kid]
<1>1. UNCHANGED <<worldVars, served, cacheVars>>
      /\ UNCHANGED <<now, held, revoked>>
  BY DEF ReadKey, worldVars, tokenVars
<1>2. RequestsOK /\ WorldOK /\ CheckOK(r) /\ req[r].pc = "token"
  BY DEF ServingInv, RequestsOK, ReadKey
<1>3. /\ t \in held /\ t \in Token /\ req[r].route \in RouteNames
      /\ req[r].flaws \in SUBSET Flaws
  BY <1>2 DEF CheckOK
<1>4. CASE ~KeyUsable(t.kid, key)
  <2>1. Answer(r, 401)
    BY <1>4 DEF ReadKey
  <2> QED
    BY <1>1, <2>1, AnswerSafe
<1>5. CASE KeyUsable(t.kid, key)
  <2> DEFINE q == [pc |-> "clock", key |-> key, route |-> req[r].route,
                   tok |-> t, sound |-> Sound(t), flaws |-> req[r].flaws]
  <2>1. Go(r, q)
    BY <1>5 DEF ReadKey
  <2>2. Moves(r) /\ req'[r] = q
    BY <1>2, <2>1, GoMoves
  <2>3. /\ key \in Key /\ key.from <= now /\ t.kid \in Kids /\ t \in records
        /\ Sound(t) \in BOOLEAN
    BY <1>2, <1>3 DEF WorldOK, Token, TokensStored, Sound
  <2>4. InTime(t, key) /\ t \notin revoked => Sound(t)
    <3>1. key.status \in Statuses
      BY <2>3 DEF Key
    <3> QED
      BY <1>5, <2>3, <3>1 DEF KeyUsable, Sound, Statuses
  <2>5. CheckOK(r)'
    <3>1. /\ req'[r].pc = "clock" /\ req'[r].key = key /\ req'[r].tok = t
          /\ req'[r].sound = Sound(t)
          /\ req'[r] \in [pc : {"clock"}, key : Key, route : RouteNames, tok : Token,
                           sound : BOOLEAN, flaws : SUBSET Flaws]
      BY <1>3, <2>2, <2>3
    <3> QED
      BY <1>1, <2>3, <2>4, <3>1 DEF CheckOK, Accepted, Reading, Storing, InTime, Expiry
  <2>6. TimeOK(r)' /\ CacheOK(r)' /\ req'[r].pc \notin Storing
    BY <2>2 DEF TimeOK, CacheOK, Reading, Storing
  <2> QED
    BY <1>1, <2>2, <2>5, <2>6, OwnStep
<1> QED
  BY <1>4, <1>5

\* What the clock says now, the copy of the key made good then.
LEMMA CheckClockSafe ==
  ASSUME ServingInv, NEW r \in Reqs, CheckClock(r)
  PROVE  ServingInv'
<1> DEFINE t == req[r].tok
<1>1. UNCHANGED <<worldVars, served, cacheVars>> /\ UNCHANGED revoked
  BY DEF CheckClock, worldVars, tokenVars
<1>2. RequestsOK /\ CheckOK(r) /\ req[r].pc = "clock"
  BY DEF ServingInv, RequestsOK, CheckClock
<1>3. CASE ~InTime(t, req[r].key)
  <2>1. Answer(r, 401)
    BY <1>3 DEF CheckClock
  <2> QED
    BY <1>1, <2>1, AnswerSafe
<1>4. CASE InTime(t, req[r].key)
  <2> DEFINE q == [pc |-> "record", route |-> req[r].route, tok |-> t,
                   sound |-> req[r].sound, flaws |-> req[r].flaws]
  <2>1. Moves(r) /\ req'[r] = q
    BY <1>2, <1>4, GoMoves DEF CheckClock
  <2>2. /\ t \notin revoked => req[r].sound
        /\ req[r].sound \in BOOLEAN /\ t \in Token
        /\ req[r].route \in RouteNames /\ req[r].flaws \in SUBSET Flaws
    BY <1>2, <1>4 DEF CheckOK
  <2>3. TimeOK(r)' /\ CheckOK(r)'
    BY <1>1, <2>1, <2>2 DEF TimeOK, CheckOK, Accepted, Reading, Storing
  <2>4. CacheOK(r)' /\ req'[r].pc \notin Storing
    BY <2>1 DEF CacheOK, Reading, Storing
  <2> QED
    BY <1>1, <2>1, <2>3, <2>4, OwnStep
<1> QED
  BY <1>3, <1>4

\* A record that is not revoked now was not revoked then.
LEMMA ReadRecordSafe ==
  ASSUME ServingInv, NEW r \in Reqs, ReadRecord(r)
  PROVE  ServingInv'
<1> DEFINE t == req[r].tok
<1>1. UNCHANGED <<worldVars, served, cacheVars>>
  BY DEF ReadRecord
<1>2. RequestsOK /\ CheckOK(r) /\ req[r].pc = "record"
  BY DEF ServingInv, RequestsOK, ReadRecord
<1>3. CASE ~RecordGood(t)
  <2>1. \E status \in {401, 403} : Answer(r, status)
    BY <1>3 DEF ReadRecord
  <2> QED
    BY <1>1, <2>1, AnswerSafe
<1>4. CASE RecordGood(t)
  <2> DEFINE q == [pc |-> "checks", route |-> req[r].route, tok |-> t,
                   sound |-> req[r].sound, flaws |-> req[r].flaws]
  <2>1. Go(r, [req[r] EXCEPT !.pc = "checks"])
    BY <1>4 DEF ReadRecord
  <2>2. /\ req[r].sound /\ req[r].sound \in BOOLEAN /\ t \in Token
        /\ req[r].route \in RouteNames /\ req[r].flaws \in SUBSET Flaws
    BY <1>2, <1>4 DEF CheckOK, RecordGood
  <2>3. [req[r] EXCEPT !.pc = "checks"] = q
    BY <1>2 DEF CheckOK
  <2>4. Moves(r) /\ req'[r] = q
    BY <1>2, <2>1, <2>3, GoMoves
  <2>5. TimeOK(r)' /\ CheckOK(r)'
    BY <2>2, <2>4 DEF TimeOK, CheckOK, Accepted, Reading, Storing
  <2>6. CacheOK(r)' /\ req'[r].pc \notin Storing
    BY <2>2, <2>4 DEF CacheOK, Reading, Storing
  <2> QED
    BY <1>1, <2>4, <2>5, <2>6, OwnStep
<1> QED
  BY <1>3, <1>4

\* An accepted request that goes on reading is as good as it was.
LEMMA ReadingSafe ==
  ASSUME ServingInv, NEW r \in Reqs, NEW q, Go(r, q),
         UNCHANGED <<worldVars, served, cacheVars>>,
         q \in [pc : Reading, route : RouteNames, tok : Token \cup {NoToken},
                sound : BOOLEAN, left : Nat],
         q.tok = NoToken \/ q.sound,
         q.pc = "meta" => q.tok \in DOMAIN meta
  PROVE  ServingInv'
<1>1. Moves(r) /\ req'[r] = q /\ UNCHANGED <<mvt, meta, contended>>
  BY GoMoves DEF ServingInv, cacheVars
<1>2. q.pc \in Reading
  OBVIOUS
<1>3. TimeOK(r)' /\ CheckOK(r)' /\ req'[r].pc \notin Storing
  BY <1>1, <1>2 DEF TimeOK, CheckOK, Accepted, Reading, Storing
<1>4. CacheOK(r)'
  BY <1>1, <1>2 DEF CacheOK, Reading, Storing
<1> QED
  BY <1>1, <1>3, <1>4, OwnStep

\* Every route has a list of statements.
LEMMA RoutesRead == \A route \in RouteNames : Len(Routes[route].reads) \in Nat
<1>1. \A route \in RouteNames :
        Routes[route] \in {CompositeRoute, EpisodesRoute, PolicyMovesRoute, SnapshotRoute,
                          DetailRoute, SeriesRoute, DrawerRoute, TimelineRoute,
                          DensityRoute, SearchRoute, ConfigRoute}
  BY DEF RouteNames, Routes
<1>2. /\ CompositeRoute.reads = <<>> /\ ConfigRoute.reads = <<>>
      /\ EpisodesRoute.reads = EpisodesReads /\ PolicyMovesRoute.reads = PolicyMovesReads
      /\ SnapshotRoute.reads = SnapshotReads /\ DetailRoute.reads = DetailReads
      /\ SeriesRoute.reads = SeriesReads /\ DrawerRoute.reads = DrawerReads
      /\ TimelineRoute.reads = TimelineReads /\ DensityRoute.reads = DensityReads
      /\ SearchRoute.reads = SearchReads
  BY DEF Route, CompositeRoute, EpisodesRoute, PolicyMovesRoute, SnapshotRoute, DetailRoute,
         SeriesRoute, DrawerRoute, TimelineRoute, DensityRoute, SearchRoute, ConfigRoute
<1>3. /\ Len(EpisodesReads) \in Nat /\ Len(PolicyMovesReads) \in Nat
      /\ Len(SnapshotReads) \in Nat /\ Len(DetailReads) \in Nat /\ Len(SeriesReads) \in Nat
      /\ Len(DrawerReads) \in Nat /\ Len(TimelineReads) \in Nat /\ Len(DensityReads) \in Nat
      /\ Len(SearchReads) \in Nat /\ Len(<<>>) \in Nat
  BY DEF EpisodesReads, PolicyMovesReads, SnapshotReads, DetailReads, SeriesReads, DrawerReads,
         TimelineReads, DensityReads, SearchReads
<1> QED
  BY <1>1, <1>2, <1>3

LEMMA CheckRestSafe ==
  ASSUME ServingInv, NEW r \in Reqs, CheckRest(r)
  PROVE  ServingInv'
<1>1. UNCHANGED <<worldVars, served, cacheVars>>
  BY DEF CheckRest
<1>2. CheckOK(r) /\ CacheOK(r) /\ req[r].pc = "checks"
  BY DEF ServingInv, RequestsOK, CheckRest
<1>3. /\ req[r].tok = NoToken \/ req[r].sound
      /\ req[r] \in [pc : {"checks"}, route : RouteNames, tok : Token \cup {NoToken},
                     sound : BOOLEAN, flaws : SUBSET Flaws]
  BY <1>2 DEF CheckOK, CacheOK, Accepted
<1> DEFINE route == req[r].route
           n == Len(Routes[route].reads)
           q == [pc |-> IF route = "composite" THEN "binding" ELSE "read",
                 route |-> route, tok |-> req[r].tok, sound |-> req[r].sound, left |-> n]
<1>4. n \in Nat
  <2>1. route \in RouteNames
    BY <1>3
  <2> QED
    BY <2>1, RoutesRead
<1> HIDE DEF n
<1>5. CASE Go(r, q)
  <2>1. q \in [pc : Reading, route : RouteNames, tok : Token \cup {NoToken},
               sound : BOOLEAN, left : Nat]
    BY <1>3, <1>4 DEF Reading
  <2>2. q.tok = NoToken \/ q.sound
    BY <1>3
  <2>3. q.pc # "meta"
    OBVIOUS
  <2> HIDE DEF q
  <2> QED
    BY <1>1, <1>5, <2>1, <2>2, <2>3, ReadingSafe
<1>6. ASSUME NEW status, Answer(r, status) PROVE ServingInv'
  BY <1>1, <1>3, <1>6, AnswerSafe
<1> QED
  BY <1>5, <1>6 DEF CheckRest, n

LEMMA ReadTablesSafe ==
  ASSUME ServingInv, NEW r \in Reqs, ReadTables(r)
  PROVE  ServingInv'
<1>1. UNCHANGED <<worldVars, served, cacheVars>>
  BY DEF ReadTables
<1>2. CheckOK(r) /\ CacheOK(r) /\ req[r].pc = "read"
  BY DEF ServingInv, RequestsOK, ReadTables
<1>3. /\ req[r].tok = NoToken \/ req[r].sound
      /\ req[r] \in [pc : Reading, route : RouteNames, tok : Token \cup {NoToken},
                     sound : BOOLEAN, left : Nat]
  BY <1>2 DEF CheckOK, CacheOK, Accepted, Reading
<1>4. CASE req[r].left > 1 /\ Go(r, [req[r] EXCEPT !.left = @ - 1])
  <2> DEFINE q == [req[r] EXCEPT !.left = @ - 1]
  <2>1. /\ q \in [pc : Reading, route : RouteNames, tok : Token \cup {NoToken},
                  sound : BOOLEAN, left : Nat]
        /\ q.pc = "read" /\ q.tok = req[r].tok /\ q.sound = req[r].sound
    BY <1>2, <1>3, <1>4
  <2> HIDE DEF q
  <2>2. q.tok = NoToken \/ q.sound
    BY <1>3, <2>1
  <2>3. Go(r, q)
    BY <1>4 DEF q
  <2> QED
    BY <1>1, <2>1, <2>2, <2>3, ReadingSafe
<1>5. ASSUME NEW status, Answer(r, status) PROVE ServingInv'
  BY <1>1, <1>3, <1>5, AnswerSafe
<1> QED
  BY <1>4, <1>5 DEF ReadTables

\* The binding and the probe of the cache: metadata that were found stay.
LEMMA ProbeSafe ==
  ASSUME ServingInv, NEW r \in Reqs, Bind(r) \/ Probe(r)
  PROVE  ServingInv'
<1>1. UNCHANGED <<worldVars, served, cacheVars>>
  BY DEF Bind, Probe
<1>2. CheckOK(r) /\ CacheOK(r) /\ req[r].pc \in {"binding", "probe"}
  BY DEF ServingInv, RequestsOK, Bind, Probe
<1>3. /\ req[r].tok = NoToken \/ req[r].sound
      /\ req[r] \in [pc : Reading, route : RouteNames, tok : Token \cup {NoToken},
                     sound : BOOLEAN, left : Nat]
  BY <1>2 DEF CheckOK, CacheOK, Accepted, Reading
<1>4. ASSUME NEW step \in Reading, Go(r, [req[r] EXCEPT !.pc = step]),
             step = "meta" => req[r].tok \in DOMAIN meta
      PROVE  ServingInv'
  <2> DEFINE q == [req[r] EXCEPT !.pc = step]
  <2>1. /\ q \in [pc : Reading, route : RouteNames, tok : Token \cup {NoToken},
                  sound : BOOLEAN, left : Nat]
        /\ q.pc = step /\ q.tok = req[r].tok /\ q.sound = req[r].sound
    BY <1>3
  <2> HIDE DEF q
  <2>2. q.tok = NoToken \/ q.sound
    BY <1>3, <2>1
  <2>3. Go(r, q)
    BY <1>4 DEF q
  <2> QED
    BY <1>1, <1>4, <2>1, <2>2, <2>3, ReadingSafe
<1>5. ASSUME NEW status, Answer(r, status) PROVE ServingInv'
  BY <1>1, <1>3, <1>5, AnswerSafe
<1>6. CASE Bind(r)
  <2>1. CASE Go(r, [req[r] EXCEPT !.pc = IF IsReplay THEN "probe" ELSE "render"])
    <3>1. (IF IsReplay THEN "probe" ELSE "render") \in Reading \ {"meta"}
      BY DEF Reading
    <3> QED
      BY <1>4, <2>1, <3>1
  <2> QED
    BY <1>5, <1>6, <2>1 DEF Bind
<1>7. CASE Probe(r)
  <2> DEFINE hit == req[r].tok \in DOMAIN mvt /\ req[r].tok \in DOMAIN meta
             step == IF hit THEN "meta" ELSE "render"
  <2>1. Go(r, [req[r] EXCEPT !.pc = step])
    BY <1>7 DEF Probe
  <2>2. step \in Reading /\ (step = "meta" => req[r].tok \in DOMAIN meta)
    BY DEF Reading
  <2> HIDE DEF step
  <2> QED
    BY <1>4, <2>1, <2>2
<1> QED
  BY <1>6, <1>7

\* A tile that is answered whole.
LEMMA AnswerTileFine ==
  ASSUME ServingInv, NEW r \in Reqs, NEW tile, NEW itsMeta, AnswerTile(r, tile, itsMeta),
         UNCHANGED contended, req[r].tok = NoToken \/ req[r].sound,
         req[r].tok \notin contended => tile \in Tile /\ itsMeta = tile
  PROVE  /\ Moves(r) /\ TimeOK(r)' /\ CheckOK(r)' /\ CacheOK(r)'
         /\ req'[r].pc \notin Storing
<1> DEFINE a == [pc |-> "answered", status |-> 200, tok |-> req[r].tok,
                 sound |-> req[r].sound, tile |-> tile, meta |-> itsMeta]
<1>1. Moves(r) /\ req'[r] = a
  BY GoMoves DEF AnswerTile, ServingInv
<1>2. TimeOK(r)' /\ CheckOK(r)'
  BY <1>1 DEF TimeOK, CheckOK, Accepted, Reading, Storing
<1>3. CacheOK(r)' /\ req'[r].pc \notin Storing
  BY <1>1 DEF CacheOK, Reading, Storing
<1> QED
  BY <1>1, <1>2, <1>3

\* Whole metadata are of the tile there is, and both stay.
LEMMA ReadMetaSafe ==
  ASSUME ServingInv, NEW r \in Reqs, ReadMeta(r)
  PROVE  ServingInv'
<1> DEFINE t == req[r].tok
           q == [pc |-> "tile", tok |-> t, sound |-> req[r].sound, m |-> meta[t]]
<1>1. UNCHANGED <<worldVars, served, cacheVars>> /\ UNCHANGED <<mvt, meta, contended>>
  BY DEF ReadMeta, cacheVars
<1>2. RequestsOK /\ FilesOK /\ CheckOK(r) /\ CacheOK(r) /\ req[r].pc = "meta"
  BY DEF ServingInv, RequestsOK, ReadMeta
<1>3. CASE meta[t] = Torn
  <2>1. Go(r, Idle)
    BY <1>3 DEF ReadMeta
  <2> QED
    BY <1>1, <2>1, EndSafe
<1>4. CASE meta[t] # Torn
  <2>1. Go(r, q)
    BY <1>4 DEF ReadMeta
  <2>2. Moves(r) /\ req'[r] = q
    BY <1>2, <2>1, GoMoves
  <2>3. t = NoToken \/ req[r].sound
    BY <1>2 DEF CheckOK, Accepted, Reading
  <2>4. t \notin contended => t \in DOMAIN meta
    BY <1>2 DEF CacheOK, Reading
  <2>5. t \notin contended => meta[t] \in Tile /\ mvt[t] = meta[t]
    BY <1>2, <1>4, <2>4 DEF FilesOK
  <2>6. TimeOK(r)' /\ CheckOK(r)'
    BY <2>2, <2>3 DEF TimeOK, CheckOK, Accepted, Reading, Storing
  <2>7. CacheOK(r)' /\ req'[r].pc \notin Storing
    BY <1>1, <2>2, <2>4, <2>5 DEF CacheOK, Reading, Storing
  <2> QED
    BY <1>1, <2>2, <2>6, <2>7, OwnStep
<1> QED
  BY <1>3, <1>4

LEMMA ReadTileSafe ==
  ASSUME ServingInv, NEW r \in Reqs, ReadTile(r)
  PROVE  ServingInv'
<1>1. /\ UNCHANGED <<worldVars, served, cacheVars>> /\ UNCHANGED contended
      /\ AnswerTile(r, mvt[req[r].tok], req[r].m)
  BY DEF ReadTile, cacheVars
<1>2. CheckOK(r) /\ CacheOK(r) /\ req[r].pc = "tile"
  BY DEF ServingInv, RequestsOK, ReadTile
<1>3. req[r].tok = NoToken \/ req[r].sound
  BY <1>2 DEF CheckOK, Accepted
<1>4. req[r].tok \notin contended =>
        mvt[req[r].tok] \in Tile /\ req[r].m = mvt[req[r].tok]
  BY <1>2 DEF CacheOK
<1> QED
  BY <1>1, <1>3, <1>4, AnswerTileFine, OwnStep

\* A rendered tile is whole; it is answered, or on its way to the cache.
LEMMA RenderedSafe ==
  ASSUME ServingInv, NEW r \in Reqs, NEW tile \in Tile, Rendered(r, tile),
         UNCHANGED <<worldVars, served, cacheVars>>,
         req[r].pc \in {"render", "trim"}
  PROVE  ServingInv'
<1>1. RequestsOK /\ CheckOK(r) /\ CacheOK(r) /\ UNCHANGED contended
  BY DEF ServingInv, RequestsOK, cacheVars
<1>2. /\ req[r].tok = NoToken \/ req[r].sound
      /\ req[r].tok \in Token \cup {NoToken} /\ req[r].sound \in BOOLEAN
  BY <1>1 DEF CheckOK, CacheOK, Accepted, Reading
<1>3. CASE IsReplay
  <2> DEFINE q == [pc |-> "put", tok |-> req[r].tok, sound |-> req[r].sound, tile |-> tile]
  <2>1. Moves(r) /\ req'[r] = q
    BY <1>1, <1>3, GoMoves DEF Rendered
  <2>2. TimeOK(r)' /\ CheckOK(r)'
    BY <1>2, <2>1 DEF TimeOK, CheckOK, Accepted, Reading, Storing
  <2>3. CacheOK(r)' /\ req'[r].pc \notin Storing
    BY <1>2, <2>1 DEF CacheOK, Reading, Storing
  <2> QED
    BY <2>1, <2>2, <2>3, OwnStep
<1>4. CASE ~IsReplay
  <2>1. AnswerTile(r, tile, tile)
    BY <1>4 DEF Rendered
  <2> QED
    BY <1>1, <1>2, <2>1, AnswerTileFine, OwnStep
<1> QED
  BY <1>3, <1>4

LEMMA RenderSafe ==
  ASSUME ServingInv, NEW r \in Reqs, Render(r) \/ Trim(r)
  PROVE  ServingInv'
<1>1. UNCHANGED <<worldVars, served, cacheVars>>
  BY DEF Render, Trim
<1>2. CheckOK(r) /\ CacheOK(r) /\ req[r].pc \in {"render", "trim"} /\ served \in Versions
  BY DEF ServingInv, RequestsOK, WorldOK, Render, Trim
<1>3. /\ req[r].tok = NoToken \/ req[r].sound
      /\ req[r] \in [pc : Reading, route : RouteNames, tok : Token \cup {NoToken},
                     sound : BOOLEAN, left : Nat]
  BY <1>2 DEF CheckOK, CacheOK, Accepted, Reading
<1>4. CASE Go(r, [req[r] EXCEPT !.pc = "trim"])
  <2> DEFINE q == [req[r] EXCEPT !.pc = "trim"]
  <2>1. /\ q \in [pc : Reading, route : RouteNames, tok : Token \cup {NoToken},
                  sound : BOOLEAN, left : Nat]
        /\ q.pc = "trim" /\ q.tok = req[r].tok /\ q.sound = req[r].sound
    BY <1>3 DEF Reading
  <2> HIDE DEF q
  <2>2. q.tok = NoToken \/ q.sound
    BY <1>3, <2>1
  <2>3. Go(r, q)
    BY <1>4 DEF q
  <2> QED
    BY <1>1, <2>1, <2>2, <2>3, ReadingSafe
<1>5. \A b \in BOOLEAN : [version |-> served, trimmed |-> b] \in Tile
  BY <1>2 DEF Tile
<1>6. ASSUME NEW b \in BOOLEAN, Rendered(r, [version |-> served, trimmed |-> b])
      PROVE  ServingInv'
  BY <1>1, <1>2, <1>5, <1>6, RenderedSafe
<1>7. ASSUME NEW status, Answer(r, status) PROVE ServingInv'
  BY <1>1, <1>3, <1>7, AnswerSafe
<1> QED
  BY <1>4, <1>6, <1>7 DEF Render, Trim

\* A write to the files of one token, which only this request writes unless
\* they are contended.
LEMMA FilesStep ==
  ASSUME ServingInv, NEW r \in Reqs, Moves(r), UNCHANGED <<worldVars, served>>,
         TimeOK(r)', CheckOK(r)', CacheOK(r)', contended \subseteq contended',
         NEW t, req'[r].tok = t,
         DOMAIN mvt' \in {DOMAIN mvt, DOMAIN mvt \cup {t}},
         DOMAIN meta' \in {DOMAIN meta, DOMAIN meta \cup {t}},
         \A k \in DOMAIN mvt \ {t} : mvt'[k] = mvt[k],
         \A k \in DOMAIN meta \ {t} : meta'[k] = meta[k],
         t \notin contended' =>
           /\ \A i \in Reqs \ {r} : ~Stores(i, t)
           /\ t \in DOMAIN meta => mvt'[t] = mvt[t]
           /\ t \in DOMAIN meta' =>
                /\ t \in DOMAIN mvt' /\ mvt'[t] \in Tile /\ meta'[t] \in {Torn, mvt'[t]}
                /\ req'[r].pc \notin {"put_tile", "put_meta"}
  PROVE  ServingInv'
<1>1. RequestsOK /\ FilesOK /\ WorldOK
  BY DEF ServingInv
<1>2. Grows /\ UNCHANGED <<now, keys, records, revoked, marks, views, held>>
  BY <1>1, WorldStill
<1>3. WorldOK'
  BY <1>1, <1>2 DEF WorldOK, TokensStored
<1>4. /\ req' = [i \in Reqs |-> req'[i]]
      /\ \A i \in Reqs \ {r} : req'[i] = req[i]
  BY <1>1, OneMoves
<1>5. ASSUME NEW i \in Reqs \ {r}
      PROVE  TimeOK(i)' /\ CheckOK(i)' /\ CacheOK(i)'
  <2>1. TimeOK(i) /\ CheckOK(i) /\ CacheOK(i) /\ req'[i] = req[i]
    BY <1>1, <1>4 DEF RequestsOK
  <2>2. CASE req[i].tok = t /\ t \notin contended'
    <3>1. t \notin contended /\ req[i].pc \notin Storing
      BY <2>2 DEF Stores
    <3>2. req[i].pc \in {"meta", "tile"} => t \in DOMAIN meta
      BY <2>1, <2>2, <3>1 DEF CacheOK, Reading
    <3>3. req[i].pc \in {"meta", "tile"} => t \in DOMAIN meta' /\ mvt'[t] = mvt[t]
      BY <2>2, <3>2
    <3> QED
      BY <1>1, <1>2, <1>3, <2>1, <2>2, <3>1, <3>3, OthersKeep
      DEF CacheOK, Reading, Storing
  <2>3. CASE req[i].tok # t \/ t \in contended'
    <3>1. req[i].tok \notin contended' => req[i].tok # t /\ req[i].tok \notin contended
      BY <2>3
    <3>2. req[i].tok \notin contended' =>
            /\ req[i].pc = "put_meta" =>
                 req[i].tok \in DOMAIN mvt' /\ mvt'[req[i].tok] = req[i].tile
            /\ req[i].pc = "put_end" =>
                 req[i].tok \in DOMAIN meta' /\ mvt'[req[i].tok] = req[i].tile
            /\ req[i].pc = "meta" => req[i].tok \in DOMAIN meta'
            /\ req[i].pc = "tile" =>
                 /\ req[i].tok \in DOMAIN meta' /\ req[i].m \in Tile
                 /\ mvt'[req[i].tok] = req[i].m
      <4>1. \A k : k \notin contended /\ k \in DOMAIN meta => k \in DOMAIN mvt
        BY <1>1 DEF FilesOK
      <4> QED
        BY <2>1, <3>1, <4>1 DEF CacheOK, Reading, Storing
    <3> QED
      BY <1>1, <1>2, <1>3, <2>1, <3>1, <3>2, OthersKeep DEF CacheOK, Reading, Storing
  <2> QED
    BY <2>2, <2>3
<1>6. RequestsOK'
  BY <1>4, <1>5 DEF RequestsOK
<1>7. ASSUME NEW k, k \notin contended'
      PROVE  /\ k \in DOMAIN meta' =>
                  /\ k \in DOMAIN mvt' /\ mvt'[k] \in Tile /\ meta'[k] \in {Torn, mvt'[k]}
                  /\ \A i \in Reqs :
                       req'[i].pc \in {"put_tile", "put_meta"} => req'[i].tok # k
             /\ \A i, j \in Reqs : Stores(i, k)' /\ Stores(j, k)' => i = j
  <2>1. CASE k = t
    <3>1. \A i \in Reqs \ {r} : ~Stores(i, t)'
      BY <1>4, <1>7, <2>1 DEF Stores
    <3>2. \A i \in Reqs \ {r} : req'[i].pc \in {"put_tile", "put_meta"} => req'[i].tok # t
      BY <3>1 DEF Stores, Storing
    <3> QED
      BY <1>7, <2>1, <3>1, <3>2
  <2>2. CASE k # t
    <3>1. k \notin contended
      BY <1>7
    <3>2. \A i \in Reqs : Stores(i, k)' => i # r /\ Stores(i, k)
      BY <1>4, <2>2 DEF Stores
    <3>3. \A i \in Reqs : req'[i].tok = k => i # r /\ req'[i] = req[i]
      BY <1>4, <2>2
    <3>4. k \in DOMAIN meta' =>
            k \in DOMAIN meta /\ k \in DOMAIN mvt' /\ mvt'[k] = mvt[k] /\ meta'[k] = meta[k]
      BY <1>1, <2>2, <3>1 DEF FilesOK
    <3> QED
      BY <1>1, <3>1, <3>2, <3>3, <3>4 DEF FilesOK
  <2> QED
    BY <2>1, <2>2
<1>8. FilesOK'
  BY <1>7 DEF FilesOK
<1> QED
  BY <1>3, <1>6, <1>8 DEF ServingInv

\* Opening a file, writing it, opening its metadata, writing them.
LEMMA PutSafe ==
  ASSUME ServingInv, NEW r \in Reqs, Put(r)
  PROVE  ServingInv'
<1> DEFINE t == req[r].tok
           q == req[r]
           next(step) == [q EXCEPT !.pc = step]
<1>1. /\ UNCHANGED <<worldVars, served, events>> /\ q.pc \in {"put"} \cup Storing
  BY DEF Put, Storing
<1>2. RequestsOK /\ FilesOK /\ CheckOK(r) /\ CacheOK(r)
  BY DEF ServingInv, RequestsOK
<1>3. /\ t = NoToken \/ q.sound
      /\ q \in [pc : {"put"} \cup Storing, tok : Token \cup {NoToken},
               sound : BOOLEAN, tile : Tile]
  BY <1>1, <1>2 DEF CheckOK, CacheOK, Accepted
<1>4. ASSUME NEW step \in Storing, Go(r, next(step))
      PROVE  /\ Moves(r) /\ TimeOK(r)' /\ CheckOK(r)'
             /\ req'[r] \in [pc : {"put"} \cup Storing, tok : Token \cup {NoToken},
                             sound : BOOLEAN, tile : Tile]
             /\ req'[r].pc = step /\ req'[r].tok = t /\ req'[r].tile = q.tile
  <2>1. Moves(r) /\ req'[r] = next(step)
    BY <1>2, <1>4, GoMoves
  <2>2. /\ next(step) \in [pc : {"put"} \cup Storing, tok : Token \cup {NoToken},
                           sound : BOOLEAN, tile : Tile]
        /\ next(step).pc = step /\ next(step).tok = t /\ next(step).tile = q.tile
        /\ next(step).sound = q.sound
    BY <1>3
  <2> HIDE DEF next
  <2>3. TimeOK(r)' /\ CheckOK(r)'
    BY <1>3, <2>1, <2>2 DEF TimeOK, CheckOK, Accepted, Reading, Storing
  <2> QED
    BY <2>1, <2>2, <2>3
<1>5. t \notin contended /\ q.pc \in Storing => \A i \in Reqs \ {r} : ~Stores(i, t)
  BY <1>2 DEF FilesOK, Stores
<1>6. t \notin contended /\ q.pc \in {"put_tile", "put_meta"} => t \notin DOMAIN meta
  BY <1>2 DEF FilesOK
<1>7. CASE /\ q.pc = "put"
           /\ mvt' = With(mvt, t, Torn) /\ UNCHANGED meta
           /\ contended' = IF Stored(t) THEN contended \cup {t} ELSE contended
           /\ Go(r, next("put_tile"))
  <2>1. t \notin contended' =>
          t \notin DOMAIN meta /\ \A i \in Reqs \ {r} : ~Stores(i, t)
    BY <1>7 DEF Stored, Stores, Storing
  <2>2. contended \subseteq contended'
    BY <1>7
  <2>3. CacheOK(r)'
    BY <1>4, <1>7 DEF CacheOK, Reading, Storing
  <2>4. "put_tile" \in Storing
    BY DEF Storing
  <2>5. /\ DOMAIN mvt' = DOMAIN mvt \cup {t} /\ \A k \in DOMAIN mvt \ {t} : mvt'[k] = mvt[k]
    BY <1>7 DEF With
  <2> HIDE DEF t, q, next
  <2> QED
    BY <1>1, <1>4, <1>7, <2>1, <2>2, <2>3, <2>4, <2>5, FilesStep
<1>8. CASE /\ q.pc = "put_tile"
           /\ mvt' = With(mvt, t, q.tile) /\ UNCHANGED <<meta, contended>>
           /\ Go(r, next("put_meta"))
  <2>1. "put_meta" \in Storing
    BY DEF Storing
  <2>2. /\ DOMAIN mvt' = DOMAIN mvt \cup {t} /\ \A k \in DOMAIN mvt \ {t} : mvt'[k] = mvt[k]
        /\ mvt'[t] = q.tile
    BY <1>8 DEF With
  <2>3. CacheOK(r)'
    BY <1>4, <1>8, <2>1, <2>2 DEF CacheOK, Reading, Storing
  <2>4. q.pc \in Storing
    BY <1>8 DEF Storing
  <2> HIDE DEF t, q, next
  <2> QED
    BY <1>1, <1>4, <1>5, <1>6, <1>8, <2>1, <2>2, <2>3, <2>4, FilesStep
<1>9. CASE /\ q.pc = "put_meta"
           /\ meta' = With(meta, t, Torn) /\ UNCHANGED <<mvt, contended>>
           /\ Go(r, next("put_end"))
  <2>1. "put_end" \in Storing /\ q.pc \in Storing
    BY <1>9 DEF Storing
  <2>2. /\ DOMAIN meta' = DOMAIN meta \cup {t} /\ \A k \in DOMAIN meta \ {t} : meta'[k] = meta[k]
        /\ meta'[t] = Torn
    BY <1>9 DEF With
  <2>3. t \notin contended => t \in DOMAIN mvt /\ mvt[t] = q.tile /\ q.tile \in Tile
    BY <1>2, <1>3, <1>9 DEF CacheOK, Storing
  <2>4. CacheOK(r)'
    BY <1>4, <1>9, <2>1, <2>2, <2>3 DEF CacheOK, Reading, Storing
  <2> HIDE DEF t, q, next
  <2> QED
    BY <1>1, <1>4, <1>5, <1>6, <1>9, <2>1, <2>2, <2>3, <2>4, FilesStep
<1>10. CASE /\ q.pc = "put_end"
            /\ meta' = With(meta, t, q.tile) /\ UNCHANGED <<mvt, contended>>
            /\ AnswerTile(r, q.tile, q.tile)
  <2>1. q.pc \in Storing
    BY <1>10 DEF Storing
  <2>2. /\ DOMAIN meta' = DOMAIN meta \cup {t} /\ \A k \in DOMAIN meta \ {t} : meta'[k] = meta[k]
        /\ meta'[t] = q.tile
    BY <1>10 DEF With
  <2>3. t \notin contended => t \in DOMAIN meta /\ mvt[t] = q.tile /\ q.tile \in Tile
    BY <1>2, <1>3, <1>10 DEF CacheOK, Storing
  <2>4. t \notin contended => t \in DOMAIN mvt
    BY <1>2, <2>3 DEF FilesOK
  <2>5. /\ Moves(r) /\ TimeOK(r)' /\ CheckOK(r)' /\ CacheOK(r)'
        /\ req'[r].pc \notin Storing
    BY <1>3, <1>10, AnswerTileFine
  <2>6. req'[r].tok = t
    BY <1>2, <1>10, GoMoves DEF AnswerTile
  <2> HIDE DEF t, q, next
  <2> QED
    BY <1>1, <1>5, <1>10, <2>1, <2>2, <2>3, <2>4, <2>5, <2>6, FilesStep DEF Storing
<1> QED
  BY <1>7, <1>8, <1>9, <1>10 DEF Put

------------------------------------------------------------------------------
(* The specification.                                                      *)

LEMMA InitServing == Init => ServingInv
<1> SUFFICES ASSUME Init PROVE ServingInv
  OBVIOUS
<1>1. WorldOK
  <2>1. now \in Seconds /\ now = 0 /\ served \in Versions /\ held = {}
    BY ServingTokensAssumption, TileServingAssumption
    DEF Init, TokensInit, ViewsInit, Seconds, Versions
  <2>2. keys \in [Kids -> Key] /\ \A k \in Kids : keys[k].from = 0
    <3>1. PICK k \in Kids :
            keys = [[i \in Kids |-> NoRow] EXCEPT ![k].status = "active"]
      BY DEF Init, TokensInit
    <3>2. NoRow \in Key /\ [NoRow EXCEPT !.status = "active"] \in Key
          /\ NoRow.from = 0 /\ [NoRow EXCEPT !.status = "active"].from = 0
      BY ServingTokensAssumption DEF NoRow, Key, Statuses, Seconds
    <3>3. \A i \in Kids : keys[i] \in {NoRow, [NoRow EXCEPT !.status = "active"]}
      BY <3>1
    <3>4. keys = [i \in Kids |-> keys[i]]
      BY <3>1
    <3> QED
      BY <3>2, <3>3, <3>4
  <2>3. marks \in Marks
    BY ServingViewsAssumption DEF Init, ViewsInit, Marks
  <2> QED
    BY <2>1, <2>2, <2>3 DEF WorldOK, TokensStored
<1>2. req = [r \in Reqs |-> Idle]
  BY DEF Init, ViewsInit
<1>3. RequestsOK
  BY <1>2
  DEF RequestsOK, Idle, TimeOK, CheckOK, CacheOK, Accepted, Reading, Storing
<1>4. FilesOK
  BY <1>2 DEF Init, FilesOK, Stores, Idle, Storing
<1> QED
  BY <1>1, <1>3, <1>4 DEF ServingInv

LEMMA ServingStep == ServingInv /\ [Next]_vars => ServingInv'
<1> SUFFICES ASSUME ServingInv, [Next]_vars PROVE ServingInv'
  OBVIOUS
<1>1. CASE UNCHANGED vars
  <2>1. UNCHANGED <<now, keys, records, revoked, marks, views, held, req, served, mvt, meta,
                    contended>>
    BY <1>1 DEF vars, tokenVars, viewVars
  <2>2. WorldOK
    BY DEF ServingInv
  <2>3. Grows
    BY <2>1, <2>2, WorldStill DEF worldVars, tokenVars
  <2>4. WorldOK'
    BY <2>1, <2>2 DEF WorldOK, TokensStored
  <2> QED
    BY <2>1, <2>3, <2>4, WorldStep
<1>2. ASSUME NEW r \in Reqs, Receive(r) PROVE ServingInv'
  BY <1>2, EndSafe DEF Receive, cacheVars
<1>3. ASSUME NEW r \in Reqs, DataRoute(r) PROVE ServingInv'
  BY <1>3, AskSafe, ReadKeySafe, CheckClockSafe, ReadRecordSafe, CheckRestSafe,
     ReadTablesSafe, ProbeSafe, ReadMetaSafe, ReadTileSafe, RenderSafe, PutSafe
  DEF DataRoute
<1> QED
  BY <1>1, <1>2, <1>3, TimeRouteSafe, TickSafe, EventSafe DEF Next

LEMMA ServingInvariant == Spec => []ServingInv
<1> QED
  BY InitServing, ServingStep, PTL DEF Spec

\* A client never holds a token whose record, view or key is missing, and the
\* grace window of a fresh token's key did not begin before the mint read it.
THEOREM TokensBacked == Spec => []HeldTokensAreBacked
<1>1. ServingInv => TokensStored
  BY DEF ServingInv, WorldOK
<1>2. ServingInv => SignedInGrace
  BY DEF ServingInv, RequestsOK, TimeOK, Graced, SignedInGrace
<1>3. ServingInv => HeldTokensAreBacked
  BY <1>1, <1>2 DEF HeldTokensAreBacked
<1> QED
  BY <1>3, ServingInvariant, PTL

\* A fresh token's view lists every data set the answer lists, no older, and
\* none newer than its table.
THEOREM FreshView == Spec => []ViewIsFresh
<1>1. ServingInv => ViewIsFresh
  BY DEF ServingInv, RequestsOK, TimeOK, Fresh, ViewIsFresh
<1> QED
  BY <1>1, ServingInvariant, PTL

\* Only a token that was good as a whole at one moment gets past its check,
\* whatever happens between the two statements of the check.
THEOREM AcceptedSound == Spec => []AcceptedWasSound
<1>1. ServingInv => AcceptedWasSound
  BY DEF ServingInv, RequestsOK, CheckOK, AcceptedWasSound
<1> QED
  BY <1>1, ServingInvariant, PTL

\* A tile is answered whole and with its own metadata, unless two requests
\* missed it together.
THEOREM TileWhole == Spec => []AnsweredTileIsWhole
<1>1. ServingInv => AnsweredTileIsWhole
  <2> SUFFICES ASSUME ServingInv, NEW r \in Reqs, req[r].pc = "answered",
                      "tile" \in DOMAIN req[r], req[r].tok \notin contended
               PROVE  req[r].tile # Torn /\ req[r].meta = req[r].tile
    BY DEF AnsweredTileIsWhole
  <2>1. req[r].tile \in Tile /\ req[r].meta = req[r].tile
    BY DEF ServingInv, RequestsOK, CacheOK
  <2> QED
    BY <2>1, TileServingAssumption
<1> QED
  BY <1>1, ServingInvariant, PTL
=============================================================================
