------------------------------ MODULE ServingViews ------------------------------
(***************************************************************************)
(* GET /api/time: buildTimeEndpointResponse (packages/api/src/             *)
(* serving-views/http.ts) over ServingViewService.mintLiveToken (.../      *)
(* service.ts) and the watermarks that ingest moves.  The summary of       *)
(* watermarks for the client is one statement; the view behind the token   *)
(* reads them again, one data set at a time, and then come the view, the   *)
(* key and the record.                                                     *)
(***************************************************************************)
EXTENDS ServingTokens, Sequences, SequencesExt

CONSTANTS Reqs,      \* the clients: each has one request at a time
          Required,  \* required_datasets
          Optional,  \* optional_datasets
          MaxMark,   \* bounds of the model
          MaxTokens

ASSUME ServingViewsAssumption ==
  /\ IsFiniteSet(Required) /\ IsFiniteSet(Optional)
  /\ Required # {} /\ Required \cap Optional = {}
  /\ MaxMark \in Nat \ {0} /\ MaxTokens \in Nat

VARIABLES marks,  \* dataset_watermarks; 0 has no row
          views,  \* serving_views, each by its specification
          held,   \* the tokens clients were given
          req     \* what each request is about to do

viewVars == <<marks, views, held, req>>

Datasets == Required \cup Optional
Marks == [Datasets -> 0..MaxMark]

\* A data set a view leaves out stands at 0.
View == Marks
Token == [kid : Kids, view : View, issued : Seconds]

Idle == [pc |-> "idle"]
Minting(r) == req[r].pc \in {"view", "key", "mint"}
Answered(r) == req[r].pc \in {"minted", "answered"}

Go(r, state) == req' = [req EXCEPT ![r] = state]

ViewsInit ==
  /\ marks \in {[d \in Datasets |-> IF d \in Required THEN 1 ELSE 0],
                [d \in Datasets |-> 0]}
  /\ views = {} /\ held = {}
  /\ req = [r \in Reqs |-> Idle]

-----------------------------------------------------------------------------
\* listWatermarks; without a required one the answer is 500.
AskTime(r) ==
  /\ req[r] = Idle /\ Cardinality(held) + Cardinality({s \in Reqs : Minting(s)}) < MaxTokens
  /\ IF \A d \in Required : marks[d] > 0
     THEN Go(r, [pc |-> "view", listed |-> marks,
                 spec |-> [d \in Datasets |-> 0],
                 todo |-> SetToSeq(Required) \o SetToSeq(Optional)])
     ELSE Go(r, Idle)
  /\ UNCHANGED <<tokenVars, marks, views, held>>

\* Mutant: the optional data sets are left out of the view.
MutReadMark(r) ==
  /\ req[r].pc = "view" /\ req[r].todo # <<>>
  /\ LET d == Head(req[r].todo) IN
     Go(r, [req[r] EXCEPT !.spec[d] = IF d \in Required THEN marks[d] ELSE 0,
                          !.todo = Tail(@)])
  /\ UNCHANGED <<tokenVars, marks, views, held>>

\* getWatermark of the next data set; the required ones have a row by now.
ReadMark(r) ==
  /\ req[r].pc = "view" /\ req[r].todo # <<>>
  /\ LET d == Head(req[r].todo) IN
     Go(r, [req[r] EXCEPT !.spec[d] = marks[d], !.todo = Tail(@)])
  /\ UNCHANGED <<tokenVars, marks, views, held>>

\* upsertServingView: the same specification is the same view.
UpsertView(r) ==
  /\ req[r].pc = "view" /\ req[r].todo = <<>>
  /\ views' = views \cup {req[r].spec}
  /\ Go(r, [pc |-> "key", listed |-> req[r].listed, spec |-> req[r].spec])
  /\ UNCHANGED <<tokenVars, marks, held>>

\* getActiveKey; without one the answer is 500.  read remembers when it was
\* read, for the invariant only.
PickKey(r) ==
  /\ req[r].pc = "key"
  /\ \/ \E k \in ActiveKeys :
          Go(r, [pc |-> "mint", listed |-> req[r].listed, spec |-> req[r].spec,
                 kid |-> k, read |-> now])
     \/ ActiveKeys = {} /\ Go(r, Idle)
  /\ UNCHANGED <<tokenVars, marks, views, held>>

\* Mutant: the token is answered before its record is saved.
MutMint(r) ==
  /\ req[r].pc = "mint"
  /\ LET t == [kid |-> req[r].kid, view |-> req[r].spec, issued |-> now] IN
     /\ held' = held \cup {t}
     /\ Go(r, [pc |-> "minted", listed |-> req[r].listed, tok |-> t,
             read |-> req[r].read])
  /\ UNCHANGED <<tokenVars, marks, views>>

\* The token is signed and recorded, and answered next to what was listed.
Mint(r) ==
  /\ req[r].pc = "mint"
  /\ LET t == [kid |-> req[r].kid, view |-> req[r].spec, issued |-> now] IN
     /\ SaveTokenRecord(t)
     /\ held' = held \cup {t}
     /\ Go(r, [pc |-> "minted", listed |-> req[r].listed, tok |-> t,
             read |-> req[r].read])
  /\ UNCHANGED <<now, keys, marks, views>>

TimeRoute(r) == AskTime(r) \/ ReadMark(r) \/ UpsertView(r) \/ PickKey(r) \/ Mint(r)

-----------------------------------------------------------------------------
\* Ingest commits a newer watermark (GbfsLoader): it never goes back.
Advance(d) ==
  /\ marks[d] < MaxMark
  /\ marks' = [marks EXCEPT ![d] = @ + 1]
  /\ UNCHANGED <<tokenVars, views, held, req>>

\* A statement fails or the server stops: the request ends without an answer.
Fail(r) ==
  /\ req[r] # Idle
  /\ Go(r, Idle)
  /\ UNCHANGED <<tokenVars, marks, views, held>>

-----------------------------------------------------------------------------
\* What serving a held token needs was stored before the client had it: its
\* record, its view and its key.
TokensStored ==
  \A t \in held :
    /\ t \in records /\ t.view \in views
    /\ keys[t.kid].status # "absent" /\ keys[t.kid].from <= t.issued

\* The key of a fresh token signed new tokens when it was read, so the grace
\* window, if the key was retired since, runs from that moment or later.
SignedInGrace ==
  \A r \in Reqs : req[r].pc = "minted" =>
    LET key == keys[req[r].tok.kid]
        end == req[r].read + Grace
    IN /\ key.from <= req[r].read
       /\ key.status = "retiring" => end <= key.to
       /\ key.status = "retired" => end <= now

\* A client is never handed a token that cannot be served but for what happened
\* during its own mint: rotation, the clock and other requests run between the
\* statements of ServingTokenService.mint (sv/service.ts:77-106), and the key
\* is not looked at again, so it may have been retired, even dropped, by the
\* time the token is issued, but only from a moment after it was read on.
HeldTokensAreBacked == TokensStored /\ SignedInGrace

\* The view of a fresh token holds every data set the answer lists, none older
\* than the answer says and none newer than the tables (mintLiveToken reads the
\* watermarks again, one by one, while ingest moves them).
ViewIsFresh ==
  \A r \in Reqs : req[r].pc = "minted" =>
    \A d \in Datasets :
      /\ req[r].listed[d] <= req[r].tok.view[d]
      /\ req[r].tok.view[d] <= marks[d]

=============================================================================
