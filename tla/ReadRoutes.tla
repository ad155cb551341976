------------------------------- MODULE ReadRoutes -------------------------------
(***************************************************************************)
(* The read endpoints behind packages/api/src/http/control-plane.ts, as    *)
(* data: what each handler checks before it looks at the token, whether it *)
(* looks at one, what it checks after that, which statements it then runs  *)
(* one after the other, and how it can end: early, with the first of them, *)
(* or with the last.  A check is named for the parameter or the guard it   *)
(* is about; the first one that fails answers the request.                 *)
(***************************************************************************)
EXTENDS Naturals, Sequences, SequencesExt

AnyRoute == <<"method", "path", "params">>
Versioned == AnyRoute \o <<"version">>
OfSystem == <<"system", "allow_system">>

Route(token, before, after, reads, early, ends) ==
  [token |-> token, before |-> before, after |-> after,
   reads |-> reads, early |-> early, ends |-> ends]

-----------------------------------------------------------------------------
(* The statements                                                          *)

EpisodesReads == <<"binding", "tile">>
PolicyMovesReads == <<"tile">>
SnapshotReads == <<"latest rows">>
DetailReads == <<"station">>
SeriesReads == <<"buckets">>
DrawerReads == <<"point", "series", "episodes">>
TimelineReads == <<"range">>
DensityReads == <<"density">>
SearchReads == <<"stations">>

-----------------------------------------------------------------------------
(* The routes *)

\* The binding, the cache and the two renders are steps of TileServing.
CompositeRoute ==
  Route(TRUE, Versioned,
        OfSystem \o <<"tile_schema", "severity", "layers", "allow_params",
                      "t_bucket", "layers_set", "compare", "t2_missing",
                      "t2_unexpected", "t2_window">>,
        <<>>, {500}, {200, 429})

\* Without a binding to a severity version there is no tile.
EpisodesRoute ==
  Route(TRUE, Versioned, OfSystem \o <<"t_bucket">>, EpisodesReads, {500}, {200, 429})

PolicyMovesRoute ==
  Route(TRUE, Versioned, OfSystem \o <<"allow_params", "policy_version", "t_bucket">>,
        PolicyMovesReads, {}, {200, 404, 429})

SnapshotRoute ==
  Route(TRUE, AnyRoute, <<"system", "t_bucket", "limit">>, SnapshotReads, {}, {200})

DetailRoute ==
  Route(TRUE, AnyRoute \o <<"station">>, <<>>, DetailReads, {}, {200, 404})

SeriesRoute ==
  Route(TRUE, AnyRoute \o <<"station">>, <<"bucket", "range", "window", "points">>,
        SeriesReads, {}, {200})

\* Without a row for the station there is no drawer.
DrawerRoute ==
  Route(TRUE, Versioned, OfSystem \o <<"allow_params", "t_bucket", "range", "bucket">>,
        DrawerReads, {404}, {200})

TimelineRoute == Route(TRUE, Versioned, <<>>, TimelineReads, {}, {200})

DensityRoute == Route(TRUE, Versioned, <<"bucket">>, DensityReads, {}, {200})

SearchRoute ==
  Route(FALSE, AnyRoute \o <<"system", "allow_system", "q", "bbox", "limit">>,
        <<>>, SearchReads, {}, {200})

\* The configuration is in memory.
ConfigRoute == Route(FALSE, Versioned, <<>>, <<>>, {}, {200})

\* The dispatch of createControlPlaneHandler, by kind of path.
Routes ==
  [composite |-> CompositeRoute, episodes |-> EpisodesRoute,
   policy_moves |-> PolicyMovesRoute, snapshot |-> SnapshotRoute,
   detail |-> DetailRoute, series |-> SeriesRoute, drawer |-> DrawerRoute,
   timeline |-> TimelineRoute, density |-> DensityRoute,
   search |-> SearchRoute, config |-> ConfigRoute]

RouteNames == DOMAIN Routes

StatusOf(check) ==
  CASE check = "method" -> 405 [] check = "path" -> 404 [] OTHER -> 400

Fails(checks, flaws) == \E i \in DOMAIN checks : checks[i] \in flaws

\* The answer of the first check in order that the request fails.
Refusal(checks, flaws) ==
  StatusOf(SelectSeq(checks, LAMBDA c : c \in flaws)[1])

=============================================================================
