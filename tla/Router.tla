-------------------------------- MODULE Router --------------------------------
(***************************************************************************)
(* The router (src/server/router.cc): the routes of a method in the order  *)
(* in which they were added; the first that matches the path of a request  *)
(* handles it.  A path is a sequence of fragments.  A fragment of a route  *)
(* is a record: kind "fixed" with its text, "parameter" with its name and  *)
(* whether it is optional, or "splat".                                     *)
(***************************************************************************)
EXTENDS Naturals, Sequences

CONSTANTS
    Routes,     \* Routes[method]: a sequence of routes
    NotFound

Fixed(text) == [kind |-> "fixed", text |-> text, optional |-> FALSE]
Parameter(name) == [kind |-> "parameter", text |-> name, optional |-> FALSE]
OptionalParameter(name) == [kind |-> "parameter", text |-> name, optional |-> TRUE]
Splat == [kind |-> "splat", text |-> "*", optional |-> FALSE]

Fragment ==
    [kind : {"fixed", "parameter", "splat"}, text : STRING, optional : BOOLEAN]

FragmentMatches(f, text) == f.kind = "fixed" => f.text = text

(* Mutant: a path that is longer than the route matches it.                *)
Match_Prefix(route, path) ==
    \A i \in DOMAIN route :
        IF i > Len(path) THEN route[i].optional ELSE FragmentMatches(route[i], path[i])

(* Route::match.                                                           *)
Match(route, path) ==
    /\ Len(path) <= Len(route)
    /\ \A i \in DOMAIN route :
          IF i > Len(path) THEN route[i].optional ELSE FragmentMatches(route[i], path[i])

(* Router::route: the index of the route, or NotFound.                     *)
Route(method, path) ==
    LET found == {i \in DOMAIN Routes[method] : Match(Routes[method][i], path)}
    IN  IF found = {} THEN NotFound ELSE CHOOSE i \in found : \A j \in found : i <= j
===============================================================================
