---------------------------- MODULE InformerCache ----------------------------
(***************************************************************************)
(* An API object as the controller meets it: the sequence of its versions, *)
(* from the one the informer cache holds to the one the API server holds.  *)
(* A watch event moves the cache one version on.                           *)
(***************************************************************************)
EXTENDS Sequences

Stored(obj) == obj[Len(obj)]
Cached(obj) == Head(obj)
InSync(obj) == Len(obj) = 1

=============================================================================
