------------------------------ MODULE Requests ------------------------------
(***************************************************************************)
(* The requests the server handles and the routes they address.  A request *)
(* stands for one run of a handler goroutine: net/http starts one goroutine*)
(* per request, so finitely many are alive at any moment.                  *)
(***************************************************************************)
EXTENDS Naturals, FiniteSets

CONSTANTS Request, Route

ASSUME RequestAssumption == IsFiniteSet(Request)
=============================================================================
