---------------------------- MODULE MCBasicsSync ----------------------------
(* Two calls of the routers' service, each forced or not, and DELETE /cache. *)
EXTENDS BasicsSync
CONSTANTS r1, r2, routers, multi

MCServiceOf == [r \in Runs |-> routers]
MCJobOf == [s \in Services |-> multi]
=============================================================================
