------------------------------ MODULE MCPoller ------------------------------
(* Two queries; all issues belong to the last one.                          *)
EXTENDS Poller
MCQueryOf == [i \in Issues |-> QueryCount]
=============================================================================
