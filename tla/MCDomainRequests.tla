-------------------------- MODULE MCDomainRequests --------------------------
(* DomainRequests with a few threads that call request() for one domain.   *)
EXTENDS DomainRequests

CONSTANTS t1, t2
=============================================================================
