-------------------------------- MODULE Server --------------------------------
(***************************************************************************)
(* The HTTP server of backend_api.py, as its two models see it: threads    *)
(* that each serve one request, and the bounds on requests and errors.     *)
(***************************************************************************)
EXTENDS Integers, Sequences, FiniteSets

CONSTANTS Threads,      \* requests that may be in flight together
          MaxRequests,  \* bound: requests served
          MaxFaults     \* bound: statements that fail or time out

VARIABLES
  job,                  \* the request each thread serves, with its local variables
  requests, faults      \* what the bounds count
=============================================================================
