---------------------------- MODULE MCNodeRoutes ----------------------------
(* NodeRoutes with few frames, threads and addresses. *)
EXTENDS NodeRoutes, TLC

CONSTANTS a, b, c, o, t1, t2

(* RREQs of c over one of its neighbours and of o, whose route changes less *)
(* often, over the other; RREPs and RERRs for c over both, with numbers of  *)
(* which one is newer.                                                      *)
MCRreqs == [from : {b}, orig : {c}, dest : {o}, seq : {1, 2}, metric : {0}]
      \cup [from : {a}, orig : {o}, dest : {c}, seq : {1}, metric : {0}]
MCRreps == [from : {a, b}, orig : {o}, dest : {c}, seq : {1, 2}, metric : {0}]
MCRerrs == [from : {a, b}, orig : {o}, dest : {c}, seq : {1, 2}, metric : {0}]

Threads == Permutations({t1, t2})
=============================================================================
