----------------------------- MODULE MCTraffic -----------------------------
(***************************************************************************)
(* The rate limiter and the memory cache, which every read goes through,   *)
(* on small instances.  They share no state, so a behaviour exercises one  *)
(* of them: `part` says which, from the start.                             *)
(***************************************************************************)
EXTENDS RateLimiter, MemoryCache

VARIABLE part

TrafficInit ==
  /\ part \in {"limiter", "cache"}
  /\ LimiterInit /\ CacheInit
  /\ part = "limiter" => max_cache_size_ = 3 /\ ttl_ = 1

TrafficNext ==
  /\ UNCHANGED part
  /\ \/ part = "limiter" /\ LimiterNext /\ UNCHANGED cache_vars
     \/ part = "cache" /\ CacheNext /\ UNCHANGED limiter_vars

TrafficSpec == TrafficInit /\ [][TrafficNext]_<<part, limiter_vars, cache_vars>>
=============================================================================
