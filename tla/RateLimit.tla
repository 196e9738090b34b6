----------------------------- MODULE RateLimit -----------------------------
(***************************************************************************)
(* The two fixed-window limiters (ratelimit.py), as functions from their   *)
(* counters.  In memory a key's window starts at its first hit; in Redis   *)
(* the windows are those of the clock, and the bucket is part of the key.  *)
(***************************************************************************)
EXTENDS Integers, FiniteSets

CONSTANTS Limit, Window,
          MaxKeys   \* past this many keys, windows that have elapsed are dropped
ASSUME LimitsAssumption == Limit \in Nat \ {0} /\ Window \in Nat \ {0} /\ MaxKeys \in Nat

Elapsed(window, now) == now - window.start >= Window

\* A plausible mistake: every window is dropped, elapsed or not.
PrunedOfAll(windows, now) == IF Cardinality(DOMAIN windows) > MaxKeys THEN <<>> ELSE windows

\* The counter of a key becomes this.
With(counters, key, value) ==
    [k \in DOMAIN counters \cup {key} |-> IF k = key THEN value ELSE counters[k]]

Pruned(windows, now) ==
    IF Cardinality(DOMAIN windows) > MaxKeys
    THEN [key \in {k \in DOMAIN windows : ~Elapsed(windows[k], now)} |-> windows[key]]
    ELSE windows

CountInMemory(windows, key, now) ==
    LET kept == Pruned(windows, now)
        fresh == key \notin DOMAIN kept \/ Elapsed(kept[key], now)
    IN  With(kept, key, IF fresh THEN [start |-> now, count |-> 1]
                        ELSE [kept[key] EXCEPT !.count = @ + 1])

Bucket(key, now) == <<key, now \div Window>>

CountInRedis(counters, key, now) ==
    LET bucket == Bucket(key, now)
    IN  With(counters, bucket, IF bucket \in DOMAIN counters THEN counters[bucket] + 1 ELSE 1)
=============================================================================
