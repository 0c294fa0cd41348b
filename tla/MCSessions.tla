----------------------------- MODULE MCSessions -----------------------------
(***************************************************************************)
(* Sessions with two clients, and the commands of its runs.                *)
(***************************************************************************)
EXTENDS Sessions

Symmetry == Permutations(Clients) \cup Permutations(Keys)

Transactions == {"LPUSH", "LPOP", "WATCH", "UNWATCH", "MULTI", "EXEC", "DISCARD", "SELECT"}
BlockingLists == {"LPUSH", "RPOPLPUSH", "BLPOP", "BRPOPLPUSH", "MULTI", "EXEC"}
Subscriptions == BlockingLists \cup {"WATCH", "UNWATCH"}
LostWakeups == {"LPUSH", "RPOPLPUSH", "BLPOP"}
NestedMulti == {"LPUSH", "MULTI", "EXEC"}
=============================================================================
