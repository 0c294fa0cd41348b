----------------------------- MODULE MCKeySpace -----------------------------
(***************************************************************************)
(* KeySpace with two keys, and the sets of commands of its runs.           *)
(***************************************************************************)
EXTENDS KeySpace, TLC

KeySymmetry == Permutations(Keys)

\* No action reads the reply: states that differ in it alone are the same.
DbView == db

ContainerCommands == HashCommands \cup HLLCommands \cup SortedSetCommands

\* Strings with timeouts, lists, sets, keys of any type and the server.
BasicCommands == AllCommands \ ContainerCommands

\* Hashes, HyperLogLogs and sorted sets, with strings that come and go.
WithContainers == ContainerCommands \cup {"SET", "GET", "DEL", "EXISTS", "FLUSHDB"}

\* DEL on keys of two types.
DelOnly == {"SET", "LPUSH", "DEL"}
=============================================================================
