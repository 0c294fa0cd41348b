---------------------------- MODULE CommandFrame ----------------------------
(***************************************************************************)
(* What all commands on keys share: the database they work on, the check   *)
(* of their keys' types, the deletion of expired keys and the reply        *)
(* (Command::executeEndToEnd), and the commands' names                     *)
(* (Command::createCommand).                                               *)
(*                                                                         *)
(* Commands that do the same to the KeyMap and to the presence of values   *)
(* share an action, which bears the name of one of them.  Commands names   *)
(* the actions of an instance.                                             *)
(***************************************************************************)
EXTENDS KeyMap, FiniteSets

CONSTANT Commands   \* the commands that clients send

StringCommands ==
    {"SET", "SETNX", "MSET", "MSETNX", "APPEND", "SETRANGE", "BITOP", "GET",
     "INCR", "MGET"}
ListCommands == {"LPUSH", "LPUSHX", "LPOP", "LREM", "LLEN", "LSET", "RPOPLPUSH", "BLPOP",
                 "BRPOPLPUSH"}
SetCommands == {"SADD", "SREM", "SPOP", "SCARD", "SMEMBERS", "SUNION", "SUNIONSTORE",
                "SINTERSTORE", "SDIFFSTORE", "SMOVE", "SRANDMEMBER"}
HashCommands == {"HSET", "HMSET", "HGET", "HDEL", "HSCAN"}
HLLCommands == {"PFADD", "PFCOUNT", "PFMERGE"}
SortedSetCommands == {"ZADD", "ZINCRBY", "ZRANGE", "ZREM", "ZUNIONSTORE", "ZINTERSTORE", "ZSCAN"}
KeyCommands == {"DEL", "EXISTS", "TYPE", "TTL", "EXPIRE", "PERSIST", "RENAME", "KEYS", "SCAN",
                "RANDOMKEY", "SORT"}
ServerCommands == {"FLUSHDB", "FLUSHALL", "DBSIZE"}

AllCommands ==
    StringCommands \cup ListCommands \cup SetCommands \cup HashCommands \cup HLLCommands
        \cup SortedSetCommands \cup KeyCommands \cup ServerCommands

ASSUME CommandsAssumption == Commands \subseteq AllCommands

VARIABLES
    db,      \* the database
    reply    \* the last command and how it was answered

vars == <<db, reply>>

\* "nil" also stands for zero and for an empty array, "value" for everything but an error.
Reply == [cmd : AllCommands \cup {"none"},
          kind : {"none", "value", "nil", "wrongtype", "pending"}]

NoReply == [cmd |-> "none", kind |-> "none"]

TypeOK ==
    /\ db \in Db
    /\ reply \in Reply

Init ==
    /\ db = EmptyDb
    /\ reply = NoReply

-----------------------------------------------------------------------------
(* The frame of a command.                                                 *)

Answer(c, kind) == reply' = [cmd |-> c, kind |-> kind]

\* EWrongKeyType from executeEndToEnd.  Nothing has been touched by then, and
\* in particular expired keys of the wrong type have not been deleted.
Refuse(c, ks, t) ==
    /\ ~Matches(db, ks, t)
    /\ Answer(c, "wrongtype")
    /\ UNCHANGED db

\* The execute of a read: it answers by what it finds and changes nothing.
Look(c, t, k, d) ==
    /\ db' = d
    /\ Answer(c, IF Exists(d, t, k) THEN "value" ELSE "nil")

\* A command on one key that only looks.
Read(c, t, k) ==
    /\ c \in Commands
    /\ \/ Refuse(c, {k}, t)
       \/ \E d \in Prepared(db, {k}, t) : Look(c, t, k, d)

-----------------------------------------------------------------------------
(* What the commands on containers share.                                  *)

\* Looking a key up in a map with operator[] creates the entry it misses.
Touched(d, t, ks) ==
    [d EXCEPT !.at[t] =
        [k \in Keys |-> IF k \in ks /\ @[k] = "absent" THEN "empty" ELSE @[k]]]

HasElements(d, t, k) == d.at[t][k] = "some"

\* Mutant of DelIfGone: the event of the removal is not fired.
KeepItem(d, t, k) == d

\* The event of a command that has removed the last element, or thinks so.
DelIfGone(d, t, k) == IF Exists(d, t, k) THEN d ELSE Notify(d, "del", k)

-----------------------------------------------------------------------------
(* What the KeyMap is to be.                                               *)

\* The KeyMap knows a key exactly when one map holds a value for it, and that
\* map is the one of its type.
Agrees(d) ==
    \A k \in Keys, t \in Types :
        d.at[t][k] = IF d.km[k].type = t THEN "some" ELSE "absent"

\* Every key that the KeyMap knows is in the map of its type.
Backed(d) == \A k \in Keys : Tracked(d, k) => Exists(d, d.km[k].type, k)

\* The commands that may part the KeyMap and the maps.  APPEND, SETRANGE, BITOP
\* and ZINCRBY create values behind the KeyMap's back, RPOPLPUSH a list; BLPOP,
\* LREM and ZREM empty containers; HDEL makes the KeyMap forget a hash that is
\* still there; SMOVE leaves an empty set; and the rest create empty containers
\* by looking at them, HMSET and PFMERGE when they fail.
PartingCommands ==
    {"APPEND", "SETRANGE", "BITOP",
     "BLPOP", "LREM", "RPOPLPUSH",
     "SMEMBERS", "SUNION", "SUNIONSTORE", "SINTERSTORE", "SDIFFSTORE", "SMOVE",
     "HMSET", "HGET", "HDEL",
     "PFCOUNT", "PFMERGE",
     "ZINCRBY", "ZRANGE", "ZREM", "ZUNIONSTORE", "ZINTERSTORE"}

\* The commands that leave a known key without a value: BLPOP pops the last
\* element without an event, SMOVE announces a destination that it did not make.
PhantomCommands == {"BLPOP", "SMOVE"}
=============================================================================
