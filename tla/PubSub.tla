------------------------------- MODULE PubSub -------------------------------
(***************************************************************************)
(* Publish/subscribe on one database (PubSubCmds.cpp, PubSubMap.cpp): the  *)
(* worker executes the commands, and delivers a message in many steps,     *)
(* between which the I/O thread lets sessions come and go.                 *)
(*                                                                         *)
(* Subscriptions name a session by an id that is drawn at random: a        *)
(* session that connects may get the id of one that is gone, and inherits  *)
(* its subscriptions.  All publishes are on one channel, to which Match    *)
(* says how each name compares.                                            *)
(***************************************************************************)
EXTENDS Naturals, SequencesExt

CONSTANTS
    Sids,         \* the ids of sessions
    Names,        \* what clients subscribe to: channels and patterns
    Match,        \* Match[n]: the outcomes of checkPubSubPattern for the channel and n
    MaxEntries    \* bound: the subscriptions that are held at a time

\* "throws" is a regular expression that is refused, "hangs" one whose question
\* mark the replacement loop finds for ever.
ASSUME MatchAssumption == Match \in [Names -> SUBSET {"yes", "no", "throws", "hangs"}]
ASSUME NamesAssumption == IsFiniteSet(Names)
ASSUME MaxEntriesAssumption == MaxEntries \in Nat

VARIABLES
    connected,    \* the ids of the sessions in mSessions
    subscribers,  \* mSubscrMap: the ids under each name
    known,        \* the names it has an element for, which it never erases
    patterns,     \* those last subscribed to by PSUBSCRIBE
    worker,       \* what the worker is doing
    history       \* of a publish: the ids that were connected, and those that were
                  \* not, ever since it began, and the messages each id got from it

map == <<subscribers, known, patterns>>
vars == <<connected, map, worker, history>>

Entry == [name : Names, pattern : BOOLEAN, sid : Sids]

\* at: waiting for a request, serving one of client, in the loop of PUBLISH, with
\* a reference to the session it is about to write to, with one that dangles; for
\* ever in a match; or gone with the process.
Worker ==
    [at : {"idle", "serving", "loop", "writing", "dangling", "hung", "crashed"},
     client : Sids, left : Seq(Entry), num : 0 .. MaxEntries]

\* The entries of the lists, by name and place.
Held == UNION {{<<n, i>> : i \in DOMAIN subscribers[n]} : n \in Names}

TypeOK ==
    /\ connected \subseteq Sids
    /\ subscribers \in [Names -> Seq(Sids)]
    /\ known \subseteq Names
    /\ patterns \subseteq known
    /\ worker \in Worker
    /\ history \in [stayed : SUBSET connected, away : SUBSET (Sids \ connected),
                    told : [Sids -> 0 .. MaxEntries]]
    /\ \A n \in Names \ known : subscribers[n] = <<>>

NoHistory == [stayed |-> {}, away |-> {}, told |-> [s \in Sids |-> 0]]

Init ==
    /\ connected = {}
    /\ subscribers = [n \in Names |-> <<>>]
    /\ known = {}
    /\ patterns = {}
    /\ worker \in [at : {"idle"}, client : Sids, left : {<<>>}, num : {0}]
    /\ history = NoHistory

-----------------------------------------------------------------------------
(* The I/O thread.                                                         *)

Connect(s) ==
    /\ s \notin connected
    /\ connected' = connected \cup {s}
    /\ history' = [history EXCEPT !.away = @ \ {s}]
    /\ UNCHANGED <<map, worker>>

\* removeSession destroys the session, even while the worker has a reference to it.
Disconnect(s) ==
    /\ s \in connected
    /\ connected' = connected \ {s}
    /\ history' = [history EXCEPT !.stayed = @ \ {s}]
    /\ worker' = IF worker.at = "writing" /\ Head(worker.left).sid = s
                    THEN [worker EXCEPT !.at = "dangling"]
                    ELSE worker
    /\ UNCHANGED map

-----------------------------------------------------------------------------
(* The worker, between two requests and in the commands that do not wait.  *)

\* executeEndToEnd finds the client's session; it may be gone when the command
\* executes.
Serve(s) ==
    /\ worker.at = "idle"
    /\ s \in connected
    /\ worker' = [worker EXCEPT !.at = "serving", !.client = s]
    /\ UNCHANGED <<connected, map, history>>

Idle == worker' = [worker EXCEPT !.at = "idle", !.left = <<>>]

\* SUBSCRIBE and PSUBSCRIBE: an id may be in a list twice, and the last
\* subscription decides for all whether a name is a pattern.
Subscribe(ns, pattern) ==
    /\ worker.at = "serving"
    /\ Cardinality(Held) + Cardinality(ns) <= MaxEntries
    /\ subscribers' = [n \in Names |-> IF n \in ns THEN Append(subscribers[n], worker.client)
                                                   ELSE subscribers[n]]
    /\ known' = known \cup ns
    /\ patterns' = IF pattern THEN patterns \cup ns ELSE patterns \ ns
    /\ Idle
    /\ UNCHANGED <<connected, history>>

\* Mutant of Forgotten: the whole list goes.
ForgottenAll(ns, s) == [n \in Names |-> IF n \in ns THEN <<>> ELSE subscribers[n]]

\* list::remove, which removes an id as often as it is there.
Without(ids, s) == FlattenSeq([i \in DOMAIN ids |-> IF ids[i] = s THEN <<>> ELSE <<ids[i]>>])

\* removeSubscriber, from the lists of ns.
Forgotten(ns, s) ==
    [n \in Names |-> IF n \in ns THEN Without(subscribers[n], s) ELSE subscribers[n]]

\* UNSUBSCRIBE and PUNSUBSCRIBE of some names or, without any, of all.
Unsubscribe(ns) ==
    /\ worker.at = "serving"
    /\ subscribers' = Forgotten(ns, worker.client)
    /\ Idle
    /\ UNCHANGED <<connected, known, patterns, history>>

-----------------------------------------------------------------------------
(* PUBLISH.                                                                *)

Matching == {n \in known : "yes" \in Match[n]}

\* A name that is no regular expression: nil, whoever has subscribed to it.
PublishThrows ==
    /\ worker.at = "serving"
    /\ \E n \in known : "throws" \in Match[n]
    /\ Idle
    /\ UNCHANGED <<connected, map, history>>

PublishHangs ==
    /\ worker.at = "serving"
    /\ \E n \in known : "hangs" \in Match[n]
    /\ worker' = [worker EXCEPT !.at = "hung"]
    /\ UNCHANGED <<connected, map, history>>

\* The entries of the names of ns, in that order.
Entries(ns) ==
    FlattenSeq([i \in DOMAIN ns |->
        [j \in DOMAIN subscribers[ns[i]] |->
            [name |-> ns[i], pattern |-> ns[i] \in patterns, sid |-> subscribers[ns[i]][j]]]])

\* Mutant of Begun: the number of receivers goes on from the last message.
BegunOn(left) == [worker EXCEPT !.at = "loop", !.left = left]

Begun(left) == [worker EXCEPT !.at = "loop", !.left = left, !.num = 0]

\* getSubscribers copies the lists, in the order of a hash map.
PublishBegins ==
    /\ worker.at = "serving"
    /\ \A n \in known : Match[n] \cap {"yes", "no"} # {}
    /\ \E ns \in SetToSeqs(Matching) : worker' = Begun(Entries(ns))
    /\ history' = [NoHistory EXCEPT !.stayed = connected, !.away = Sids \ connected]
    /\ UNCHANGED <<connected, map>>

\* getClientSession, under the lock of mSessions.
LookupHit ==
    /\ worker.at = "loop"
    /\ worker.left # <<>>
    /\ Head(worker.left).sid \in connected
    /\ worker' = [worker EXCEPT !.at = "writing"]
    /\ UNCHANGED <<connected, map, history>>

\* Mutant of Rest: the loop skips the entry after one that it has removed.
Skipped(left) == IF Len(left) > 1 THEN Tail(Tail(left)) ELSE <<>>

\* Mutant of Rest: the loop stays where it is.
Same(left) == left

\* What is left of the loop once an id was not found.
Rest(left) == Tail(left)

\* EWrongSessionID: the subscription is removed, from the map and not from the copy.
LookupMiss ==
    /\ worker.at = "loop"
    /\ worker.left # <<>>
    /\ Head(worker.left).sid \notin connected
    /\ subscribers' = Forgotten({Head(worker.left).name}, Head(worker.left).sid)
    /\ worker' = [worker EXCEPT !.left = Rest(@)]
    /\ UNCHANGED <<connected, known, patterns, history>>

Write ==
    /\ worker.at = "writing"
    /\ history' = [history EXCEPT !.told[Head(worker.left).sid] = @ + 1]
    /\ worker' = [worker EXCEPT !.at = "loop", !.left = Tail(@), !.num = @ + 1]
    /\ UNCHANGED <<connected, map>>

\* The session was destroyed between the lookup and the write: undefined
\* behaviour, in which the message is lost but counted, or the process ends.
WriteToDestroyed ==
    /\ worker.at = "dangling"
    /\ worker' \in {[worker EXCEPT !.at = "loop", !.left = Tail(@), !.num = @ + 1],
                    [worker EXCEPT !.at = "crashed"]}
    /\ UNCHANGED <<connected, map, history>>

PublishEnds ==
    /\ worker.at = "loop"
    /\ worker.left = <<>>
    /\ Idle
    /\ history' = NoHistory
    /\ UNCHANGED <<connected, map>>

-----------------------------------------------------------------------------

IOThread == \E s \in Sids : Connect(s) \/ Disconnect(s)

Commands ==
    \/ \E ns \in SUBSET Names \ {{}} :
          \/ \E pattern \in BOOLEAN : Subscribe(ns, pattern)
          \/ Unsubscribe(ns)
    \/ PublishThrows
    \/ PublishHangs
    \/ PublishBegins

Delivery == LookupHit \/ LookupMiss \/ Write \/ WriteToDestroyed \/ PublishEnds

Next ==
    /\ worker.at # "crashed"
    /\ \/ IOThread
       \/ \E s \in Sids : Serve(s)
       \/ Commands
       \/ Delivery

Spec == Init /\ [][Next]_vars

\* The worker's thread goes on when it can; clients owe nothing.
FairSpec == Spec /\ WF_vars(Commands) /\ WF_vars(Delivery)

-----------------------------------------------------------------------------
(* Properties.                                                             *)

\* How many messages s is to get for the names of ns.
Due(s, ns) == Cardinality({e \in Held : e[1] \in ns /\ subscribers[e[1]][e[2]] = s})

\* Where the loop has still to come to an entry of s.
LeftFor(s) == {i \in DOMAIN worker.left : worker.left[i].sid = s}

Publishing == worker.at \in {"loop", "writing", "dangling"}

\* A session that stays connected gets the message as often as it has subscribed
\* to a matching name, no matter which others disconnect, or are dropped for it,
\* while the message is delivered; and none of its own subscriptions is dropped.
StayersAreTold ==
    Publishing =>
        \A s \in history.stayed :
            history.told[s] + Cardinality(LeftFor(s)) = Due(s, Matching)

\* A publish forgets, under the names that match, every id that has no session
\* all the while.
TheGoneAreForgotten ==
    Publishing /\ worker.left = <<>> => \A s \in history.away : Due(s, Matching) = 0

\* The worker is done with every command, however sessions come and go, unless it
\* hangs in a match or writes to a session that has been destroyed.
CommandsEnd ==
    worker.at # "idle" ~> worker.at \in {"idle", "hung", "crashed"}
=============================================================================
