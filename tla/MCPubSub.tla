------------------------------ MODULE MCPubSub ------------------------------
(***************************************************************************)
(* PubSub with a channel, a pattern that matches it, and a name that       *)
(* stands for those that do not match, are no regular expression or hang.  *)
(***************************************************************************)
EXTENDS PubSub

ThreeNames == {"channel", "glob", "other"}

MatchOf ==
    [n \in ThreeNames |-> IF n = "other" THEN {"no", "throws", "hangs"} ELSE {"yes"}]
=============================================================================
