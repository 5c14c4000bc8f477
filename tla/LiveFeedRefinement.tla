------------------------- MODULE LiveFeedRefinement -------------------------
(***************************************************************************)
(* The live captures implement the feed: of the session with its queue     *)
(* that is never popped, cursor, keys, generations and rows a reader sees  *)
(* the entries of an active session and what waits behind its cursor.      *)
(***************************************************************************)
EXTENDS LiveManager

FeedContent ==
  [s \in Active |-> [id \in DOMAIN sessions[s].entries |-> sessions[s].entries[id].ver]]

FeedWaiting ==
  [s \in Active |->
     SubSeq(sessions[s].events, sessions[s].cursor + 1, Len(sessions[s].events))]

Feed == INSTANCE LiveFeed WITH content <- FeedContent, waiting <- FeedWaiting

(* Every step of the manager, of Charles and of its user is one of the     *)
(* feed or leaves it alone: a read delivers the front of the queue with    *)
(* whatever the snapshot it takes has added to the end, a peek delivers    *)
(* nothing, and nothing else delivers or drops an entry of a session that  *)
(* goes on.                                                                *)
ImplementsFeed == Feed!Spec
=============================================================================
