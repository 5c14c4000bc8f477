------------------------------ MODULE LiveFeed ------------------------------
(***************************************************************************)
(* What a reader of live traffic is promised, without Charles, exports,    *)
(* generations, cursors or rows: each open feed knows the newest content   *)
(* of its entries, and every new content waits, once and in order of       *)
(* arrival, until it is delivered.  This is an abstract specification that *)
(* LiveManager is shown to implement (LiveFeedRefinement).                 *)
(***************************************************************************)
EXTENDS Naturals, Sequences, FiniteSets

VARIABLES
  content,  \* for each open feed, the stamp of the newest content by entry
  waiting   \* for each open feed, the entries to deliver, oldest first

feedVars == <<content, waiting>>

Nothing == [id \in {} |-> 0]

Members(queue) == {queue[k] : k \in 1..Len(queue)}

(* Every order in which the elements of S may arrive. *)
Arrivals(S) ==
  {f \in [1..Cardinality(S) -> S] : \A x \in S : \E k \in 1..Cardinality(S) : f[k] = x}

(* Entries are never forgotten and their content only gets newer. *)
Newer(old, new) ==
  \A id \in DOMAIN old : id \in DOMAIN new /\ new[id] >= old[id]

News(old, new) == {id \in DOMAIN new : id \notin DOMAIN old \/ new[id] # old[id]}

(* The new queue is the old one with the news that did not wait yet added  *)
(* at the end, and some of its front delivered.                            *)
QueueFollows(queue, queue2, news) ==
  \E arrived \in Arrivals(news \ Members(queue)) :
    LET all == queue \o arrived IN
    \E k \in 0..Len(all) : queue2 = SubSeq(all, k + 1, Len(all))

(* r's feed is updated, and some of what waits is delivered. *)
Serve(r) ==
  /\ r \in DOMAIN content
  /\ DOMAIN content' = DOMAIN content
  /\ DOMAIN waiting' = DOMAIN content
  /\ Newer(content[r], content'[r])
  /\ QueueFollows(waiting[r], waiting'[r], News(content[r], content'[r]))
  /\ \A q \in DOMAIN content \ {r} : content'[q] = content[q] /\ waiting'[q] = waiting[q]

(* A feed opens with all it finds waiting. *)
Open(r) ==
  /\ r \notin DOMAIN content
  /\ DOMAIN content' = DOMAIN content \cup {r}
  /\ DOMAIN waiting' = DOMAIN content'
  /\ waiting'[r] \in Arrivals(DOMAIN content'[r])
  /\ \A q \in DOMAIN content : content'[q] = content[q] /\ waiting'[q] = waiting[q]

(* Feeds end: stopped by their readers, expired, or with the process. *)
End ==
  /\ DOMAIN content' \subseteq DOMAIN content
  /\ content' = [q \in DOMAIN content' |-> content[q]]
  /\ waiting' = [q \in DOMAIN content' |-> waiting[q]]

Init == content = <<>> /\ waiting = <<>>

Next ==
  \/ \E r \in DOMAIN content' : Open(r) \/ Serve(r)
  \/ End

Spec == Init /\ [][Next]_feedVars
=============================================================================
