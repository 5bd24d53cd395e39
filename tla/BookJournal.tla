---------------------------- MODULE BookJournal ----------------------------
(***************************************************************************)
(* What an order book promises its users (spec §3, §4.3), with no levels,  *)
(* no sorting and no trimming: a set of live orders under fresh, ascending *)
(* ids, changed only by add, delete, execute (partial or full) and replace *)
(* (delete plus add under a fresh id, same side).  Every change is one an  *)
(* ITCH message can announce.                                              *)
(***************************************************************************)
EXTENDS Integers, Functions

CONSTANTS Ids, OrderValues

VARIABLES live, lastId

Put(f, k, v) == [x \in DOMAIN f \cup {k} |-> IF x = k THEN v ELSE f[x]]
Cut(f, k) == [x \in DOMAIN f \ {k} |-> f[x]]

Fresh(id) == id \in Ids /\ id > lastId

Add ==
  \E id \in Ids, o \in OrderValues :
    /\ Fresh(id)
    /\ live' = Put(live, id, o)
    /\ lastId' = id

Delete ==
  \E id \in DOMAIN live :
    /\ live' = Cut(live, id)
    /\ UNCHANGED lastId

\* An execution takes k shares, 0 < k <= shares; the order leaves the book
\* when it has none left.
Execute ==
  \E id \in DOMAIN live : \E k \in 1..live[id].shares :
    /\ live' = IF k = live[id].shares THEN Cut(live, id)
               ELSE [live EXCEPT ![id].shares = @ - k]
    /\ UNCHANGED lastId

Replace ==
  \E old \in DOMAIN live, new \in Ids, o \in OrderValues :
    /\ Fresh(new)
    /\ o.side = live[old].side
    /\ live' = Put(Cut(live, old), new, o)
    /\ lastId' = new

\* Initialize announces its orders one add at a time; as one step it adds
\* a whole batch of fresh ids to an empty book.  (Stated on the new state,
\* so that checking a step does not enumerate every possible batch.)
AddBatch ==
  /\ DOMAIN live = {}
  /\ lastId' \in Ids /\ lastId' > lastId + 1
  /\ DOMAIN live' = (lastId + 1)..lastId'
  /\ \A id \in DOMAIN live' : live'[id] \in OrderValues

Init == live = [x \in {} |-> {}] /\ lastId = 0

Next == Add \/ Delete \/ Execute \/ Replace \/ AddBatch

Spec == Init /\ [][Next]_<<live, lastId>>

=============================================================================
