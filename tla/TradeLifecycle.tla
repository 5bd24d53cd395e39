--------------------------- MODULE TradeLifecycle ---------------------------
(***************************************************************************)
(* What the trades collection promises, with no cursor, no cycles, no     *)
(* files and no failures: trades enter stamped with the current time      *)
(* under fresh match numbers, and leave in only two ways, retention       *)
(* dropping everything older than its age, or the archive taking some     *)
(* trades older than the archive age into the archive.                    *)
(***************************************************************************)
EXTENDS Naturals

CONSTANTS MaxAge, RetAge, MaxTime, MaxTrades

VARIABLES now, nextId, trades, archive

Tick ==
  /\ now < MaxTime
  /\ now' = now + 1
  /\ UNCHANGED <<nextId, trades, archive>>

Save ==
  /\ nextId < MaxTrades
  /\ nextId' = nextId + 1
  /\ trades' = trades \cup {[id |-> nextId + 1, at |-> now]}
  /\ UNCHANGED <<now, archive>>

Expire ==
  /\ trades' = {t \in trades : t.at >= now - RetAge}
  /\ UNCHANGED <<now, nextId, archive>>

\* Stated on the new state: the trades that left are all past the archive
\* age, and each of them is now in the archive.
Archive ==
  /\ trades' \subseteq trades
  /\ \A t \in trades \ trades' : t.at < now - MaxAge /\ t \in archive'
  /\ archive \subseteq archive'
  /\ archive' \subseteq archive \cup trades
  /\ UNCHANGED <<now, nextId>>

Init == now = 0 /\ nextId = 0 /\ trades = {} /\ archive = {}

Next == Tick \/ Save \/ Expire \/ Archive

Spec == Init /\ [][Next]_<<now, nextId, trades, archive>>

=============================================================================
