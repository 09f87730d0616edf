-------------------------------- MODULE Shop --------------------------------
(***************************************************************************)
(* What players may rely on when they spend their gold: whatever is bought, *)
(* sold or upgraded, gold and goods change together and by the right        *)
(* amount, only the owner of a minion gets anything for it, and nobody else *)
(* touches a player's gold.  The gold of a polite player is a number that   *)
(* never wraps, and every coin that leaves it was there; the others may     *)
(* name prices that are no ints and buy upgrades on credit, and what their  *)
(* balance then is, the arithmetic of int decides.  Board implements it     *)
(* with tiles, rooms, a command queue and workers.                          *)
(***************************************************************************)
EXTENDS Gold

CONSTANTS
  Players,
  Polite,    \* the players this promises most
  Rooms,     \* where minions stand
  Ids,       \* their names in a room
  Amounts,   \* what else may be spent at once, as the ints they become
  Rewards,   \* what may be earned at once
  Start,     \* gold of a new player
  Cost,      \* price of a minion, and what it is sold for
  Price,     \* price of an upgrade
  MaxLevel

VARIABLES
  gold,   \* what each player has
  owned   \* the minions there are, <<room, id>> :> [owner, level]

vars == <<gold, owned>>

Minions == Rooms \X Ids

Init ==
  /\ gold = [p \in Players |-> Start]
  /\ owned = [m \in {} |-> {}]

\* What p has after a payment of n to him.
Balance(p, n) == IF p \in Polite THEN gold[p] + n ELSE ToInt(gold[p] + n)

Get(p, amount) == gold' = [gold EXCEPT ![p] = Balance(p, amount)]

Spend(p, amount) == gold[p] >= amount /\ Get(p, -amount)

Buy(p, m) ==
  /\ m \notin DOMAIN owned
  /\ Spend(p, Cost)
  /\ owned' = [n \in DOMAIN owned \cup {m} |->
                 IF n = m THEN [owner |-> p, level |-> 0] ELSE owned[n]]

Sell(m) ==
  /\ m \in DOMAIN owned
  /\ Get(owned[m].owner, Cost)
  /\ owned' = [n \in DOMAIN owned \ {m} |-> owned[n]]

Upgrade(m) ==
  /\ m \in DOMAIN owned
  /\ owned[m].level < MaxLevel
  /\ owned[m].owner \in Polite => gold[owned[m].owner] >= Price
  /\ Get(owned[m].owner, -Price)
  /\ owned' = [owned EXCEPT ![m].level = @ + 1]

\* Gold for something that is not a minion.
Use(p, amount) ==
  /\ p \in Polite => amount >= 0
  /\ Spend(p, amount)
  /\ UNCHANGED owned

\* A reward for some players.
Earn(S, amount) ==
  /\ gold' = [p \in Players |-> IF p \in S THEN Balance(p, amount) ELSE gold[p]]
  /\ UNCHANGED owned

\* The stage of a room ends and takes its minions with it.
Lose(r) ==
  /\ owned' = [n \in {m \in DOMAIN owned : m[1] # r} |-> owned[n]]
  /\ UNCHANGED gold

Next ==
  \/ \E p \in Players, m \in Minions : Buy(p, m)
  \/ \E m \in Minions : Sell(m) \/ Upgrade(m)
  \/ \E p \in Players, amount \in Amounts : Use(p, amount)
  \/ \E S \in SUBSET Players, amount \in Rewards : Earn(S, amount)
  \/ \E r \in Rooms : Lose(r)

Spec == Init /\ [][Next]_vars

=============================================================================
