------------------------------ MODULE RoomLife ------------------------------
(***************************************************************************)
(* What a room promises to the rest of the server, whoever asks and however *)
(* its ticks compute it: two seats, filled only while it waits for players; *)
(* waves played in order while somebody sits in it; an empty room is as     *)
(* good as new.  Lobby implements it with the handlers spelled out and the  *)
(* tick abstracted, RoomTick with the tick spelled out and the handlers     *)
(* abstracted.                                                              *)
(***************************************************************************)
EXTENDS Naturals, FiniteSets

CONSTANTS
  Players,   \* who may sit in the room
  NumWaves   \* waves of its stage

VARIABLES
  seated,    \* the players in the room
  phase,     \* Room::m_gameState as others see it
  wave       \* the wave being played or played last, 0 before the first

vars == <<seated, phase, wave>>

Init ==
  /\ seated = {}
  /\ phase = "WaitingForPlayers"
  /\ wave = 0

\* A player takes a seat; taking the second one starts the stage.
Join(p) ==
  /\ phase = "WaitingForPlayers"
  /\ Cardinality(seated) < 2
  /\ seated' = seated \cup {p}
  /\ phase' = IF Cardinality(seated') = 2 THEN "Intermission" ELSE phase
  /\ UNCHANGED wave

\* The players of the room start the next wave, or start the one they are in
\* again when it is the last.
StartWave ==
  /\ seated # {}
  /\ phase' = "Wave"
  /\ wave' = IF wave < NumWaves THEN wave + 1 ELSE wave
  /\ UNCHANGED seated

EndWave ==
  /\ phase = "Wave"
  /\ wave < NumWaves
  /\ phase' = "Intermission"
  /\ UNCHANGED <<seated, wave>>

EndStage ==
  /\ phase = "Wave"
  /\ phase' = "WaitingForPlayers"
  /\ wave' = 0
  /\ UNCHANGED seated

\* A player leaves; the last one to leave ends the stage.
Leave(p) ==
  /\ p \in seated
  /\ seated' = seated \ {p}
  /\ \/ seated' # {} /\ UNCHANGED <<phase, wave>>
     \/ seated' = {} /\ phase' = "WaitingForPlayers" /\ wave' = 0

Next ==
  \/ \E p \in Players : Join(p) \/ Leave(p)
  \/ StartWave \/ EndWave \/ EndStage

Spec == Init /\ [][Next]_vars

=============================================================================
