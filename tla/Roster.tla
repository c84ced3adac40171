------------------------------- MODULE Roster -------------------------------
(***************************************************************************)
(* What the server promises its clients about the players: every change of *)
(* a player's life, fuel and resource is broadcast, in the step in which   *)
(* it happens, as one result; a death once in a life.                      *)
(***************************************************************************)
EXTENDS Integers, Sequences, FiniteSets

CONSTANTS
  Id,           \* the players' ids
  DEFAULT_FUEL,
  MaxResource   \* bound on what a player gathers

VARIABLES
  playing,  \* the ids in use
  alive, fuel, resource,
  sent      \* the results broadcast in the last step

vars == <<playing, alive, fuel, resource, sent>>

Result(type, p, n) == [type |-> type, id |-> p, value |-> n]
Results == [ type : {"NEW", "CHARACTER_STATE", "GATHER", "DEAD", "RESPAWN"}, id : Id,
             value : 0 .. (DEFAULT_FUEL + MaxResource) ]

TypeOK ==
  /\ playing \subseteq Id /\ alive \subseteq Id
  /\ fuel \in [Id -> 0 .. DEFAULT_FUEL] /\ resource \in [Id -> 0 .. MaxResource]
  /\ sent \in Seq(Results)

Init ==
  /\ playing = {} /\ alive = Id
  /\ fuel = [p \in Id |-> DEFAULT_FUEL] /\ resource = [p \in Id |-> 0]
  /\ sent = <<>>

(* A player enters on its id as a fresh character, ...                     *)
Join(p) ==
  /\ p \notin playing /\ playing' = playing \cup {p}
  /\ alive' = alive \cup {p}
  /\ fuel' = [fuel EXCEPT ![p] = DEFAULT_FUEL] /\ resource' = [resource EXCEPT ![p] = 0]
  /\ sent' = <<>>

(* ... is made known to everybody, ...                                     *)
Introduce(p) ==
  /\ p \in playing /\ sent' = <<Result("NEW", p, 0)>>
  /\ UNCHANGED <<playing, alive, fuel, resource>>

(* ... and may go away without a word.                                     *)
Leave(p) ==
  /\ p \in playing /\ playing' = playing \ {p} /\ sent' = <<>>
  /\ UNCHANGED <<alive, fuel, resource>>

Spend(p) ==
  /\ p \in playing /\ \E n \in 0 .. fuel[p] : fuel' = [fuel EXCEPT ![p] = n]
  /\ sent' = <<Result("CHARACTER_STATE", p, fuel'[p])>>
  /\ UNCHANGED <<playing, alive, resource>>

Gather(p) ==
  /\ p \in playing
  /\ \E n \in resource[p] .. MaxResource : resource' = [resource EXCEPT ![p] = n]
  /\ sent' = <<Result("GATHER", p, resource'[p])>>
  /\ UNCHANGED <<playing, alive, fuel>>

(* The ids of S in order.                                                  *)
Ascending(S) ==
  {order \in [1 .. Cardinality(S) -> S] :
     \A i, j \in DOMAIN order : i < j => order[i] < order[j]}

(* Players die; each death is announced once, in the order of the ids.     *)
Die(S) ==
  /\ S \subseteq playing \cap alive /\ alive' = alive \ S
  /\ \E order \in Ascending(S) :
       sent' = [i \in DOMAIN order |-> Result("DEAD", order[i], 0)]
  /\ UNCHANGED <<playing, fuel, resource>>

(* A player starts anew, whether or not it was dead.                       *)
Respawn(p) ==
  /\ p \in playing /\ alive' = alive \cup {p}
  /\ fuel' = [fuel EXCEPT ![p] = DEFAULT_FUEL] /\ resource' = [resource EXCEPT ![p] = 0]
  /\ sent' = <<Result("RESPAWN", p, 0)>>
  /\ UNCHANGED playing

(* Everything else is silent as far as the roster goes.                    *)
Quiet == sent' = <<>> /\ UNCHANGED <<playing, alive, fuel, resource>>

Next ==
  \/ \E p \in Id : \/ Join(p) \/ Introduce(p) \/ Leave(p)
                   \/ Spend(p) \/ Gather(p) \/ Respawn(p)
  \/ \E S \in SUBSET Id : Die(S)
  \/ Quiet

Spec == Init /\ [][Next]_vars
=============================================================================
