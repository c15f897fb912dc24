-------------------------------- MODULE Game --------------------------------
(***************************************************************************)
(* What a call on the find-a-player board promises, whatever transactions  *)
(* it is made of: who plays is a set of players, changed by one act at a   *)
(* time.  A place is given only while the game is open and has one, and    *)
(* only to somebody who asked for it; the game closes with its last place  *)
(* and reopens when a player leaves.                                       *)
(***************************************************************************)
EXTENDS Integers, FiniteSets

CONSTANTS People, Sizes

VARIABLES
    state,         \* "none", "open", "full" or "over"
    places,        \* how many may play, 0 when there is no game
    asked, team    \* who waits for an answer, and who plays

vars == <<state, places, asked, team>>

(* The state of the game when it is played by who. *)
Seated(who) == IF state = "over" THEN "over"
               ELSE IF Cardinality(who) >= places THEN "full" ELSE "open"

Init ==
    /\ \/ state = "none" /\ places = 0
       \/ state = "open" /\ places \in Sizes
    /\ asked = {} /\ team = {}

Announce(n) ==
    /\ state = "none"
    /\ state' = "open" /\ places' = n
    /\ UNCHANGED <<asked, team>>

Ask(u) ==
    /\ state # "none" /\ u \notin asked \cup team
    /\ asked' = asked \cup {u}
    /\ UNCHANGED <<state, places, team>>

Take(u) ==
    /\ state = "open" /\ Cardinality(team) < places /\ u \in asked
    /\ asked' = asked \ {u} /\ team' = team \cup {u}
    /\ state' = Seated(team')
    /\ UNCHANGED places

Unask(u) ==
    /\ u \in asked
    /\ asked' = asked \ {u}
    /\ UNCHANGED <<state, places, team>>

Leave(u) ==
    /\ u \in team
    /\ team' = team \ {u}
    /\ state' = Seated(team')
    /\ UNCHANGED <<places, asked>>

(* The game is not reopened or closed by it. *)
Resize(n) ==
    /\ state # "none"
    /\ places' = n
    /\ UNCHANGED <<state, asked, team>>
    /\ Cardinality(team) <= n

End ==
    /\ state # "none"
    /\ state' = "over"
    /\ UNCHANGED <<places, asked, team>>

Delete == state' = "none" /\ places' = 0 /\ asked' = {} /\ team' = {}

Next ==
    \/ \E n \in Sizes : Announce(n) \/ Resize(n)
    \/ \E u \in People : Ask(u) \/ Take(u) \/ Unask(u) \/ Leave(u)
    \/ End \/ Delete

Spec == Init /\ [][Next]_vars
=============================================================================
