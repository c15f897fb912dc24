------------------------------- MODULE MCClub -------------------------------
(* Values for model checking Club: two users who do all there is to do, and *)
(* a third whom a squad may take in.                                        *)
EXTENDS Club, TLC

CONSTANT MCThird

MCSymmetry == Permutations(Users \ {MCThird}) \cup Permutations(Teams)
                \cup Permutations(Workers) \cup Permutations(Scores)

(* Where the third user has a part in something. *)
MCThirdTakesPart ==
    \/ \E t \in Teams : IsCaptain(t, MCThird) \/ MCThird \in Members(t)
    \/ \E w \in Workers : MCThird \in {req[w].user, req[w].actor}
    \/ \E f \in Fixtures : Filed(f) /\ matches[f].reportedBy = MCThird
    \/ Announced /\ cup.organizer = MCThird

(* Results and brackets meet only in the teams they belong to: they are     *)
(* explored one at a time, each with what happens to the teams.  A bracket  *)
(* asks who the captains are and never for the roster, so players come and  *)
(* go before it.  The third user, with whom a squad is overrun, is met with *)
(* one team alone.                                                          *)
MCOneStory ==
    LET ops == {req[w].op : w \in Workers}
        results == "report" \in ops \/ \E f \in Fixtures : Filed(f) IN
        /\ Announced => ~results /\ ops \cap {"add", "remove"} = {}
        /\ MCThirdTakesPart => /\ ~Announced /\ ~results
                               /\ Cardinality({t \in Teams : Founded(t)}) = 1
=============================================================================
