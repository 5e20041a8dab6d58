------------------------------ MODULE Tagging ------------------------------
(***************************************************************************)
(* What GameLevel::ProcessCollision computes: everybody who stands with a  *)
(* seeker is a seeker.  Module Collision shows that its loops do.          *)
(***************************************************************************)

\* (A variant: the rows alone are compared.)
TaggedByRow(ps) ==
    [j \in DOMAIN ps |->
        [ps[j] EXCEPT !.isSeeker =
            \E i \in DOMAIN ps : ps[i].isSeeker /\ ps[i].position.y = ps[j].position.y]]

Tagged(ps) ==
    [j \in DOMAIN ps |->
        [ps[j] EXCEPT !.isSeeker =
            \E i \in DOMAIN ps : ps[i].isSeeker /\ ps[i].position = ps[j].position]]
=============================================================================
