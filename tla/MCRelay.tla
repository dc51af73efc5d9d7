------------------------------ MODULE MCRelay ------------------------------
EXTENDS Relay

CONSTANTS a, b, x, r1, r2

As(ka, kb, kx, rx) ==
    [e \in {a, b, x} |->
        [kind |-> CASE e = a -> ka [] e = b -> kb [] OTHER -> kx,
         room |-> IF e = x THEN rx ELSE r1]]

MCEnds == {a, b, x}
MCRooms == {r1, r2}
MCScenarios ==
    {As("computer", "computer", "computer", r2),
     As("owner", "phone", "owner", r2),
     As("owner", "phone", "computer", r1)}
=============================================================================
