------------------------------ MODULE MCPaths ------------------------------
EXTENDS Paths

CONSTANTS a, b

TwoNodes == {a, b}
None == [n \in TwoNodes |-> 0]
OneOfA == [n \in TwoNodes |-> IF n = a THEN 1 ELSE 0]
NoThread == [n \in TwoNodes |-> {}]

\* A session in use whose direct path dies or comes back.
InUse(u) == [up |-> u, established |-> TRUE, closes |-> FALSE,
             silences |-> TRUE, hidden |-> {}, away |-> {}, slow |-> NoThread,
             flaps |-> 1, regFlaps |-> 0, resets |-> None, dials |-> None]
\* First contact over a working direct path.
Meet == [up |-> TRUE, established |-> FALSE, closes |-> TRUE,
         silences |-> FALSE, hidden |-> {}, away |-> {}, slow |-> NoThread,
         flaps |-> 0, regFlaps |-> 0, resets |-> None, dials |-> OneOfA]
\* First contact over the relay, with a path reset and a registry that may
\* stop answering, then close and be reaped; b is relay-only.
Relayed == [up |-> FALSE, established |-> FALSE, closes |-> TRUE,
            silences |-> FALSE, hidden |-> {b}, away |-> {}, slow |-> NoThread,
            flaps |-> 0, regFlaps |-> 1, resets |-> OneOfA, dials |-> OneOfA]
\* The same with an end of a dial that is overtaken, and with key exchanges and
\* path resets that overtake one another.
DialRaces == [Relayed EXCEPT !.hidden = {}, !.closes = FALSE, !.slow[a] = {"dial"}]
ResetRaces == [Relayed EXCEPT !.closes = FALSE, !.regFlaps = 0,
                              !.slow[a] = {"reset", "install"}]
\* The peer is not running.
Alone == [Meet EXCEPT !.away = {b}, !.resets = OneOfA]

All == {Alone, InUse(TRUE), InUse(FALSE), Meet, Relayed, DialRaces, ResetRaces}
============================================================================
