--------------------------- MODULE MCModelRouting --------------------------
(* ModelRouting on a small instance: a streamed and another call of one    *)
(* endpoint, and one call of two, in order or all at once.                 *)
EXTENDS ModelRouting

CONSTANTS c1, c2

Two == [size |-> 1, concurrent |-> FALSE, anthropic |-> FALSE,
        calls |-> {c1, c2}, streamed |-> {c1}]
One == [Two EXCEPT !.size = 2, !.calls = {c1}]
Parallel == [One EXCEPT !.concurrent = TRUE]
MCRoutes ==
    {Two, One, [One EXCEPT !.streamed = {}], [One EXCEPT !.anthropic = TRUE],
     [Parallel EXCEPT !.anthropic = TRUE], [Parallel EXCEPT !.streamed = {}]}

Serving(kinds, place, hint) == [kinds |-> kinds, place |-> place, hint |-> hint]
MCUpstreams ==
    {Serving({"chat", "stream"}, "v1", FALSE), Serving({"stream"}, "bare", FALSE),
     Serving({"chat"}, "v1", FALSE), Serving({"responses"}, "v1", TRUE),
     Serving({"responses"}, "v1", FALSE)}
=============================================================================
