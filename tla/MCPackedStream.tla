--------------------------- MODULE MCPackedStream ---------------------------
(* Words of four bytes: null, without nulls, with one, which ends no run, with three. *)
EXTENDS PackedStream

N == <<0, 0, 0, 0>>
F == <<1, 2, 3, 4>>
Z == <<5, 0, 6, 7>>
P == <<0, 9, 0, 0>>

\* Runs longer than a count, runs that end with a segment, segments of nothing, a message
\* of nothing, a message at the limit of segments, and one over the limit of words.
MCSendings == {
    <<<<<<F, Z, F, F, P>>, <<>>>>>>,
    <<<<<<N, N, N, N, F>>, <<Z>>>>>>,
    <<<<<<P, N>>>>, <<<<N>>, <<>>, <<F>>>>>>,
    <<<<<<F>>>>, <<<<>>>>, <<<<F, F>>>>>>,
    <<<<<<>>, <<>>, <<>>, <<>>>>>>,
    <<<<<<F, N>>>>, <<<<F, F, F>>, <<F, F, F, F>>>>>> }
=============================================================================
