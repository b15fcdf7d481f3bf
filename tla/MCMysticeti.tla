----------------------------- MODULE MCMysticeti -----------------------------
(***************************************************************************)
(* Four authorities of stake 1, of which 3 is faulty: it leads round 1     *)
(* with two blocks.  A dag is given by what the blocks of round 2 include  *)
(* of those two and in which order, whose block of round 2 each block of   *)
(* round 3 lacks, and whose blocks the others leave out from round 4 on;   *)
(* all other blocks include the whole round before.                        *)
(***************************************************************************)
EXTENDS MysticetiCommit

Authorities == 0..3
Stakes == [a \in Authorities |-> 1]

Elected == <<<<3, 0>>, <<0, 1>>, <<1, 3>>, <<2, 0>>, <<0, 3>>, <<1, 2>>, <<2, 3>>>>

(* Own block first, then the others without the one left out. *)
WholeRound(a, r, out) ==
    <<<<a, r, 1>>>> \o
    SetToSortSeq({<<b, r, 1>> : b \in Authorities \ {a, out}}, LAMBDA x, y : x[1] < y[1])

Lead(variants) == [i \in DOMAIN variants |-> <<3, 1, variants[i]>>]

Votes(a, variants) ==
    (IF a = 3 THEN << >> ELSE WholeRound(a, 1, 3)) \o Lead(variants) \o
    (IF a = 3 THEN Tail(WholeRound(a, 1, 3)) ELSE << >>)

None == 9

MakeDag(top, votes, lacks, lack) ==
    [b \in {<<a, r, 1>> : a \in Authorities, r \in 0..top} \cup {<<3, 1, 2>>} |->
        IF b[2] = 0 THEN << >>
        ELSE IF b[2] = 2 THEN Votes(b[1], votes[b[1] + 1])
        ELSE IF b[2] = 3 THEN WholeRound(b[1], 2, lacks[b[1] + 1])
        ELSE IF b[2] > 3 /\ b[1] # lack THEN WholeRound(b[1], b[2] - 1, lack)
        ELSE WholeRound(b[1], b[2] - 1, None)]

VotePatterns ==
    { <<<<1>>, <<1>>, <<1>>, <<1>>>>,
      <<<< >>, << >>, << >>, <<1>>>>,
      <<<<1>>, <<1>>, << >>, <<1, 2>>>>,
      <<<<1>>, << >>, << >>, <<1>>>>,
      <<<<2, 1>>, <<1, 2>>, <<2>>, <<2, 1>>>>,
      <<<<1>>, <<1>>, <<2>>, <<2>>>> }

LackPatterns ==
    { <<None, None, None, None>>, <<3, 3, 3, None>>, <<1, 0, 0, 0>>, <<None, 2, None, 1>> }

MCDags ==
    {MakeDag(6, votes, lacks, lack) :
        votes \in VotePatterns, lacks \in LackPatterns, lack \in {None, 1, 3}}
==============================================================================
