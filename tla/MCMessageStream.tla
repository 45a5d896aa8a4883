--------------------------- MODULE MCMessageStream ---------------------------
(***************************************************************************)
(* Module MessageStream with words of four bytes of four bits.             *)
(***************************************************************************)
EXTENDS MessageStream

MCBytes == 0 .. 15

Z == <<0, 0, 0, 0>>
O == <<0, 0, 7, 0>>
P == <<0, 5, 0, 6>>
N == <<1, 0, 2, 3>>
F == <<9, 8, 7, 6>>

Short == {<< << >> >>,
          <<Z \o Z \o O>>,
          <<F \o N \o P>>,
          <<F, F \o F>>,
          <<Z, << >>, P \o Z>>}

\* One for each of the limits, one with the longest run its count can say, and one
\* with a run that is too long for it.
TooMany == <<Z, << >>, << >>, F>>
TooBig == <<Zeros(60), Zeros(24)>>
Longest == <<Zeros(4 * 16)>>
TooLong == <<Zeros(4 * 18)>>

MCMessages == Short \cup {TooMany, TooBig, Longest, TooLong}

MCSizes == {[data |-> d, pointers |-> p] : d \in 0 .. 1, p \in 0 .. 1}
               \cup {[data |-> 0, pointers |-> 2]}
=============================================================================
