----------------------------- MODULE MCConnInfo -----------------------------
(* Instance of ConnInfo for TLC: all values of up to two characters.       *)
EXTENDS ConnInfo, SequencesExt

CONSTANT Letter

MCCharacters == {Letter, Space, Quote, Backslash, Equals}
MCKeys == <<<<Letter>>, <<Letter, Letter>>>>
MCValues == BoundedSeq(MCCharacters, 2)
=============================================================================
