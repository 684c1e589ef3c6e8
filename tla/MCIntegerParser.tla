-------------------------- MODULE MCIntegerParser ---------------------------
(* Instance of IntegerParser for TLC: numbers of 8 bits.                    *)
EXTENDS IntegerParser, SequencesExt

MCTexts == {sign \o prefix \o digits :
               sign \in {<< >>, <<Minus>>},
               prefix \in {<< >>, <<0, X>>},
               digits \in BoundedSeq({0, 1, 2, 5, 6, 7, 8, 15, Minus, X, Letter, Other}, 3)}
=============================================================================
