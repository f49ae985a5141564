--------------------------- MODULE MCTextFraming ---------------------------
(* A small instance of TextFraming for TLC: p stands for the prefix with   *)
(* one field (ping), s for one with three (hello). A field is empty or     *)
(* looks like the terminator.                                              *)
EXTENDS TextFraming, TLC

MCCommas == <<"p">> :> 1 @@ <<"s">> :> 3
MCFields == {<<>>, End}
MCNoise == {<<"\n">>, <<"\r", "\n">>, <<" ">>, <<"{", "\n">>, <<"{", "s", ",">>,
            <<"z", ",">>, <<"s", ",", "x", ",", ",", "e", "n">>, <<"s", ",", "x", "\n">>}
=============================================================================
