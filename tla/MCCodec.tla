------------------------------ MODULE MCCodec ------------------------------
(* Codec for TLC: a byte has 32 values, a digit 16 and a word 2^20.  There  *)
(* are lengths and numbers just below and above a digit, the greatest word, *)
(* the first number that is none, and nothing, empty and nested values.     *)
EXTENDS Codec

Two     == [i \in 1 .. 16 |-> (i * 7) % 32]
None    == <<"nil", 0>>
Number  == <<"int", 15>>
Empty   == <<"array", <<>> >>
Inner   == <<"array", <<None>> >>
Outer   == <<"array", <<Number, Inner>> >>
Map     == <<"other", "map">>
Minus   == <<"float", -1>>

MCText  == (Map :> <<5>>) @@ (Minus :> <<4, 4>>)

MCValues == {
    None, <<"string", <<>> >>, <<"string", Two>>, <<"bytes", <<31>> >>, Number, <<"int", 16>>,
    <<"int", -1>>, <<"int", 1048576>>, <<"float", 256>>, Empty, Inner, Outer, Map, Minus}

MCDepth == [v \in MCValues |-> CASE v = Outer -> 2 [] v = Inner -> 1 [] OTHER -> 0]
=============================================================================
