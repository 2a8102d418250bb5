---------------------------- MODULE MCEqualizer -----------------------------
(* Room for three bands in six frequencies: there are layouts without room *)
(* for another band, and states that ask for bands too close, out of range *)
(* and too many.  The rates hear half of the frequencies, and all.         *)
EXTENDS Equalizer
MCPresets == <<"flat", "bass", "treble">>
MCCurve == [flat |-> [f \in 1..6 |-> 0],
            bass |-> [f \in 1..6 |-> IF f <= 3 THEN 1 ELSE 0],
            treble |-> [f \in 1..6 |-> IF f >= 5 THEN 1 ELSE 0]]
MCDefaultFrequencies == <<1, 3, 5>>
MCStates == {[bands |-> <<Band(9, 1), Band(6, 0), Band(6, 1)>>, lastNonflat |-> <<>>],
             [bands |-> <<Band(4, 0)>>, lastNonflat |-> <<5, 1>>],
             [bands |-> <<Band(2, 0), Band(3, 0), Band(4, 0), Band(5, 0)>>,
              lastNonflat |-> <<>>]}
=============================================================================
