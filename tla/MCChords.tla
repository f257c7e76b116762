------------------------------ MODULE MCChords ------------------------------
(***************************************************************************)
(* Small configurations of chords v2.  Keys are numbers, as key codes are. *)
(***************************************************************************)
EXTENDS ChordSystem

Chord(keys, pending, release, disabled) ==
    [keys |-> keys, pending |-> pending, release |-> release, disabled |-> disabled]
Conf(coords, layers, chords) ==
    [coords |-> coords, chords |-> chords, layers |-> layers, minIdle |-> 5, NumCoords |-> 17]
AllCoords == {<<0, 1>>, <<0, 2>>, <<0, 3>>, <<0, 4>>, <<1, 7>>}
Reals == {<<0, 1>>, <<0, 2>>, <<0, 3>>}

Configs ==
    [ nested |-> Conf(Reals, {"base"}, {Chord({1, 2}, 2, "all", {}), Chord({1, 2, 3}, 3, "first", {})}),
      misfit |-> Conf({<<0, 1>>, <<0, 2>>, <<0, 4>>}, {"base"},
                      {Chord({1, 2}, 3, "first", {}), Chord({1, 2, 3}, 3, "all", {})}),
      layers |-> Conf({<<0, 1>>, <<0, 2>>}, {"base", "other"}, {Chord({1, 2}, 3, "first", {"other"})}),
      virtual |-> Conf({<<0, 1>>, <<0, 2>>, <<1, 7>>}, {"base"}, {Chord({1, 2}, 3, "all", {})}) ]

\* the longer chord has the longer time, and no key to complete it is there
LongerLater ==
    [ misfit |-> Conf({<<0, 1>>, <<0, 2>>, <<0, 4>>}, {"base"},
                      {Chord({1, 2}, 1, "first", {}), Chord({1, 2, 3}, 3, "all", {})}) ]
=============================================================================
