----------------------------- MODULE MCFigures -----------------------------
(* A chart whose key follows the data, and a second figure that comes and  *)
(* goes.                                                                   *)
EXTENDS Figures

ChartAndMap == {<<"day">>, <<"night">>, <<"night", "map">>}

(* Not Structured: two figures that change places, and a figure that comes *)
(* and goes and changes its key meanwhile.                                 *)
ChangingPlaces ==
  {<<"map", "day">>, <<"map", "night">>, <<"night", "day">>, <<"night", "map">>}
ComesAndGoes == {<<"map", "day">>, <<"map", "night">>, <<"map", "dusk">>, <<"map">>}
=============================================================================
