------------------------------ MODULE MCProbes ------------------------------
(***************************************************************************)
(* Three databases of Redis, of which 0 and 1 are asked for their size.    *)
(* Three models, of which two have the same id, and one is the only one of *)
(* its names; an id with a slash has its provider in front already.        *)
(***************************************************************************)
EXTENDS Probes

MCDBs == 0..2
MCSettings == {<<>>, <<Junk>>, <<0, Junk, 2>>}
MCDefaultWatch == <<0, 2>>

Model(s, p, i) == [selector |-> s, provider |-> p, id |-> i]
MCCatalog ==
  {Model(<<"zen", "m">>, "zen", <<"m">>),
   Model(<<"router", "m">>, "router", <<"m">>),
   Model(<<>>, "router", <<"lab", "g">>)}

MCMounts == 1..3

\* The loop that merges failures only compares origins.
MCSymmetry == Permutations(Origins)
=============================================================================
