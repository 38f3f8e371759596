------------------------------ MODULE MCImageFlow ------------------------------
(***************************************************************************)
(* ImageFlow on two hosts, for every way an image gets there.              *)
(***************************************************************************)
EXTENDS ImageFlow, TLC

MCHosts == <<"h1", "h2">>
MCConfigs == [source : Sources, policy : Policies]
MCSymmetry == Permutations(Actors)
=============================================================================
