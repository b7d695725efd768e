-------------------------- MODULE MCStrategyLearning --------------------------
(* Windows that are good, and windows that are weaker in every respect.      *)
EXTENDS StrategyLearning

MCAsGood == {<<"good", "good">>, <<"weak", "weak">>, <<"good", "weak">>}
=============================================================================
