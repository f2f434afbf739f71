----------------------------- MODULE MCBracket -----------------------------
EXTENDS BracketService

MCPlayed == {"single_elimination", "round_robin"}
MCSizes  == 2..8
MCFour   == {4}
MCDouble == {"double_elimination"}
=============================================================================
