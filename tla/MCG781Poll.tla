------------------------------ MODULE MCG781Poll ------------------------------
(* Model-checking instance of G781Poll.                                    *)
EXTENDS G781Poll

(* 25 C, and 0xf6 = -10 C *)
MCRaw == {25, 246}

(* settemp and setbyte data: one a byte, one past -127 *)
MCData == {-128, 60}

(* Two polls, so a failed read can follow a good one *)
MCMaxPolls == 2
MCMaxCmds == 2
=============================================================================
