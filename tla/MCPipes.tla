------------------------------- MODULE MCPipes --------------------------------
(* A small instance of Pipes for TLC.                                        *)
EXTENDS Pipes

(* More numbers than a pipe holds, one of them to be filtered out.           *)
ThreeNumbers == <<"pos", "neg", "pos">>

(* All programs are there, or one of them is missing.                      *)
SomeMissing == {{}, {"gen_numbers"}, {"filter_pos_nums"}, {"calc_avg"}}
===============================================================================
