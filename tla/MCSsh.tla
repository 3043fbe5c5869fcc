-------------------------------- MODULE MCSsh --------------------------------
(* Values of the constants of Ssh.  The name of a command tells it apart    *)
(* from the others and nothing else, so they may be permuted.               *)
EXTENDS Ssh, TLC

Symmetry == Permutations(Cmds)
=============================================================================
