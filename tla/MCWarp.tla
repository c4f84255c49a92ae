------------------------------- MODULE MCWarp -------------------------------
(* OoeWarp on a small slot.  Names and checkpoints are interchangeable:    *)
(* the specification treats any two alike, so TLC may identify states that *)
(* differ by a permutation of them.                                        *)
EXTENDS OoeWarp, TLC

Sym == Permutations(Name) \cup Permutations(Ckpt)
=============================================================================
