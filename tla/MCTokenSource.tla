--------------------------- MODULE MCTokenSource ---------------------------
(***************************************************************************)
(* Instances of TokenSource for TLC.  The contents are chosen for their    *)
(* sizes: "old" and "new" are as long as each other, as two tokens of a    *)
(* fixed shape are; "oldnl" is "old" with a newline; "blank" is a newline. *)
(***************************************************************************)
EXTENDS TokenSource, TLC

MCTrimRight == [b \in Bodies |-> CASE b \in {"old", "oldnl"} -> "old"
                                    [] b = "blank" -> Empty
                                    [] OTHER -> b]

MCBlanks == [b \in Bodies |-> IF b \in {"oldnl", "blank"} THEN 1 ELSE 0]

\* Tokens of a fixed shape are equally long.
MCLength == [t \in Tokens \cup {Empty} |-> IF t = Empty THEN 0 ELSE 2]

Symmetry == Permutations(Procs)
=============================================================================
