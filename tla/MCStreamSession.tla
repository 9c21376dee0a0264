-------------------------- MODULE MCStreamSession --------------------------
(***************************************************************************)
(* Chunks for TLC: one per branch of askStream's loop, and one that takes  *)
(* several branches at once.                                               *)
(***************************************************************************)
EXTENDS StreamSession

Chunk(model, thinking, tools, role, content, done, usage) ==
    [model |-> model, thinking |-> thinking, tools |-> tools, role |-> role,
     content |-> content, done |-> done, usage |-> usage]

Token  == Chunk("m2", "", <<>>, "assistant", "a", FALSE, 0)
Think  == Chunk("", "hm", <<"alloc", "assets">>, "assistant", "b", FALSE, 0)
Result == Chunk("", "", <<>>, "tool", "r", FALSE, 0)
Final  == Chunk("", "", <<>>, "assistant", "", TRUE, 3)

MCBadLine == Chunk("bad line", "", <<>>, "", "", FALSE, 0)

AllChunks  == {Token, Think, Result, Final}
FewChunks  == {Think, Final}
=============================================================================
