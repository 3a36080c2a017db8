----------------------------- MODULE MCPastePacer -----------------------------
(* Two bracketed pastes, one that waits for the prompt and is typed a        *)
(* character at a time, and one whose pattern does not compile.              *)
EXTENDS PastePacer

CONSTANTS block, block2, lines, bad

Char(lineEnd) == [lineEnd |-> lineEnd, delay |-> TRUE]
Final(lineEnd) == [lineEnd |-> lineEnd, delay |-> FALSE]

Texts ==
  [p \in Paste |->
     [bracketed |-> p \in {block, block2}, prompt |-> p \in {lines, bad}, compiles |-> p # bad,
      steps |-> CASE p = block  -> <<Char(TRUE), Char(TRUE), Final(FALSE)>>
                  [] p = block2 -> <<Char(TRUE), Final(TRUE)>>
                  [] p = lines  -> <<Char(TRUE), Char(FALSE), Final(TRUE)>>
                  [] p = bad    -> <<Final(TRUE)>>]]
=============================================================================
