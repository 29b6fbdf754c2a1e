---------------------------- MODULE Subsequences ----------------------------
(***************************************************************************)
(* SelectSeq, in a form that can be proved about.                          *)
(***************************************************************************)
EXTENDS Integers, Sequences

\* The elements of s that are in T, in their order.
Only(s, T) ==
  LET only[n \in 0 .. Len(s)] ==
        IF n = 0 THEN <<>>
        ELSE IF s[n] \in T THEN Append(only[n - 1], s[n]) ELSE only[n - 1]
  IN  only[Len(s)]
=============================================================================
