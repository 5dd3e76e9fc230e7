----------------------------- MODULE Filtering -----------------------------
(***************************************************************************)
(* Python's list comprehension [x for x in s if x in T], as a recursive     *)
(* function over the prefixes of s, so that FilteringProofs can say what it *)
(* computes for every s.                                                    *)
(***************************************************************************)
EXTENDS Integers, Sequences

KeptUpTo(s, T) ==
  LET f[i \in 0..Len(s)] ==
        IF i = 0 THEN <<>> ELSE IF s[i] \in T THEN Append(f[i - 1], s[i]) ELSE f[i - 1]
  IN  f

Kept(s, T) == KeptUpTo(s, T)[Len(s)]
============================================================================
