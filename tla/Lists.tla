--------------------------------- MODULE Lists ---------------------------------
(***************************************************************************)
(* Lists and dictionaries.  Select is SelectSeq and Override is @@, by     *)
(* definitions that a proof can open.                                      *)
(***************************************************************************)
EXTENDS Integers, Sequences, Functions

IsList(s) == s \in Seq(Range(s))

\* The elements of s at the places ps, in order.
Those(s, ps) ==
  LET upto[i \in 0..Len(s)] ==
        IF i = 0 THEN <<>> ELSE IF i \in ps THEN Append(upto[i - 1], s[i]) ELSE upto[i - 1]
  IN  upto[Len(s)]

Select(s, Test(_)) == Those(s, {i \in DOMAIN s : Test(s[i])})

\* f, and g where f has nothing.
Override(f, g) == [x \in DOMAIN f \cup DOMAIN g |-> IF x \in DOMAIN f THEN f[x] ELSE g[x]]

Put(f, x, value) == [y \in DOMAIN f \cup {x} |-> IF y = x THEN value ELSE f[y]]
=============================================================================
