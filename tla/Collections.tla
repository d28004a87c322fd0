---------------------------- MODULE Collections ----------------------------
(***************************************************************************)
(* What several components do to their sequences and trees.                *)
(***************************************************************************)
EXTENDS Naturals, Sequences

\* The elements of s that are not in gone, in their order.
Dropping(s, gone) ==
    LET left[n \in 0..Len(s)] ==
            IF n = 0 THEN <<>>
            ELSE IF s[n] \in gone THEN left[n - 1]
            ELSE Append(left[n - 1], s[n])
    IN left[Len(s)]

\* What comes of base when Op takes the elements of s to it one by one.
Folded(Op(_, _), base, s) ==
    LET done[n \in 0..Len(s)] == IF n = 0 THEN base ELSE Op(done[n - 1], s[n])
    IN done[Len(s)]

\* The nodes next leads to from v: the least set that holds v and with a node
\* n also the nodes next[n].
Reached(next, v) ==
    {n \in DOMAIN next :
        \A S \in SUBSET DOMAIN next :
            v \in S /\ (\A m \in S : next[m] \subseteq S) => n \in S}

=============================================================================
