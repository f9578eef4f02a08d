-------------------------------- MODULE Forest --------------------------------
(* What Hub's parentage map (src-tauri/src/handoff.rs) means, apart from   *)
(* how it is walked: `kids` gives each session the set of its children.    *)

(* A set nobody leaves by going to a child.                                *)
Closed(kids, S) == \A p \in S : kids[p] \subseteq S

(* Everyone below p: what every closed set with p's children in it holds.  *)
Below(kids, p) ==
    {q \in DOMAIN kids :
        \A S \in SUBSET DOMAIN kids : kids[p] \subseteq S /\ Closed(kids, S) => q \in S}

Subtree(kids, p) == {p} \cup Below(kids, p)

(* Hub::settled_children: a direct child's whole subtree, or none of it.   *)
Closable(kids, done, p) ==
    UNION {Subtree(kids, c) : c \in {d \in kids[p] : Subtree(kids, d) \subseteq done}}

(* Hub::forget_children: these sessions go, and all they parented.         *)
Without(kids, S) ==
    LET gone == UNION {Subtree(kids, p) : p \in S} IN
    [p \in DOMAIN kids |-> IF p \in gone THEN {} ELSE kids[p] \ gone]
=============================================================================
