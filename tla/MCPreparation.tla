--------------------------- MODULE MCPreparation ----------------------------
(* Values of the constants for model checking Preparation. *)
EXTENDS Preparation

K(op, dotnew) == [op |-> op, dotnew |-> dotnew]

\* The classes that the passes tell apart: to them "jumpr" and "call" are jumps
\* and "frame" is a store.  They do not read dotnew, so it is enough to have the
\* classes that read a .new predicate with it.
MCSubKinds ==
    {K("alu", TRUE), K("jump", TRUE), K("cmp", FALSE), K("load", FALSE), K("store", FALSE),
     K("return", TRUE)}

MCKinds ==
    MCSubKinds \cup
    {K("spNloop", FALSE), K("newstore", TRUE), K("newjump", FALSE), K("cmpjump", FALSE),
     K("rte", FALSE), K("ext", FALSE)}
=============================================================================
