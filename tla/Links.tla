--------------------------------- MODULE Links ---------------------------------
(***************************************************************************)
(* What a join and its inverse promise (src/src/nodejs/qm/qm_nodejs.h      *)
(* 242-247): one relation between the records of two stores, which either  *)
(* side may extend or cut and both sides read.  A side that is a field     *)
(* joins a record with at most one record, so that a new link of it takes  *)
(* the place of the old one.                                               *)
(***************************************************************************)
CONSTANTS Id,   \* record ids of both stores
          OneJ, \* a record of the first store is linked to at most one
          OneK  \* a record of the second store is linked to at most one

VARIABLE links  \* the linked pairs <<record of A, record of B>>

--------------------------------------------------------------------------------

TypeOK == links \subseteq Id \X Id

Init == links = {}

\* Both sides allow for the links in P.
Fit(P) == \A l, m \in P : (OneJ /\ l[1] = m[1]) \/ (OneK /\ l[2] = m[2]) => l = m

\* The links that those in P take the place of.
Displaced(P) == {l \in links : \E p \in P : \/ OneJ /\ l[1] = p[1] /\ l[2] # p[2]
                                            \/ OneK /\ l[2] = p[2] /\ l[1] # p[1]}

Link(P) == Fit(P) /\ links' = (links \ Displaced(P)) \cup P

Cut(p) == links' = links \ {p}

\* The records of one store that are deleted lose their links.
DropA(S) == links' = {l \in links : l[1] \notin S}
DropB(S) == links' = {l \in links : l[2] \notin S}

\* One record of a store is linked, with one or several, or cut from one.
Next == \/ \E a \in Id, S \in SUBSET Id : Link({a} \X S) \/ Link(S \X {a})
        \/ \E p \in Id \X Id : Cut(p)
        \/ \E S \in SUBSET Id : DropA(S) \/ DropB(S)

vars == <<links>>
Spec == Init /\ [][Next]_vars

================================================================================
