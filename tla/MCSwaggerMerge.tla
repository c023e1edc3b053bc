--------------------------- MODULE MCSwaggerMerge ---------------------------
(* An instance of SwaggerMerge for TLC. *)
EXTENDS SwaggerMerge

CONSTANTS a, b, c, z

A == <<a>>
B == <<b>>
ADB == <<a, Dot, b>>
BC == <<b, c>>
BDC == <<b, Dot, c>>
C == <<c>>
Z == <<z>>
Root == << <<>> >>

\* Two names one of which begins the other, with a dot, and two apart from both.
SomeApis == {A, ADB, B, Z}

Def(refs) == [refs |-> refs]
Act(id, refs) == [id |-> id, refs |-> refs]

\* Definitions that refer to themselves, to each other and to none, paths with
\* and without ids, the root path among them; <<A, C>> and <<B, C>> look like paths of
\* services A and B; 'b.c' in 'a' and 'c' in 'a.b' become one id.
SomeDocuments ==
    {[definitions |-> <<>>, paths |-> <<>>],
     [definitions |-> C :> Def({C}), paths |-> <<C>> :> Act(C, {C})],
     [definitions |-> C :> Def({BC}) @@ BC :> Def({C}),
      paths |-> <<C>> :> Act(C, {BC}) @@ <<A, C>> :> Act(BDC, {})],
     [definitions |-> BC :> Def({}),
      paths |-> <<B, C>> :> Act(C, {BC}) @@ <<C>> :> Act(C, {BC})],
     [definitions |-> <<>>,
      paths |-> <<C>> :> Act(NoId, {}) @@ Root :> Act(C, {})]}

\* 'bc' of the gateway is the name of 'c' of a service 'b', too.
SomeOwn == [definitions |-> BC :> Def({}) @@ C :> Def({BC}),
            paths |-> <<BC>> :> Act(C, {C}) @@ <<B, C>> :> Act(BC, {BC})]
=============================================================================
