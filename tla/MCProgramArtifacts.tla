------------------------- MODULE MCProgramArtifacts -------------------------
(***************************************************************************)
(* An instance of ProgramArtifacts for TLC: a draft that is replaced and a *)
(* publication that is archived.                                           *)
(***************************************************************************)
EXTENDS ProgramArtifacts

Id(n, x) == [revision |-> n, source |-> x]

\* The second source has the larger artifact, the third does not compile,
\* and the program of the fourth does not start.
MCBytes == [x \in Sources |-> IF x = 2 THEN 2 ELSE 1]
MCMounted == [s \in Sessions |-> Id(1, 1)]

\* The draft is edited: to the same or another program, or to one that fails;
\* the publication moves on, or its parent repeats it.
MCDescriptors ==
  [s \in Sessions |->
     IF s \in Archives THEN {Id(1, 1), Id(2, 2)}
                       ELSE {Id(1, 1), Id(2, 1), Id(2, 2), Id(3, 3), Id(3, 4)}]

=============================================================================
