-------------------------- MODULE MCEndpointSlices --------------------------
(***************************************************************************)
(* Model checking of EndpointSlices.                                       *)
(***************************************************************************)
EXTENDS EndpointSlices

CONSTANTS idP, idQ, nameA, nameB

Port(id, name) == [id |-> id, name |-> name]

(* One port, the same under another name, and two.                         *)
MCPortLists == {{Port(idP, nameA)}, {Port(idP, nameB)},
                {Port(idP, nameA), Port(idQ, nameB)}}
MCOnePort == {{Port(idP, nameA)}}
=============================================================================
