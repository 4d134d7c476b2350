------------------------------ MODULE MCBodies ------------------------------
(***************************************************************************)
(* Bodies of up to five bytes, on machines with four-bit integers, through *)
(* six chains of layers that touch a body: those of the public, internal   *)
(* and open chains, GraphQL with and without the introspection block, and  *)
(* all five layers together. The limits are met exactly, exceeded by one   *)
(* and by more, and include the largest integer.                           *)
(***************************************************************************)
EXTENDS Bodies

Paths == { <<"Ensure", "Logger", "MaxBodySize">>,
           <<"Ensure", "MaxBodySize">>,
           <<"Logger", "MaxBodySize">>,
           <<"GraphQL">>,
           <<"Introspection", "GraphQL">>,
           <<"Ensure", "Logger", "MaxBodySize", "Introspection", "GraphQL">> }

MCInt == 7

MCSents ==
    { s \in [length : 0..5, arrives : 0..5, announced : BOOLEAN,
             type : {"none", "json", "multipart", "other"}, post : BOOLEAN,
             introspects : BOOLEAN, layers : Paths, limit : {2, 7}, fileLimit : {4}] :
        s.arrives <= s.length }
=============================================================================
