----------------------------- MODULE MCDispatch -----------------------------
(* Dispatch with two services of one name, and bytes of two values: the     *)
(* length 2 sets the top bit of the third length byte.                      *)
EXTENDS Dispatch

MCPaths == { <<"/", "S", "/", "M">>, <<"/", "S", "/", "N">>, <<"/", "T", "/", "M">>,
             <<"x", "S", "/", "M">>, <<"/", "S">>, <<"/", "/", "M">>, <<"/", "S", "/">>,
             <<"/", "S", "/", "M", "/", "N">> }

MCServices == { [name |-> <<"S">>, methods |-> {<<"M">>}],
                [name |-> <<"S">>, methods |-> {<<"M">>, <<"N">>}] }
=============================================================================
