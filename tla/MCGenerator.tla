---------------------------- MODULE MCGenerator -----------------------------
(* Generator on packages and types of up to three parts.                   *)
EXTENDS Generator

Parts == {<<"a">>, <<"a", "b">>}
Dot == <<".">>

MCNames ==
  Parts \cup {p \o Dot \o q : p, q \in Parts} \cup {p \o Dot \o q \o Dot \o r : p, q, r \in Parts}

\* protobuf accepts no type with the name of a package.
IsType(package, t) == ~IsPrefix(t \o Dot, package \o Dot)

\* Files with one of the packages.
FilesOf(packages) ==
  { [package |-> p,
     services |-> << [name |-> <<"S">>, methods |-> <<[name |-> "M", input |-> t, output |-> u]>>],
                     [name |-> <<"T">>, methods |-> <<>>] >>] :
    <<p, t, u>> \in {x \in packages \X MCNames \X MCNames :
                       IsType(x[1], x[2]) /\ IsType(x[1], x[3])} }

MCFiles == FilesOf(MCNames \cup {<<>>})

\* Packages of one part.
MCFlatFiles == FilesOf(Parts)
=============================================================================
