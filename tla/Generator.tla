------------------------------ MODULE Generator -----------------------------
(***************************************************************************)
(* protoc-gen-grpcxx: Grpcxx::Generate writes a C++ header for a .proto    *)
(* file.  Names are sequences of characters, as the string positions in    *)
(* the code are what can go wrong; the output is the sequence of its       *)
(* declarations.                                                           *)
(***************************************************************************)
EXTENDS Integers, Sequences, SequencesExt

CONSTANTS
  Chars,   \* the characters of names, and the dot
  Files    \* [package, services]; a service is [name, methods]; a method
           \* is [name, input, output] with the full names of its types

Methods == [name : STRING, input : Seq(Chars), output : Seq(Chars)]
Services == [name : Seq(Chars \ {"."}), methods : Seq(Methods)]

\* What protoc accepts: identifiers, separated by dots, and no type with the name
\* of its package.
ASSUME FilesAssumption ==
  /\ "." \in Chars /\ "::" \notin Chars
  /\ \A f \in Files :
       /\ f.package \in Seq(Chars) /\ (f.package # <<>> => f.package[1] # ".")
       /\ f.services \in Seq(Services)
       /\ \A i \in 1..Len(f.services) : \A j \in 1..Len(f.services[i].methods) :
            f.package \notin {f.services[i].methods[j].input, f.services[i].methods[j].output}

VARIABLES
  file,   \* the descriptor
  at,     \* services generated so far; -1 before the namespaces are opened
  out     \* the declarations written

generatorVars == <<file, at, out>>

\* std::string: find and rfind from a position, substr (clipped at the end).
npos == -1
Positions(s, c) == {i \in 0..(Len(s) - 1) : s[i + 1] = c}
find(s, c, from) == LET P == {i \in Positions(s, c) : i >= from} IN IF P = {} THEN npos ELSE Min(P)
rfind(s, c, from) == LET P == {i \in Positions(s, c) : i <= from} IN IF P = {} THEN npos ELSE Max(P)
substr(s, from, n) == SubSeq(s, from + 1, Min({from + n, Len(s)}))

Open(name) == [kind |-> "open", name |-> name]
Close(name) == [kind |-> "close", name |-> name]

\* The loop that opens a namespace for every part of the package.
Openings(package) ==
  LET from[start \in 0..Len(package)] ==
        LET end == find(package, ".", start) IN
          IF end = npos THEN <<Open(substr(package, start, Len(package)))>>
          ELSE <<Open(substr(package, start, end - start))>> \o from[end + 1]
  IN  IF package = <<>> THEN <<>> ELSE from[0]

\* Mutant of Closings: closed in the order in which they were opened.
ClosingsForward(package) == [i \in 1..Len(Openings(package)) |-> Close(Openings(package)[i].name)]

\* The loop that closes them, from the last part to the first.  end is the size
\* at first, then the position of the last character that is left.
Closings(package) ==
  LET to[end \in 0..Len(package)] ==
        LET pos == rfind(package, ".", end) IN
          IF pos = npos THEN <<Close(substr(package, 0, end + 1))>>
          ELSE <<Close(substr(package, pos + 1, end - pos))>> \o to[pos - 1]
  IN  IF package = <<>> THEN <<>> ELSE to[Len(package)]

\* Mutant of Relative: the dot after the package is kept.
RelativeKeepDot(package, name) ==
  IF package # <<>> /\ IsPrefix(package, name)
  THEN substr(name, Len(package), Len(name)) ELSE name

\* The name of a type inside the namespace of the package.
Relative(package, name) ==
  IF package # <<>> /\ IsPrefix(package, name)
  THEN substr(name, Len(package) + 1, Len(name)) ELSE name

\* mapper: the C++ name of a type, "::" being one character here.
Mapper(package, full_name) ==
  LET name == Relative(package, full_name)
      from[start \in 0..Len(name)] ==
        LET end == find(name, ".", start) IN
          IF end = npos THEN substr(name, start, Len(name))
          ELSE substr(name, start, end - start) \o <<"::">> \o from[end + 1]
  IN  from[0]

Rpc(package, m) ==
  [kind |-> "rpc", name |-> m.name, types |-> <<Mapper(package, m.input), Mapper(package, m.output)>>,
   full |-> <<m.input, m.output>>]

\* The name that a service is registered with.
FullName(package, name) == IF package = <<>> THEN name ELSE package \o <<".">> \o name

ServiceDecl(package, s) ==
  [kind |-> "service", name |-> FullName(package, s.name),
   rpcs |-> [j \in 1..Len(s.methods) |-> s.methods[j].name]]

GeneratorInit == file \in Files /\ at = -1 /\ out = <<>>

OpenNamespaces ==
  /\ at = -1
  /\ at' = 0
  /\ out' = Openings(file.package)
  /\ UNCHANGED file

\* A service: its namespace, the definitions of its RPCs, its type.
GenerateService ==
  /\ at \in 0..(Len(file.services) - 1)
  /\ at' = at + 1
  /\ LET s == file.services[at + 1] IN
       out' = out \o <<Open(s.name)>> \o [j \in 1..Len(s.methods) |-> Rpc(file.package, s.methods[j])]
                  \o <<ServiceDecl(file.package, s), Close(s.name)>>
  /\ UNCHANGED file

CloseNamespaces ==
  /\ at = Len(file.services)
  /\ at' = at + 1
  /\ out' = out \o Closings(file.package)
  /\ UNCHANGED file

GeneratorNext == OpenNamespaces \/ GenerateService \/ CloseNamespaces

GeneratorSpec == GeneratorInit /\ [][GeneratorNext]_generatorVars
-----------------------------------------------------------------------------
(* Properties.                                                             *)

\* The namespaces that are open, the outermost first, after one more declaration.
\* A brace that closes another namespace than it names leaves a name that nothing
\* closes.
Inside(stack, d) ==
  LET closes == stack # <<>> /\ stack[Len(stack)] = d.name
  IN  CASE d.kind = "open" -> Append(stack, d.name)
        [] d.kind = "close" /\ closes -> Front(stack)
        [] d.kind = "close" /\ ~closes -> Append(stack, <<".">>)
        [] OTHER -> stack

\* The namespaces that are open after the first i declarations, for every i.
Scopes(ds) ==
  LET after[i \in 0..Len(ds)] == IF i = 0 THEN <<>> ELSE Inside(after[i - 1], ds[i])
  IN  after

\* The names of a stack of namespaces, joined by dots.
Joined(stack) ==
  LET to[i \in 1..Len(stack)] == IF i = 1 THEN stack[1] ELSE to[i - 1] \o <<".">> \o stack[i]
  IN  to[Len(stack)]

\* The namespaces spell a full name, one for each of its parts.
Spells(stack, name) ==
  /\ stack # <<>> /\ Joined(stack) = name
  /\ \A k \in 1..Len(stack) : \A j \in 1..Len(stack[k]) : stack[k][j] # "."

\* The C++ namespaces around a service are its full name in the .proto file, the
\* one that it is registered with; so are those around an RPC for one of the
\* services.  Every closing brace closes the namespace that it names, and in the
\* end none is open.
NamespacesNested ==
  /\ \A i \in 1..Len(out) :
       /\ out[i].kind = "service" => Spells(Scopes(out)[i], out[i].name)
       /\ out[i].kind = "rpc" => \E j \in 1..Len(file.services) :
            Spells(Scopes(out)[i], FullName(file.package, file.services[j].name))
  /\ at > Len(file.services) => Scopes(out)[Len(out)] = <<>>

Dots(name) == [i \in 1..Len(name) |-> IF name[i] = "::" THEN "." ELSE name[i]]

FirstPart(name) == LET end == find(name, ".", 0) IN IF end = npos THEN name ELSE substr(name, 0, end)

\* A full name, and the namespaces and types around it.
Enclosing(name) ==
  {SubSeq(name, 1, i) : i \in {j \in 1..Len(name) : j = Len(name) \/ name[j + 1] = "."}}

\* The namespaces around the RPCs of a file, without that of the service, which
\* declares no types.
Surrounding(package) == {<<>>} \cup Enclosing(package)

\* What C++ finds: the first part of a name is looked for from the innermost
\* namespace outwards, and the first hit counts.  The namespaces of the package
\* are declared, and the type with all that is around it.
Denotes(package, name, full) ==
  \E s \in Surrounding(package) :
    /\ FullName(s, name) = full
    /\ \A r \in Surrounding(package) : Len(r) > Len(s) =>
         FullName(r, FirstPart(name)) \notin Enclosing(package) \cup Enclosing(full)

\* A type of the file's package or of one inside it.
OwnType(package, full) ==
  package = <<>> \/ (IsPrefix(package, full) /\ full[Len(package) + 1] = ".")

\* The types that an RPC is declared with are the ones of the .proto file.
TypesMapped ==
  \A i \in 1..Len(out) : out[i].kind = "rpc" => \A k \in 1..2 :
    Denotes(file.package, Dots(out[i].types[k]), out[i].full[k])

\* The part of TypesMapped that mapper keeps.  A type of the file's own package, or
\* any type where there is no package, is declared with a name that denotes it,
\* however the parts of its name and of the package repeat each other.  A type
\* whose full name does not begin with the characters of the package is declared with that
\* name.
OwnTypesMapped ==
  \A i \in 1..Len(out) : out[i].kind = "rpc" => \A k \in 1..2 :
    LET full == out[i].full[k]
        name == Dots(out[i].types[k])
    IN  /\ OwnType(file.package, full) => Denotes(file.package, name, full)
        /\ ~IsPrefix(file.package, full) => name = full
=============================================================================
