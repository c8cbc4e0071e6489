------------------------------ MODULE Nesting -------------------------------
(***************************************************************************)
(* Values that hold values, both ways across the boundary (src/value.rs):  *)
(* a parameter is read into itself as deep as it goes, and an answer is    *)
(* spelled all the way down.                                               *)
(*                                                                         *)
(* A value with all that it holds is a tree: a function from paths to      *)
(* nodes, a path being the indices that lead to the node, and <<>> the     *)
(* value itself.  A node is a value that holds none, or a container and    *)
(* how many it holds: <<"array", 2>>.  The code walks the tree, and the    *)
(* first node that does not cross ends the walk with an error: here each   *)
(* node crosses on its own, and a tree fails that has a node that does.    *)
(***************************************************************************)
EXTENDS Values

CONSTANT Deep  \* how deep a parameter may nest, 64

ASSUME NestingAssumption == Deep \in Nat \ {0}

Containers == {"array", "object", "list", "record"}

\* A value that holds no other.
Leaf(node) == [path \in {<<>>} |-> node]

Fails(tree) == \E path \in DOMAIN tree : tree[path] \in {Refused, Thrown}

\* Every path goes down from the value through what holds the next, and what a
\* container holds is there, as far as anything is read: a value that holds
\* itself goes on to there.
IsTree(tree) ==
  /\ <<>> \in DOMAIN tree
  /\ \A path \in DOMAIN tree :
       /\ path \in Seq(Nat)
       /\ \A n \in 0 .. Len(path) - 1 :
            LET holder == SubSeq(path, 1, n)
            IN  /\ holder \in DOMAIN tree /\ tree[holder][1] \in Containers
                /\ path[n + 1] \in 1 .. tree[holder][2]
       /\ tree[path][1] \in Containers /\ Len(path) <= Deep =>
            \A i \in 1 .. tree[path][2] : Append(path, i) \in DOMAIN tree

-----------------------------------------------------------------------------
(***************************************************************************)
(* What a JavaScript value binds as.                                       *)
(***************************************************************************)
\* How many fields an object has of its own.  A value of another of this
\* client's classes, a Date or a Map, has none: getters live on the prototype.
OwnFields(v) == IF v[1] = "object" THEN v[2] ELSE 0

FromObject(v) ==
  CASE v[1] \in Classes -> TemporalOf(v)
    [] v[1] = "ZuDecimal" -> <<"decimal", v[2], v[3]>>
    [] v[1] = "Uint8Array" -> <<"bytes", v[2]>>
    [] v[1] = "Int32Array" -> Refused
    [] v[1] = "array" -> <<"list", v[2]>>
    [] IsTemporal(v) -> FromTemporal(v)
    [] OTHER -> <<"record", OwnFields(v)>>

Nested(v, depth) ==
  IF depth > Deep THEN Refused
  ELSE
  CASE v[1] \in {"null", "undefined"} -> <<"null">>
    [] v[1] \in {"boolean", "string"} -> v
    [] v[1] = "bigint" -> IF v[2] \in Int64 THEN <<"int", v[2]>> ELSE Refused
    [] v[1] \in Numbers ->
         IF BindsWhole(v) THEN <<"int", WholeOf(v)>> ELSE <<"float", v>>
    [] v[1] \in {"symbol", "function"} -> Refused
    [] OTHER -> FromObject(v)

FromJs(given) == [path \in DOMAIN given |-> Nested(given[path], Len(path))]

-----------------------------------------------------------------------------
(***************************************************************************)
(* How an engine value is spelled.                                         *)
(***************************************************************************)
Spelled(h, spelling) ==
  CASE h[1] \in {"null", "boolean", "string"} -> h
    [] h[1] = "int" -> IntTo(h[2], spelling.ints)
    [] h[1] = "float" -> h[2]
    [] h[1] = "bytes" -> <<"Uint8Array", h[2]>>
    [] h[1] = "decimal" -> <<"ZuDecimal", h[2], h[3]>>
    [] h[1] = "node" -> <<"ZuNode", h[2], h[3]>>
    [] h[1] = "list" -> <<"array", h[2]>>
    [] h[1] = "record" -> <<"object", h[2]>>
    [] h[1] \in Moments -> MomentTo(h, spelling.temporal)

ToJs(held, spelling) == [path \in DOMAIN held |-> Spelled(held[path], spelling)]
=============================================================================
