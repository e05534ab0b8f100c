------------------------------ MODULE MCValues ------------------------------
(***************************************************************************)
(* Small instances of Values: one type of each kind, types in types, a     *)
(* list that ends in a union, puns that fit and puns that do not, and      *)
(* programs of two or three functions that take and return them.           *)
(***************************************************************************)
EXTENDS Values, TLC

Type(kind, cases) == [kind |-> kind, cases |-> cases, refs |-> FALSE, width |-> 0,
                      lacking |-> {}, langs |-> <<>>]
Plain(kind, cases) == Type(kind, cases)
Holding(kind, cases) == [Type(kind, cases) EXCEPT !.refs = TRUE]
Prim(width, lacking) == [Type("primitive", <<<<>>>>) EXCEPT !.width = width, !.lacking = lacking]
Pun(cases, langs) == [Type("pun", cases) EXCEPT !.langs = langs]

Types ==
  << Prim(4, {}),                                     \* 1  u32
     Prim(8, {}),                                     \* 2  u64
     Plain("bool", <<<<>>, <<>>>>),                   \* 3
     Plain("enum", <<<<>>, <<>>, <<>>>>),             \* 4
     Plain("empty", <<<<>>>>),                        \* 5
     Plain("alias", <<<<2>>>>),                       \* 6
     Plain("struct", <<<<1, 3>>>>),                   \* 7
     Plain("array", <<<<7, 7>>>>),                    \* 8
     Plain("union", <<<<1>>, <<7>>>>),                \* 9
     Plain("tagged", <<<<4>>, <<>>, <<1, 9>>>>),      \* 10
     Holding("ref", <<<<9>>>>),                       \* 11
     Holding("union", <<<<1>>, <<13>>>>),             \* 12 List
     Holding("struct", <<<<2, 14>>>>),                \* 13 Node
     Holding("ref", <<<<12>>>>),                      \* 14 &List
     Plain("struct", <<<<1>>>>),                      \* 15 MetersU32 in Rust
     Pun(<<<<15>>, <<1>>>>, <<{"rust"}, {"c"}>>),     \* 16 MetersU32
     Plain("union", <<<<15>>, <<7>>>>),               \* 17
     Pun(<<<<9>>, <<17>>>>, <<{"c"}, {"rust"}>>),     \* 18 unions of a kind
     Pun(<<<<4>>, <<1>>>>, <<{"rust"}, {"c"}>>),      \* 19 an enum is no u32
     Pun(<<<<9>>, <<7>>>>, <<{"rust"}, {"c"}>>),      \* 20 of one length for some values
     Pun(<<<<18>>, <<9>>>>, <<{"rust"}, {"c", "rust"}>>), \* 21 a pun in a pun
     Prim(16, {"rust"}),                              \* 22 long double
     Pun(<<<<7>>, <<9>>>>, <<{"c"}, {"rust"}>>),      \* 23 as 20, a union last
     Holding("struct", <<<<1, 25>>>>),                \* 24 a node with no end
     Holding("ref", <<<<24>>>>),                      \* 25
     Plain("union", <<>>)                             \* 26 a union without fields
  >>

Func(ins, outs) == [ins |-> ins, outs |-> outs, variadic |-> FALSE]
VarFunc(ins, outs) == [Func(ins, outs) EXCEPT !.variadic = TRUE]
MCPrograms ==
  { <<Func(<<8, 4>>, <<9>>), VarFunc(<<1, 7>>, <<2>>), Func(<<5, 7>>, <<3>>)>>,
    <<Func(<<10, 6>>, <<10>>), Func(<<9>>, <<>>)>>,
    <<VarFunc(<<1, 9>>, <<3>>), Func(<<4>>, <<>>), VarFunc(<<16, 2, 10>>, <<9>>)>>,
    <<Func(<<12>>, <<2>>), Func(<<11, 1>>, <<4>>)>>,
    <<Func(<<16, 18>>, <<16>>), Func(<<21, 1>>, <<18>>)>>,
    <<Func(<<18, 22>>, <<22>>), Func(<<>>, <<5>>)>>,
    <<Func(<<19>>, <<1>>), Func(<<20>>, <<7>>)>>,
    <<Func(<<23>>, <<1>>)>>,
    <<Func(<<7>>, <<1, 1>>), Func(<<1>>, <<11>>)>>,
    <<Func(<<26, 1>>, <<3>>), Func(<<1, 24>>, <<>>)>>,
    <<Func(<<>>, <<>>), Func(<<>>, <<5>>)>> }

(* Values from number Chosen on draw 0, so that lists end. *)
Chosen == 6
MCDraws == {[n \in 1 .. Chosen |-> (a * (n - 1) + b) % 3] : a \in 0 .. 2, b \in 0 .. 2}

(* Deep enough for the lists, and for a type without an end to reach. *)
MCDepth == 16
=============================================================================
