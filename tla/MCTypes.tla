------------------------------ MODULE MCTypes ------------------------------
(***************************************************************************)
(* Small programs for Types: two types that refer to each other in every   *)
(* way up to a bound, and a few with more.  In every cycle is a union or a *)
(* tagged with a variant that ends it, so that values of the types exist.  *)
(***************************************************************************)
EXTENDS Types

W(base, mods) == [base |-> base, mods |-> mods]
By(base)  == W(base, <<>>)
Ptr(base) == W(base, <<"ref">>)

Lists(S, n) == UNION {[1 .. k -> S] : k \in 0 .. n}
Decl(name, kind, fields) == [name |-> name, kind |-> kind, fields |-> fields]

(* Choices hold Choices or Items; Items hold Choices. *)
ChoiceParts == {W(b, m) : b \in {"Choice", "Item"}, m \in {<<>>, <<"ref">>, <<"ref", "ref">>}}
ItemParts   == {By("Choice"), Ptr("Choice"), W("Choice", <<"array">>)}
ChoiceDecls == {Decl("Choice", "union", Append(l, By("u32"))) : l \in Lists(ChoiceParts, 2)}
ItemDecls   == {Decl("Item", "struct", l) : l \in Lists(ItemParts, 2)}
               \cup {Decl("Item", "alias", <<w>>) : w \in ItemParts}

(* The second function is not selected. *)
Program(decls) ==
  [decls |-> decls, funcs |-> <<<<By("Item")>>, <<Ptr("Choice"), By("u32")>>>>, desired |-> {1}]
Pairs == {Program(<<c, i>>) : c \in ChoiceDecls, i \in ItemDecls}
         \cup {Program(<<i, c>>) : c \in ChoiceDecls, i \in ItemDecls}

Block(applies, decl) == [applies |-> applies, decl |-> decl]
PunItem(rust) ==
  [name |-> "Item", kind |-> "pun",
   blocks |-> <<Block(rust, Decl("Item", "struct", <<Ptr("Choice"), Ptr("Item")>>)),
                Block(~rust, Decl("Item", "alias", <<By("Flag")>>))>>]
NoPun == [name |-> "Item", kind |-> "pun",
          blocks |-> <<Block(FALSE, Decl("Item", "alias", <<By("u32")>>))>>]
ItemOrEnd == Decl("Choice", "union", <<Ptr("Item"), By("u32")>>)
Flag == Decl("Flag", "enum", <<>>)

(* IntrusiveList.procgen.kdl, puns, and what is rejected or unsupported.   *)
Extras ==
  {Program(<<Decl("List", "struct", <<By("Choice")>>),
             Decl("Item", "struct", <<By("u32"), By("Choice")>>),
             Decl("Choice", "tagged", <<Ptr("Item")>>)>>),
   Program(<<PunItem(TRUE), ItemOrEnd, Flag>>),
   Program(<<ItemOrEnd, PunItem(FALSE), Flag>>),
   Program(<<Flag, NoPun, ItemOrEnd>>),
   Program(<<Decl("Item", "struct", <<By("()"), W("()", <<"ref">>)>>), ItemOrEnd>>),
   Program(<<Decl("Item", "struct", <<By("Nowhere")>>), ItemOrEnd>>)}

SmallPrograms == Pairs \cup Extras
BothLangs == {"c", "rust"}
RustOnly == {"rust"}
COnly == {"c"}
=============================================================================
