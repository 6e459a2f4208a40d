------------------------------ MODULE KeyNames ------------------------------
(***************************************************************************)
(* unsafe-storage-patterns on Symbol::new: a key that is not a literal has *)
(* to name a constant. The check knows constants by their names, wherever  *)
(* in the file they are declared; the language knows scopes. A file is a   *)
(* sequence of declarations and uses of one name, in two methods.          *)
(***************************************************************************)
EXTENDS Naturals, Sequences

CONSTANT MaxNames   \* bound: declarations and uses

VARIABLE names

\* "const" is at the top of the file (method 0) or in a method, "inner" in an
\* inline module, "assoc" in the impl block; "param" makes the name one of the
\* method's parameters. "key" is Symbol::new(&env, name), "self" has Self::name
\* and "lit" a literal.
Entries ==
  [does : {"const"}, fn : 0 .. 2] \cup [does : {"inner", "assoc"}, fn : {0}]
    \cup [does : {"param", "key", "self", "lit"}, fn : 1 .. 2]

\* is_symbol_new_path
IsUse(e) == e.does \in {"key", "self", "lit"}
Declared(does, fn) == \E n \in DOMAIN names : names[n].does = does /\ names[n].fn = fn

-----------------------------------------------------------------------------

\* Mutant: constants in a body are not collected.
TopLevelOnly == Declared("const", 0)
\* collect_const_and_static_names: items of the whole tree; an associated
\* constant is no item.
IsKnownConst == Declared("inner", 0) \/ \E fn \in 0 .. 2 : Declared("const", fn)

\* symbol_new_second_arg_is_string_lit: of a path the last segment is looked up.
IsFixed(e) == e.does = "lit" \/ IsKnownConst

\* visit_expr_call
DynamicKeys == {n \in DOMAIN names : IsUse(names[n]) /\ ~IsFixed(names[n])}

-----------------------------------------------------------------------------

Init == names = <<>>
Next ==
  /\ Len(names) < MaxNames
  /\ \E e \in Entries :
       /\ IsUse(e) \/ ~Declared(e.does, e.fn)
       /\ names' = Append(names, e)

-----------------------------------------------------------------------------
(* Property *)

\* What a use stands for: a constant of its method comes before a parameter.
InScope(fn) == Declared("const", 0) \/ Declared("const", fn)
IsStable(e) == e.does \in {"self", "lit"} \/ InScope(e.fn)

\* A file that compiles: a parameter cannot have the name of a constant that is
\* in scope around its method, and every use has something to stand for.
Compiles ==
  /\ \A fn \in 1 .. 2 : ~(Declared("const", 0) /\ Declared("param", fn))
  /\ \A n \in DOMAIN names :
       CASE names[n].does = "key"  -> InScope(names[n].fn) \/ Declared("param", names[n].fn)
         [] names[n].does = "self" -> Declared("assoc", 0)
         [] OTHER                  -> TRUE

\* A key made from a parameter is reported, unless a constant of that name is
\* somewhere in the file although not in scope; a key made from a constant is
\* not, unless it is an associated constant, which the comment on the collector
\* claims for it (see ImplConstantsAreKnown).
KeyNameFindings ==
  Compiles =>
    \A n \in {m \in DOMAIN names : IsUse(names[m])} :
      /\ ~IsStable(names[n]) => \/ n \in DynamicKeys
                                \/ Declared("inner", 0) \/ Declared("const", 3 - names[n].fn)
      /\ n \in DynamicKeys => ~IsStable(names[n]) \/ names[n].does = "self"
=============================================================================
