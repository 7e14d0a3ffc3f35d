-------------------------------- MODULE Types --------------------------------
(***************************************************************************)
(* Type expressions and the type table entries they resolve to             *)
(* (resolve_type of src/analyze.cpp, define_primitive_types of             *)
(* src/codegen.cpp).  A type expression is the sequence of its primitive   *)
(* name and of the "mut" or "const" of each pointer to it, innermost       *)
(* first.  Pointer entries are shared through pointer_const_parent and     *)
(* pointer_mut_parent, so entries are equal when their sequences are.      *)
(***************************************************************************)
EXTENDS Integers, Sequences

EntryI32 == <<"i32">>
EntryUnreachable == <<"unreachable">>
EntryInvalid == <<"invalid">>
EntryVoid == <<"null">>   \* entry_void is never assigned

(* The names in type_table; "void" leads to entry_invalid.                 *)
PrimitiveEntry == {<<"u8", "u8">>, <<"i32", "i32">>, <<"void", "invalid">>,
                   <<"unreachable", "unreachable">>}
Known(name) == \E p \in PrimitiveEntry : p[1] = name
EntryName(name) == IF Known(name)
                   THEN (CHOOSE p \in PrimitiveEntry : p[1] = name)[2]
                   ELSE "invalid"

(* resolve_type: the entry of a type expression and the errors it adds.    *)
ResolveType(type) == [type EXCEPT ![1] = EntryName(type[1])]

IsPointer(type) == Len(type) > 1
TypeErrors(type) ==
  (IF Known(type[1]) THEN {} ELSE {"invalid type name"}) \cup
  (IF type[1] = "unreachable" /\ IsPointer(type)
   THEN {"pointer to unreachable not allowed"} ELSE {})
=============================================================================
