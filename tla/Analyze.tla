------------------------------- MODULE Analyze -------------------------------
(***************************************************************************)
(* semantic_analyze of src/analyze.cpp: every import, in the order of      *)
(* import_table, is previewed, which fills in the function table, and then *)
(* analyzed, which checks the bodies against it.  Top-level declarations   *)
(* are the records that ast_parse could hand over; nodes are records (see  *)
(* Expressions), type expressions and entries are sequences (see Types).   *)
(***************************************************************************)
EXTENDS Types, FiniteSets, SequencesExt

CONSTANTS
  Import,    \* the keys of import_table
  Programs,  \* functions from imports to the sequences of their declarations
  Settings,  \* the <<out_name is set, out_type>> of the command line
  AnalyzeBody(_, _, _)  \* analyze_expression of a function's body, given
             \* the signatures in the table, the return type and the body:
             \* a record of its errors and of whether it panics

(* The root file is an import, the first to be put in the table            *)
(* (codegen.cpp:640).                                                      *)
OutType == {"unknown", "exe", "lib", "obj"}
ASSUME ProgramsAssumption ==
  \A p \in Programs :
    /\ DOMAIN p \subseteq Import
    /\ DOMAIN p # {}
    /\ \A m \in DOMAIN p : p[m] \in Seq(ToSet(p[m]))
ASSUME SettingsAssumption == Settings \subseteq BOOLEAN \X OutType

None == <<"", 0>>   \* no declaration

VARIABLES
  program,         \* what was loaded
  options,         \* the Settings the compiler was started with
  visited,         \* the imports begun, in the order of the iterator
  phase,           \* "select", "preview" or "analyze"
  at,              \* decl_i
  fnTable,         \* g->fn_table: name to entry
  fnDefs,          \* g->fn_defs: the declarations to generate code for
  skip,            \* declarations with fn_def_node.skip
  implicitReturn,  \* declarations with fn_def_node.add_implicit_return
  linkTable,       \* g->link_table
  errors,          \* the messages in g->errors
  rootExport,      \* g->root_export_decl
  out,             \* <<g->root_out_name is set, g->out_type>>
  outcome          \* "running", "done", "panic" or "crash"

tables == <<fnTable, fnDefs, skip, implicitReturn, linkTable, rootExport, out>>
inputs == <<program, options>>
vars == <<inputs, visited, phase, at, tables, errors, outcome>>

Init == /\ program \in Programs
        /\ visited = <<>>
        /\ phase = "select"
        /\ at = 1
        /\ fnTable = <<>>
        /\ fnDefs = <<>>
        /\ skip = {}
        /\ implicitReturn = {}
        /\ linkTable = {}
        /\ errors = {}
        /\ rootExport = None
        /\ options \in Settings
        /\ out = options
        /\ outcome = "running"

Current == Last(visited)
Declarations == program[Current]
Declaration == Declarations[at]
Id == <<Current, at>>
DeclarationOf(id) == program[id[1]][id[2]]

In(step, kind) == /\ outcome = "running"
                  /\ phase = step
                  /\ at <= Len(Declarations)
                  /\ Declaration.kind = kind
Advance == at' = at + 1 /\ UNCHANGED <<inputs, visited, phase>>
Stop(how) == outcome' = how /\ UNCHANGED <<inputs, visited, phase, at, tables, errors>>

(* Directives are <<name, param>>.  ast_parse_directive leaves the         *)
(* parameter unset, and to hash or read an unset one fails an assertion    *)
(* (buffer.cpp:56, buffer.hpp:42).                                         *)
DirectiveErrors(directives, valid) ==
  {"invalid directive" : d \in {e \in ToSet(directives) : e[1] \notin valid}}
ReadsUnset(directives, name) == \E i \in DOMAIN directives : directives[i] = <<name, "unset">>

(* resolve_function_proto, and what a call sees of its result.             *)
ProtoErrors(fn) ==
  DirectiveErrors(fn.directives, {}) \cup
  UNION {TypeErrors(fn.params[i]) : i \in DOMAIN fn.params} \cup
  TypeErrors(fn.returns)
Entry(fn, id, extern) ==
  [params  |-> [i \in DOMAIN fn.params |-> ResolveType(fn.params[i])],
   returns |-> ResolveType(fn.returns),
   decl    |-> id, extern |-> extern]
Put(name, entry) ==
  [n \in DOMAIN fnTable \cup {name} |-> IF n = name THEN entry ELSE fnTable[n]]

-----------------------------------------------------------------------------
(* semantic_analyze: the next import, and the end.                         *)

NextImport ==
  /\ outcome = "running"
  /\ phase = "select"
  /\ \E m \in DOMAIN program : m \notin ToSet(visited) /\ visited' = Append(visited, m)
  /\ phase' = "preview"
  /\ at' = 1
  /\ UNCHANGED <<inputs, tables, errors, outcome>>

Finish == /\ outcome = "running"
          /\ phase = "select"
          /\ ToSet(visited) = DOMAIN program
          /\ outcome' = "done"
          /\ UNCHANGED <<inputs, visited, phase, at, tables, errors>>

-----------------------------------------------------------------------------
(* preview_function_declarations.                                          *)

PreviewUse == /\ In("preview", "Use")
              /\ Advance
              /\ UNCHANGED <<tables, errors, outcome>>

(* The functions of an extern block replace those of the same name.        *)
PreviewExtern ==
  /\ In("preview", "Extern")
  /\ ~ReadsUnset(Declaration.directives, "link")
  /\ LET fns   == Declaration.fns
         named(n) == {i \in DOMAIN fns : fns[i].name = n}
         names == {fns[i].name : i \in DOMAIN fns}
         latest(n) == CHOOSE i \in named(n) : \A j \in named(n) : j <= i
     IN  /\ fnTable' = [n \in DOMAIN fnTable \cup names |->
                          IF n \in names THEN Entry(fns[latest(n)], Id, TRUE) ELSE fnTable[n]]
         /\ errors' = errors \cup DirectiveErrors(Declaration.directives, {"link"}) \cup
                      UNION {ProtoErrors(fns[i]) : i \in DOMAIN fns}
  /\ linkTable' = linkTable \cup
       {d[2] : d \in {e \in ToSet(Declaration.directives) : e[1] = "link"}}
  /\ Advance
  /\ UNCHANGED <<fnDefs, skip, implicitReturn, rootExport, out, outcome>>

NoneDefined(name) == FALSE   \* mutant: redefinitions are not noticed
DefinedInImport(name) ==   \* mutant: asks the table of the import
  name \in DOMAIN fnTable /\ fnTable[name].decl[1] = Current
Defined(name) == name \in DOMAIN fnTable

RedefineFn ==
  /\ In("preview", "FnDef")
  /\ Defined(Declaration.name)
  /\ errors' = errors \cup {"redifinition"}
  /\ skip' = skip \cup {Id}
  /\ Advance
  /\ UNCHANGED <<fnTable, fnDefs, implicitReturn, linkTable, rootExport, out, outcome>>

PreviewFnDef ==
  /\ In("preview", "FnDef")
  /\ ~Defined(Declaration.name)
  /\ fnTable' = Put(Declaration.name, Entry(Declaration, Id, FALSE))
  /\ fnDefs' = Append(fnDefs, Id)
  /\ errors' = errors \cup ProtoErrors(Declaration)
  /\ Advance
  /\ UNCHANGED <<skip, implicitReturn, linkTable, rootExport, out, outcome>>

(* parse_version_string wants two dots.                                    *)
VersionErrors(directives) ==
  {"invalid version_string" : d \in
     {e \in ToSet(directives) : e[1] = "version" /\ e[2] # "1.2.3"}}

ExportType == {<<"exectuable", "exe">>, <<"library", "lib">>, <<"boject", "obj">>}
OutAfter(type) == <<TRUE, IF out[2] = "unknown" THEN type ELSE out[2]>>

(* The errors of an invalid type are followed by a read of the             *)
(* uninitialized export_out_type when no type is known.                    *)
PreviewRootExport ==
  /\ In("preview", "RootExport")
  /\ ~ReadsUnset(Declaration.directives, "version")
  /\ LET before == DirectiveErrors(Declaration.directives, {"version"}) \cup
                   VersionErrors(Declaration.directives)
     IN  \/ /\ rootExport # None
            /\ errors' = errors \cup before \cup {"only one root export declaration allowed"}
            /\ UNCHANGED <<rootExport, out>>
         \/ /\ rootExport = None
            /\ rootExport' = Id
            /\ \E t \in ExportType : t[1] = Declaration.type /\ out' = OutAfter(t[2])
            /\ errors' = errors \cup before
         \/ /\ rootExport = None
            /\ rootExport' = Id
            /\ \A t \in ExportType : t[1] # Declaration.type
            /\ \E type \in OutType : out' = OutAfter(type)
            /\ errors' = errors \cup before \cup {"invalid export type"}
  /\ Advance
  /\ UNCHANGED <<fnTable, fnDefs, skip, implicitReturn, linkTable, outcome>>

PreviewCrash ==
  /\ \/ In("preview", "Extern") /\ ReadsUnset(Declaration.directives, "link")
     \/ In("preview", "RootExport") /\ ReadsUnset(Declaration.directives, "version")
  /\ Stop("crash")

EndPreview == /\ outcome = "running"
              /\ phase = "preview"
              /\ at > Len(Declarations)
              /\ phase' = "analyze"
              /\ at' = 1
              /\ UNCHANGED <<inputs, visited, tables, errors, outcome>>

-----------------------------------------------------------------------------
(* analyze_top_level_declaration.                                          *)

SkipFnDef == /\ In("analyze", "FnDef")
             /\ Id \in skip
             /\ Advance
             /\ UNCHANGED <<tables, errors, outcome>>

(* check_fn_def_control_flow.                                              *)
ReturnsAt(body) == {i \in DOMAIN body : body[i].kind = "Return"}
NeverReturns(body) == ReturnsAt(body) = {}
ReturnsInNoReturn(fn) ==
  ResolveType(fn.returns) = EntryUnreachable /\ ReturnsAt(fn.body) # {}
BehindReturn(body) ==
  {i \in DOMAIN body \ ReturnsAt(body) : \E j \in ReturnsAt(body) : j < i}
NeedsImplicitReturn(fn) == NeverReturns(fn.body) /\ ResolveType(fn.returns) = EntryVoid
ControlFlowErrors(fn) ==
  IF ReturnsInNoReturn(fn)
  THEN {"return statement function with unreachable return type"}
  ELSE {"unreachable code" : i \in BehindReturn(fn.body)} \cup
       (IF NeverReturns(fn.body) /\ ResolveType(fn.returns) \notin {EntryVoid, EntryUnreachable}
        THEN {"control reaches end of non-void function"} ELSE {})

AnalyzeFnDef ==
  /\ In("analyze", "FnDef")
  /\ Id \notin skip
  /\ implicitReturn' = implicitReturn \cup (IF NeedsImplicitReturn(Declaration) THEN {Id} ELSE {})
  /\ LET body == AnalyzeBody(fnTable, ResolveType(Declaration.returns), Declaration.body)
     IN  /\ errors' = errors \cup ControlFlowErrors(Declaration) \cup body.errors
         /\ outcome' = IF body.panic THEN "panic" ELSE outcome
  /\ Advance
  /\ UNCHANGED <<fnTable, fnDefs, skip, linkTable, rootExport, out>>

AnalyzeUse == /\ In("analyze", "Use")
              /\ errors' = errors \cup DirectiveErrors(Declaration.directives, {})
              /\ Advance
              /\ UNCHANGED <<tables, outcome>>

(* An extern block and a root export fall through to the case of "use" and *)
(* read its directive list from their own data: the length and capacity    *)
(* of fn_decls as a pointer; the bytes of the export's name as a list,     *)
(* which may look empty.                                                   *)
ReadOverlappingDirective ==
  \/ (In("analyze", "Extern") \/ In("analyze", "RootExport")) /\ Stop("crash")
  \/ In("analyze", "RootExport") /\ Advance /\ UNCHANGED <<tables, errors, outcome>>

-----------------------------------------------------------------------------
(* The end of analyze_root: every import asks for the name and type.       *)
ExportErrors ==
  IF ~out[1] THEN {"missing export declaration and outptu name not provided"}
  ELSE IF out[2] = "unknown" THEN {"missing export declaration and export type not provided"}
  ELSE {}

EndImport == /\ outcome = "running"
             /\ phase = "analyze"
             /\ at > Len(Declarations)
             /\ errors' = errors \cup ExportErrors
             /\ phase' = "select"
             /\ UNCHANGED <<inputs, visited, at, tables, outcome>>

Next == \/ NextImport \/ Finish
        \/ PreviewUse \/ PreviewExtern \/ RedefineFn \/ PreviewFnDef
        \/ PreviewRootExport \/ PreviewCrash \/ EndPreview
        \/ SkipFnDef \/ AnalyzeFnDef \/ AnalyzeUse \/ ReadOverlappingDirective
        \/ EndImport

Spec == Init /\ [][Next]_vars
-----------------------------------------------------------------------------
(* Properties.                                                             *)

Kind == {"Use", "Extern", "FnDef", "RootExport"}
Declared == UNION {{m} \X DOMAIN program[m] : m \in ToSet(visited)}
FnDefsOf(ids) == {id \in ids : DeclarationOf(id).kind = "FnDef"}

(* Every variable keeps its type.                                          *)
TypeOK ==
  /\ DOMAIN program \subseteq Import
  /\ ToSet(visited) \subseteq DOMAIN program
  /\ phase \in {"select", "preview", "analyze"}
  /\ phase # "select" => visited # <<>> /\ at \in 1..Len(Declarations) + 1
  /\ \A n \in DOMAIN fnTable : fnTable[n].decl \in Declared
  /\ skip \cup implicitReturn \cup ToSet(fnDefs) \subseteq FnDefsOf(Declared)
  /\ rootExport = None \/ DeclarationOf(rootExport).kind = "RootExport"
  /\ out \in BOOLEAN \X OutType
  /\ outcome \in {"running", "done", "panic", "crash"}

(* Of the functions of one name, over all imports, exactly one gets code:  *)
(* each definition seen so far is either in fn_defs, alone with its name,  *)
(* or skipped because an error was reported (analyze.cpp:152-173).         *)
Seen == {id \in Declared : id[1] # Current \/ phase # "preview" \/ id[2] < at}
DefinedOnce ==
  /\ \A i, j \in DOMAIN fnDefs :
       DeclarationOf(fnDefs[i]).name = DeclarationOf(fnDefs[j]).name => i = j
  /\ ToSet(fnDefs) \cap skip = {}
  /\ ToSet(fnDefs) \cup skip = FnDefsOf(Seen)
  /\ skip # {} => errors # {}

(* The tables fit together and to the declarations seen so far.            *)
TablesConsistent == TypeOK /\ DefinedOnce

(* What code generation relies on after an analysis without errors: the    *)
(* entry it takes from fn_defs is the one it gave an LLVM function to by   *)
(* walking fn_table (codegen.cpp:446, 488), and its own declaration.       *)
ReadyToGenerate ==
  (outcome = "done" /\ errors = {}) =>
    /\ \A id \in ToSet(fnDefs) : fnTable[DeclarationOf(id).name].decl = id
    /\ \A n \in DOMAIN fnTable : ~fnTable[n].extern => fnTable[n].decl \in ToSet(fnDefs)
    /\ out[1] /\ out[2] # "unknown"
=============================================================================
