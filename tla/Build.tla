-------------------------------- MODULE Build --------------------------------
(***************************************************************************)
(* One run of the compiler: main and build of src/main.cpp, which read the *)
(* command line; codegen_link and generate_h_file of src/codegen.cpp,      *)
(* which write the object file and the header; and os_spawn_process of     *)
(* src/os.cpp, whose child becomes ld and runs beside the compiler, which  *)
(* does not wait for it.  What codegen_add_root_code does with the source  *)
(* in between is reduced to its verdict.                                   *)
(***************************************************************************)
EXTENDS Integers, Sequences, FiniteSets

CONSTANTS
  Word,         \* strings
  Option,       \* those that begin with two dashes
  Null,         \* the null pointer, and OutTypeUnknown
  CommandLines, \* the arguments behind arg0
  Sources       \* the sources: see Source

Flag == {"--release", "--strip", "--static"}
Valued == {"--output", "--export", "--name"}
Command == {"build", "version"}
OutType == {"exe", "lib", "obj"}
IncludePath == "-Ipath"   \* an option of the usage text (main.cpp:20)
ASSUME WordsAssumption ==
  /\ Flag \cup Valued \subseteq Option /\ Option \cap Command = {}
  /\ IncludePath \notin Option
  /\ Option \cup Command \cup OutType \subseteq Word /\ Null \notin Word
  /\ CommandLines \subseteq Seq(Word)

(* Whether the analysis finds nothing wrong, the root export declaration,  *)
(* if any, and the functions of fn_defs: whether they are exported and     *)
(* have only types that to_c_type knows.                                   *)
Source == [sound : BOOLEAN,
           export : {<<>>} \cup {<<[name |-> n, type |-> t]>> : n \in Word, t \in OutType},
           fns : Seq([exported : BOOLEAN, cTypes : BOOLEAN])]
ASSUME SourcesAssumption == Sources \subseteq Source

VARIABLES
  argv, source,  \* the input
  i,             \* the argument main's loop is at
  cmd,           \* "none", "build" or "version"
  b,             \* Build: the options
  pc,            \* where the compiler is
  g,             \* CodeGen: root_out_name and out_type
  files,         \* the files written, each with its contents
  ld,            \* the child: "none", "forked", "linking", "linked", "failed"
  exit           \* the compiler's status: "running", "success", "failure",
                 \* or "abort" (a panic or a crash)

inputs == <<argv, source>>
vars == <<inputs, i, cmd, b, pc, g, files, ld, exit>>

Init == /\ argv \in CommandLines
        /\ source \in Sources
        /\ i = 1
        /\ cmd = "none"
        /\ b = [flags |-> {}, input |-> Null, output |-> Null, name |-> Null, type |-> Null]
        /\ pc = "arguments"
        /\ g = [name |-> Null, type |-> Null]
        /\ files = <<>>
        /\ ld = "none"
        /\ exit = "running"

At(step) == exit = "running" /\ pc = step
Goto(step) == pc' = step
Stop(status) == exit' = status /\ UNCHANGED pc
Continue == UNCHANGED exit

-----------------------------------------------------------------------------
(* main: the loop over the arguments.                                      *)

ReadingArgument == At("arguments") /\ i <= Len(argv)
Arg == argv[i]
HasValue == i < Len(argv)
Value == IF HasValue THEN argv[i + 1] ELSE Null
(* mutant: no increment *)
Rereading(n) == i' = i /\ Continue /\ UNCHANGED <<inputs, pc, g, files, ld>>
Reading(n) == i' = i + n /\ Continue /\ UNCHANGED <<inputs, pc, g, files, ld>>

FlagArgument == /\ ReadingArgument
                /\ Arg \in Flag
                /\ b' = [b EXCEPT !.flags = @ \cup {Arg}]
                /\ Reading(1)
                /\ UNCHANGED cmd

FirstValue(old) == IF old = Null THEN Value ELSE old   \* mutant
NewValue(old) == Value

ValueArgument == /\ ReadingArgument
                 /\ HasValue
                 /\ \/ Arg = "--output" /\ b' = [b EXCEPT !.output = NewValue(@)]
                    \/ Arg = "--name" /\ b' = [b EXCEPT !.name = NewValue(@)]
                    \/ /\ Arg = "--export"
                       /\ Value \in OutType
                       /\ b' = [b EXCEPT !.type = NewValue(@)]
                 /\ Reading(2)
                 /\ UNCHANGED cmd

CommandArgument == /\ ReadingArgument
                   /\ cmd = "none"
                   /\ Arg \in Command
                   /\ cmd' = Arg
                   /\ Reading(1)
                   /\ UNCHANGED b

InputArgument == /\ ReadingArgument
                 /\ Arg \notin Option
                 /\ cmd = "build"
                 /\ b.input = Null
                 /\ b' = [b EXCEPT !.input = Arg]
                 /\ Reading(1)
                 /\ UNCHANGED cmd

BadOption == /\ Arg \in Option \ Flag
             /\ \/ ~HasValue
                \/ Arg \notin Valued
                \/ Arg = "--export" /\ Value \notin OutType
BadWord == /\ Arg \notin Option
           /\ \/ cmd = "none" /\ Arg \notin Command
              \/ cmd = "build" /\ b.input # Null
              \/ cmd = "version"

(* Every return of usage's status; "version" prints and succeeds.          *)
Usage == /\ \/ ReadingArgument /\ (BadOption \/ BadWord)
            \/ /\ At("arguments") /\ i > Len(argv)
               /\ cmd = "none" \/ (cmd = "build" /\ b.input = Null)
         /\ Stop("failure")
         /\ UNCHANGED <<inputs, i, cmd, b, g, files, ld>>

Version == /\ At("arguments")
           /\ i > Len(argv)
           /\ cmd = "version"
           /\ Stop("success")
           /\ UNCHANGED <<inputs, i, cmd, b, g, files, ld>>

-----------------------------------------------------------------------------
(* build, up to codegen_link.                                              *)

(* The source is read, or cannot be; a missing --name makes                *)
(* buf_create_from_str read a null pointer, whether for the name or for    *)
(* "verbose" (main.cpp:74, 76).                                            *)
StartBuild ==
  /\ At("arguments")
  /\ i > Len(argv)
  /\ cmd = "build"
  /\ b.input # Null
  /\ \/ Stop("abort") /\ UNCHANGED g
     \/ /\ b.name # Null
        /\ g' = [name |-> IF b.type # Null THEN b.name ELSE Null, type |-> b.type]
        /\ Goto("source") /\ Continue
  /\ UNCHANGED <<inputs, i, cmd, b, files, ld>>

(* codegen_add_root_code: the analysis settles the name and the type that  *)
(* the command line leaves open, or reports an error and exits; loading,   *)
(* analysis and code generation can also abort.                            *)
Exported == source.export # <<>>
OutAfter == [name |-> IF g.name = Null /\ Exported THEN source.export[1].name ELSE g.name,
             type |-> IF g.type = Null /\ Exported THEN source.export[1].type ELSE g.type]
Accepted == source.sound /\ OutAfter.name # Null /\ OutAfter.type # Null

AddRootCode ==
  /\ At("source")
  /\ g' = OutAfter
  /\ \/ Accepted /\ Goto("emit") /\ Continue
     \/ ~Accepted /\ Stop("failure")
     \/ Stop("abort")
  /\ UNCHANGED <<inputs, i, cmd, b, files, ld>>

-----------------------------------------------------------------------------
(* codegen_link.                                                           *)

(* Files are <<name, suffix>>.                                             *)
OutFile == IF b.output # Null THEN b.output ELSE g.name
SameAsOutFile == <<OutFile, "">>   \* mutant: the object is what ld writes
ObjectFile == <<OutFile, IF g.type = "obj" THEN "" ELSE ".o">>
Linked == IF g.type = "lib" THEN <<g.name, ".so">> ELSE <<OutFile, "">>
HeaderFile == <<g.name, ".h">>

(* Contents are <<kind, text>>; only a header's text matters here.         *)
Torn == <<"torn", <<>>>>
Object == <<"object", <<>>>>
Program == <<"program", <<>>>>
Header(text) == <<"header", text>>
Write(file, contents) ==
  files' = [f \in DOMAIN files \cup {file} |-> IF f = file THEN contents ELSE files[f]]

(* LLVMTargetMachineEmitToFile opens the object file, then fills it in.    *)
OpenObject == /\ At("emit")
              /\ \/ Write(ObjectFile, Torn) /\ Goto("emitting") /\ Continue
                 \/ Stop("abort") /\ UNCHANGED files
              /\ UNCHANGED <<inputs, i, cmd, b, g, ld>>

EmitObject == /\ At("emitting")
              /\ \/ Write(ObjectFile, Object) /\ Goto("link") /\ Continue
                 \/ Stop("abort") /\ UNCHANGED files
              /\ UNCHANGED <<inputs, i, cmd, b, g, ld>>

FinishObject == /\ At("link")
                /\ g.type = "obj"
                /\ Stop("success")
                /\ UNCHANGED <<inputs, i, cmd, b, g, files, ld>>

StaticLibrary == g.type = "lib" /\ "--static" \in b.flags

NoArchiver == /\ At("link")
              /\ StaticLibrary
              /\ Stop("abort")
              /\ UNCHANGED <<inputs, i, cmd, b, g, files, ld>>

(* os_spawn_process: fork, or panic; the parent goes on at once.           *)
Spawn == /\ At("link")
         /\ g.type # "obj"
         /\ ~StaticLibrary
         /\ \/ /\ ld' = "forked"
               /\ Goto(IF g.type = "lib" THEN "header" ELSE "finish")
               /\ Continue
            \/ Stop("abort") /\ UNCHANGED ld
         /\ UNCHANGED <<inputs, i, cmd, b, g, files>>

(* generate_h_file empties the header first; a type that has no C name     *)
(* then panics.                                                            *)
OpenHeader == /\ At("header")
              /\ \/ Write(HeaderFile, Torn) /\ Goto("declare") /\ Continue
                 \/ Stop("abort") /\ UNCHANGED files
              /\ UNCHANGED <<inputs, i, cmd, b, g, ld>>

Exports == {n \in DOMAIN source.fns : source.fns[n].exported}
DeclaresAll == DOMAIN source.fns   \* mutant: no look at the visibility
Declares == Exports

(* The declarations are collected in a buffer by buf_appendf, at least two *)
(* pieces for each function, and printed as a C string.                    *)
HText == INSTANCE Text WITH Nul <- <<0, "end">>
Piece(n, part) == <<<<n, part>>>>
HBuf[n \in 0..Len(source.fns)] ==
  IF n = 0 THEN <<>>
  ELSE IF n \notin Declares THEN HBuf[n - 1]
  ELSE HText!Formatted(HText!Formatted(HBuf[n - 1], Piece(n, "head")), Piece(n, "parameters"))
WriteHeader == /\ At("declare")
               /\ \/ /\ \A n \in Declares : source.fns[n].cTypes
                     /\ Write(HeaderFile, Header(HText!CString(HBuf[Len(source.fns)])))
                     /\ Goto("finish") /\ Continue
                  \/ Stop("abort") /\ UNCHANGED files
               /\ UNCHANGED <<inputs, i, cmd, b, g, ld>>

Finish == /\ At("finish")
          /\ Stop("success")
          /\ UNCHANGED <<inputs, i, cmd, b, g, files, ld>>

-----------------------------------------------------------------------------
(* The child: execvp fails, or ld reads the object and writes its output,  *)
(* or fails at either point.                                               *)
StartLd == /\ ld = "forked"
           /\ \/ ld' = "linking" /\ Write(Linked, Torn)
              \/ ld' = "failed" /\ UNCHANGED files
           /\ UNCHANGED <<inputs, i, cmd, b, pc, g, exit>>

EndLd == /\ ld = "linking"
         /\ \/ ld' = "linked" /\ Write(Linked, Program)
            \/ ld' = "failed" /\ UNCHANGED files
         /\ UNCHANGED <<inputs, i, cmd, b, pc, g, exit>>

Compiler == \/ FlagArgument \/ ValueArgument \/ CommandArgument \/ InputArgument
            \/ Usage \/ Version \/ StartBuild \/ AddRootCode
            \/ OpenObject \/ EmitObject \/ FinishObject \/ NoArchiver \/ Spawn
            \/ OpenHeader \/ WriteHeader \/ Finish
Linker == StartLd \/ EndLd
Next == Compiler \/ Linker

(* Both processes are run by the system.                                   *)
Spec == Init /\ [][Next]_vars /\ WF_vars(Compiler) /\ WF_vars(Linker)
-----------------------------------------------------------------------------
(* Properties.                                                             *)

Contents == {Torn, Object, Program, Header(<<>>)} \cup
            {Header(Piece(n, "head")) : n \in DOMAIN source.fns}

(* Every variable keeps its type.                                          *)
TypeOK == /\ i \in 1..Len(argv) + 1
          /\ cmd \in {"none"} \cup Command
          /\ b.flags \subseteq Flag
          /\ b.type \in OutType \cup {Null} /\ g.type \in OutType \cup {Null}
          /\ \A f \in DOMAIN files : f[1] # Null /\ files[f] \in Contents
          /\ ld \in {"none", "forked", "linking", "linked", "failed"}
          /\ exit \in {"running", "success", "failure", "abort"}

(* What the arguments say, read without main's loop: an option with a      *)
(* value swallows the next argument whatever it looks like, the last value *)
(* of an option counts, the first other word is the command and the second *)
(* the input (main.cpp:93-148).  Other words are all those without two     *)
(* dashes: -Ipath, which the usage text lists as an option, is taken for   *)
(* the file to compile (lines 20, 95).  Starts(line)[n]: the arguments up  *)
(* to the nth that are not swallowed.                                      *)
Starts(line) ==
  LET UpTo[n \in 0..Len(line)] ==
        IF n = 0 THEN {}
        ELSE IF n - 1 \in UpTo[n - 1] /\ line[n - 1] \in Valued THEN UpTo[n - 1]
        ELSE UpTo[n - 1] \cup {n}
  IN UpTo
Said == Starts(argv)[Len(argv)]
Places(option) == {n \in Said : argv[n] = option}
Words == {n \in Said : argv[n] \notin Option}
Last(P) == CHOOSE n \in P : \A m \in P : m <= n
Given(option) == IF Places(option) = {} THEN Null ELSE argv[1 + Last(Places(option))]
OptionsAsGiven ==
  pc # "arguments" =>
    /\ b.output = Given("--output")
    /\ b.name = Given("--name")
    /\ b.type = Given("--export")
    /\ b.flags = {f \in Flag : Places(f) # {}}
    /\ Cardinality(Words) = 2
    /\ \E m, n \in Words : m < n /\ argv[m] = "build" /\ argv[n] = b.input
    /\ Places(IncludePath) # {} => b.input = IncludePath

(* ld works on a complete object file, and on no file that the compiler    *)
(* writes meanwhile: the compiler emits the object first, writes only the  *)
(* header beside ld, and gives the three files different names             *)
(* (codegen.cpp:800-810, 833-859).                                         *)
LinkerReadsObject ==
  /\ ld # "none" => ObjectFile \in DOMAIN files /\ files[ObjectFile] = Object
  /\ ld = "linking" => files[Linked] = Torn
  /\ ld = "linked" => files[Linked] = Program

(* The status says as much as it can: after "success" a build has its      *)
(* object file, a linker started unless the object is what was asked for,  *)
(* and, for a library, a header that has the first half of the first       *)
(* exported function's declaration and no other, for the NUL that          *)
(* buf_appendf leaves ends what fprintf prints (codegen.cpp:731-747, 774); *)
(* after an error that was reported nothing was written.  An abort leaves  *)
(* a linker behind only in a library, whose header is then missing or      *)
(* empty; an exported type without a C name ends in this (lines 705, 712). *)
FirstDeclared ==
  IF Exports = {} THEN <<>>
  ELSE Piece(CHOOSE n \in Exports : \A m \in Exports : n <= m, "head")
StatusIsHonest ==
  /\ (exit = "success" /\ cmd = "build") =>
       /\ files[ObjectFile] = Object
       /\ (ld = "none") <=> (g.type = "obj")
       /\ IF g.type # "lib" THEN HeaderFile \notin DOMAIN files
          ELSE /\ files[HeaderFile] = Header(FirstDeclared)
               /\ \A n \in Exports : source.fns[n].cTypes
  /\ exit = "failure" => files = <<>> /\ ld = "none"
  /\ (exit = "abort" /\ ld # "none") =>
       g.type = "lib" /\ (HeaderFile \in DOMAIN files => files[HeaderFile] = Torn)
  /\ files # <<>> => source.sound

(* Files are what the compiler's status and their names say.               *)
FilesConsistent == TypeOK /\ StatusIsHonest

(* The compiler exits, and the linker it leaves behind ends as well.       *)
BothEnd == <>(exit # "running" /\ ld \notin {"forked", "linking"})
=============================================================================
