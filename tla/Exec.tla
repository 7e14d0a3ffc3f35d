-------------------------------- MODULE Exec --------------------------------
(***************************************************************************)
(* os_exec_process of src/os.cpp with read_all_fd_stream: a parent that    *)
(* makes pipes, forks, waits and reads, and its child, which becomes some  *)
(* program and writes into pipes of bounded size.  The program and the     *)
(* pipes are the system's: they are modelled from what os.cpp asks of them.*)
(*                                                                         *)
(* The descriptors 0, 1 and 2 are the standard streams, 3 to 8 the ends of *)
(* the pipes in the order of the calls; 9 stands for those not open.  The  *)
(* two numbers in stderr_pipe, which is never given a pipe (lines 84-92),  *)
(* are arbitrary.                                                          *)
(***************************************************************************)
EXTENDS Integers

CONSTANTS
  PipeSize,  \* the bytes that a pipe holds
  BufSize,   \* 0x2000: what read_all_fd_stream asks for
  Programs   \* what the child may do: see ChildProgram

ChildProgram == [out : Nat, err : Nat,  \* the bytes it writes to 1 and 2
                 reads : BOOLEAN]       \* whether it reads 0 up to the end
ASSUME ExecAssumption == /\ PipeSize \in Nat \ {0} /\ BufSize \in Nat \ {0}
                         /\ Programs \subseteq ChildProgram

Descriptor == 0..9
Closed == <<"closed">>
Standard(n) == <<"standard", n>>
ReadEnd(p) == <<"read", p>>
WriteEnd(p) == <<"write", p>>
Pipe == {"unused", "stdin", "stdout"}   \* the first pipe is made over

VARIABLES
  program, stderr_pipe,  \* the input
  parent,   \* where os_exec_process is
  fds,      \* what the parent's descriptors are open on
  child,    \* "none", "forked", "running", "dead", or "failed": it died
            \* before it became the program
  childFds, \* what the child's descriptors are open on
  todo,     \* the bytes the child has yet to write to 1 and 2
  held,     \* the bytes in every pipe
  received, \* the bytes the parent has read into each buffer
  length    \* the length of each buffer

input == <<program, stderr_pipe>>
parentVars == <<parent, fds, received, length>>
childVars == <<child, childFds, todo>>
execVars == <<input, parentVars, childVars, held>>

ExecInit ==
  /\ program \in Programs
  /\ stderr_pipe \in Descriptor \X Descriptor
  /\ parent = "pipe"
  /\ fds = [d \in Descriptor |-> IF d < 3 THEN Standard(d) ELSE Closed]
  /\ child = "none"
  /\ childFds = [d \in Descriptor |-> Closed]
  /\ todo = <<program.out, program.err>>
  /\ held = [p \in Pipe |-> 0]
  /\ received = [out |-> 0, err |-> 0]
  /\ length = [out |-> 0, err |-> 0]

ParentAt(step) == parent = step
Panic == parent' = "panic" /\ UNCHANGED <<fds, received, length>>

-----------------------------------------------------------------------------
(* The parent.                                                             *)

(* stdin_pipe is created twice: the first pair stays open and is lost.     *)
Piped == [fds EXCEPT ![3] = ReadEnd("unused"), ![4] = WriteEnd("unused"),
                     ![5] = ReadEnd("stdin"), ![6] = WriteEnd("stdin"),
                     ![7] = ReadEnd("stdout"), ![8] = WriteEnd("stdout")]
MakePipes == /\ ParentAt("pipe")
             /\ \/ /\ parent' = "fork"
                   /\ fds' = Piped
                   /\ UNCHANGED <<received, length>>
                \/ Panic
             /\ UNCHANGED <<input, childVars, held>>

Fork == /\ ParentAt("fork")
        /\ \/ /\ parent' = "close"
              /\ child' = "forked"
              /\ childFds' = fds
              /\ UNCHANGED <<fds, received, length, todo>>
           \/ Panic /\ UNCHANGED childVars
        /\ UNCHANGED <<input, held>>

(* The parent closes the ends it does not need, and whatever the third     *)
(* number happens to be.                                                   *)
KeepStdout == {5, stderr_pipe[2]}   \* mutant: the second is not closed
ToClose == {5, 8, stderr_pipe[2]}
CloseEnds == /\ ParentAt("close")
             /\ fds' = [d \in Descriptor |-> IF d \in ToClose THEN Closed ELSE fds[d]]
             /\ parent' = "wait"
             /\ UNCHANGED <<input, received, length, childVars, held>>

ChildEnded == child \in {"dead", "failed"}
Wait == /\ ParentAt("wait")
        /\ ChildEnded
        /\ parent' = "out"
        /\ length' = [length EXCEPT !.out = BufSize]
        /\ UNCHANGED <<input, fds, received, childVars, held>>

Writers(p) == \E d \in Descriptor : WriteEnd(p) \in {fds[d], childFds[d]}
ReadsFrom(stream) == IF stream = "out" THEN fds[7] ELSE fds[stderr_pipe[1]]

(* read_all_fd_stream adds nothing to actual_buf_len: every read goes to   *)
(* the start of the buffer, and the end cuts the buffer to that length.    *)
(* Reading a standard stream of the parent's ends or fails.                *)
LengthRead(stream) == received[stream]   \* mutant: actual_buf_len is counted
ActualBufLen(stream) == 0
ReadData(stream) ==
  /\ ParentAt(stream)
  /\ \E p \in Pipe, n \in 1..BufSize :
       /\ ReadsFrom(stream) = ReadEnd(p)
       /\ n <= held[p]
       /\ held' = [held EXCEPT ![p] = @ - n]
       /\ received' = [received EXCEPT ![stream] = @ + n]
  /\ length' = [length EXCEPT ![stream] = ActualBufLen(stream) + BufSize]
  /\ UNCHANGED <<input, parent, fds, childVars>>

ReadEof(stream) ==
  /\ ParentAt(stream)
  /\ \/ \E p \in Pipe : ReadsFrom(stream) = ReadEnd(p) /\ held[p] = 0 /\ ~Writers(p)
     \/ \E n \in 0..2 : ReadsFrom(stream) = Standard(n)
  /\ IF stream = "out"
     THEN /\ parent' = "err"
          /\ length' = [out |-> ActualBufLen("out"), err |-> BufSize]
     ELSE /\ parent' = "returned"
          /\ length' = [length EXCEPT !.err = ActualBufLen("err")]
  /\ UNCHANGED <<input, fds, received, childVars, held>>

ReadFails(stream) ==
  /\ ParentAt(stream)
  /\ ReadsFrom(stream) \in {Closed} \cup {Standard(n) : n \in 0..2} \cup {WriteEnd(p) : p \in Pipe}
  /\ Panic
  /\ UNCHANGED <<input, childVars, held>>

Parent == \/ MakePipes \/ Fork \/ CloseEnds \/ Wait
          \/ \E stream \in {"out", "err"} : ReadData(stream) \/ ReadEof(stream)
          \/ ReadFails("out") \/ ReadFails("err")

-----------------------------------------------------------------------------
(* The child.                                                              *)

Dies(how) == child' = how /\ childFds' = [d \in Descriptor |-> Closed]

(* The three dup2, in their order; the last takes an arbitrary number,     *)
(* which may be one of the two that the first have replaced.               *)
WithStdin == [childFds EXCEPT ![0] = childFds[5]]
WithStdout == [WithStdin EXCEPT ![1] = WithStdin[8]]
DupStdout == [WithStdout EXCEPT ![2] = WithStdout[8]]   \* mutant: stdout_pipe twice
(* mutant: stderr first *)
DupBackwards == [childFds EXCEPT ![0] = childFds[5], ![1] = childFds[8],
                                 ![2] = childFds[stderr_pipe[2]]]
Dup == [WithStdout EXCEPT ![2] = WithStdout[stderr_pipe[2]]]

(* A child that panics says so on the descriptor 2 it has by then: its     *)
(* parent's before dup2, perhaps a pipe behind it.  A pipe has room for    *)
(* the message.                                                            *)
Complains == \/ UNCHANGED held
             \/ \E p \in Pipe, n \in 1..PipeSize :
                  Dup[2] = WriteEnd(p) /\ held' = [held EXCEPT ![p] = n]
Exec == /\ child = "forked"
        /\ \/ /\ Dup[2] # Closed
              /\ child' = "running"
              /\ childFds' = Dup
              /\ UNCHANGED held
           \/ Dies("failed") /\ Complains
        /\ UNCHANGED <<input, parentVars, todo>>

(* The program writes as much as fits, and waits while nothing does; what  *)
(* is not a pipe takes everything.                                         *)
WriteSome(d) ==
  /\ child = "running"
  /\ todo[d] > 0
  /\ \E n \in 1..todo[d] :
       /\ todo' = [todo EXCEPT ![d] = @ - n]
       /\ \/ /\ \A p \in Pipe : childFds[d] # WriteEnd(p)
             /\ UNCHANGED held
          \/ \E p \in Pipe :
               /\ childFds[d] = WriteEnd(p)
               /\ held[p] + n <= PipeSize
               /\ held' = [held EXCEPT ![p] = @ + n]
  /\ UNCHANGED <<input, parentVars, child, childFds>>

SeesEof == ~\E p \in Pipe : childFds[0] = ReadEnd(p) /\ (held[p] > 0 \/ Writers(p))
Exit == /\ child = "running"
        /\ todo = <<0, 0>>
        /\ program.reads => SeesEof
        /\ Dies("dead")
        /\ UNCHANGED <<input, parentVars, todo, held>>

Child == Exec \/ (\E d \in {1, 2} : WriteSome(d)) \/ Exit

ExecNext == Parent \/ Child
(* Both processes are run by the system.                                   *)
ExecSpec == ExecInit /\ [][ExecNext]_execVars /\ WF_execVars(Parent) /\ WF_execVars(Child)
-----------------------------------------------------------------------------
(* Properties.                                                             *)

Open == {Closed} \cup {Standard(n) : n \in 0..2} \cup
        {ReadEnd(p) : p \in Pipe} \cup {WriteEnd(p) : p \in Pipe}

(* Every variable keeps its type; no pipe holds more than it can.          *)
ExecTypeOK ==
  /\ parent \in {"pipe", "fork", "close", "wait", "out", "err", "returned", "panic"}
  /\ child \in {"none", "forked", "running", "dead", "failed"}
  /\ \A d \in Descriptor : fds[d] \in Open /\ childFds[d] \in Open
  /\ \A p \in Pipe : held[p] \in 0..PipeSize
  /\ \A s \in {"out", "err"} : received[s] \in Nat /\ length[s] \in {0, BufSize}

(* The pipe that the child's stderr is, if any: the third dup2 takes a     *)
(* number that is no pipe of its own.                                      *)
StderrPipe == CASE stderr_pipe[2] \in {1, 8} -> {"stdout"}
                [] stderr_pipe[2] = 6 -> {"stdin"}
                [] stderr_pipe[2] = 4 -> {"unused"}
                [] OTHER -> {}
Written(p) == (IF p = "stdout" THEN program.out ELSE 0)
              + (IF p \in StderrPipe THEN program.err ELSE 0)

(* The child can end only if nobody has to read its output before it ends, *)
(* and if it does not wait for the end of its input, whose write end both  *)
(* processes keep (os.cpp:117-121).                                        *)
CanEnd == ~program.reads /\ \A p \in Pipe : Written(p) <= PipeSize

(* A child whose output fits into the pipes is waited for successfully.    *)
Answers == (child = "running") ~> (CanEnd => parent \in {"out", "err", "returned", "panic"})

(* With more output, or a program that reads all of its input, the two     *)
(* wait for each other for ever: the parent reads only after waitpid.      *)
WaitsForEver ==
  [][(child = "running" /\ ~CanEnd) => (child' = "running" /\ parent' \in {"close", "wait"})]_execVars

(* What is read is lost: every byte of the program's standard output, and  *)
(* of what it shares that pipe with, passes through the buffer, and the    *)
(* buffer is empty when the function returns (os.cpp:39-50).               *)
OutputIsLost ==
  ParentAt("returned") =>
    /\ length = [out |-> 0, err |-> 0]
    /\ child = "dead" => received.out = Written("stdout")

(* After the wait the function returns, or panics, unless the descriptor   *)
(* it takes for the child's stderr is the first pipe, whose write end it   *)
(* still has itself.                                                       *)
OwnPipe == stderr_pipe[1] = 3 /\ stderr_pipe[2] # 4
ReadsEnd == ParentAt("out") ~> (parent \in {"returned", "panic"} \/ OwnPipe)

(* It returns only by chance: the number in place of stderr's read end has *)
(* to be a standard stream, the stdout pipe once more, or the lost pipe    *)
(* together with its write end, and must not be the one just closed.       *)
ReturnsByChance ==
  ParentAt("returned") =>
    /\ stderr_pipe[1] \in {0, 1, 2, 7} \/ stderr_pipe = <<3, 4>>
    /\ stderr_pipe[1] # stderr_pipe[2] /\ stderr_pipe[2] # 7

(* When it returns, by chance, it returns nothing.                         *)
ReturnsInVain == ExecTypeOK /\ OutputIsLost /\ ReturnsByChance
=============================================================================
