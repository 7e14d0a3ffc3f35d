------------------------------ MODULE Buffers -------------------------------
(***************************************************************************)
(* Lists and buffers: JaneList of src/include/list.hpp, Buf of             *)
(* src/include/buffer.hpp and src/buffer.cpp, and the functions of         *)
(* src/os.cpp that build paths and read files into buffers.  Every step is *)
(* one call on some of a few buffers and lists.                            *)
(*                                                                         *)
(* A list is an array of items and the number of them in use; a buffer is  *)
(* a list whose last byte in use terminates it.                            *)
(***************************************************************************)
EXTENDS Text, Integers

CONSTANTS
  Buf, List,    \* the buffers and the lists
  Strings,      \* the C strings that calls are given
  Files,        \* the contents that a file may have
  Directories,  \* the paths that getcwd may give
  Junk,         \* a byte, or an item, of memory nobody has written
  MinCapacity,  \* 16
  MaxInt,       \* 2^31 - 1
  CwdSize,      \* 512
  MaxCalls      \* bound on the number of calls

ASSUME SizesAssumption ==
  /\ MinCapacity \in Nat \ {0} /\ MaxInt \in Nat /\ MinCapacity < MaxInt
  /\ CwdSize \in Nat /\ MaxCalls \in Nat
Byte == {"a", "A", "/", ".", Nul, Junk}
ASSUME StringsAssumption == Strings \cup Files \cup Directories \subseteq Seq(Byte)
ASSUME PathsAssumption == \A path \in Directories : Ends(path) = {}   \* C strings
ASSUME NamesAssumption == Buf \cap List = {} /\ Nul # Junk

VARIABLES
  call,     \* the last call: its operation and arguments
  mem,      \* every buffer and list: its items, as many as its capacity, and
            \* its length
  outcome,  \* "running", "assert" (an assertion failed), "panic", or
            \* "overflow" (an int left its range)
  calls
vars == <<call, mem, outcome, calls>>

Unset == [items |-> <<>>, length |-> 0]   \* BUF_INIT

Init == /\ call = <<"none">>
        /\ mem = [b \in Buf \cup List |-> Unset]
        /\ outcome = "running"
        /\ calls = 0

-----------------------------------------------------------------------------
(* JaneList.                                                               *)

Capacity(l) == Len(l.items)

(* What doubling makes of n until it leaves the ints.                      *)
Doubled[k \in 0..MaxInt] == IF k = 0 THEN 1 ELSE 2 * Doubled[k - 1]
Doublings(n) == {n * Doubled[k] : k \in 0..MaxInt} \cap n..MaxInt

(* The capacities that ensure_capacity tries: the one it has, or 16, and   *)
(* its doublings.                                                          *)
Least(l) == IF Capacity(l) > MinCapacity THEN Capacity(l) ELSE MinCapacity
GrownByStep(l) == {c \in Least(l)..MaxInt : c % MinCapacity = 0}   \* mutant
Capacities(l) == Doublings(Least(l))
Enough(l, n) == {c \in Capacities(l) : n <= c}
Smallest(set) == {c \in set : \A d \in set : c <= d}
CanHold(l, n) == n <= MaxInt /\ Smallest(Enough(l, n)) # {}

WithCapacity(l, c) == [items |-> [i \in 1..c |-> IF i <= Capacity(l) THEN l.items[i] ELSE Junk],
                       length |-> l.length]
(* mutant: one item short *)
EnsureLess(l, n) == WithCapacity(l, CHOOSE c \in Smallest(Enough(l, n - 1)) : TRUE)
EnsureCapacity(l, n) == WithCapacity(l, CHOOSE c \in Smallest(Enough(l, n)) : TRUE)

WithLength(l, n) == [items |-> l.items, length |-> n]
Resized(l, n) == WithLength(EnsureCapacity(l, n), n)
Pushed(l, x) ==
  [items |-> [EnsureCapacity(l, l.length + 1).items EXCEPT ![l.length + 1] = x],
   length |-> l.length + 1]
InUse(l) == SubSeq(l.items, 1, l.length)

-----------------------------------------------------------------------------
(* Buf.                                                                    *)

Initialized(b) == mem[b].length # 0
BufLen(l) == l.length - 1
TextOf(l) == SubSeq(l.items, 1, BufLen(l))
Terminated(l) == [items |-> [l.items EXCEPT ![l.length] = Nul], length |-> l.length]

(* memcpy of t to the bytes behind the first n.                            *)
Copied(l, n, t) ==
  [items |-> [i \in DOMAIN l.items |-> IF i - n \in DOMAIN t THEN t[i - n] ELSE l.items[i]],
   length |-> l.length]

BufResized(l, n) == Terminated(Resized(l, n + 1))
FromMemOpen(l, t) == Copied(Resized(l, Len(t) + 1), 0, t)   \* mutant: no terminator
BufFromMem(l, t) == Terminated(Copied(Resized(l, Len(t) + 1), 0, t))
(* mutant: the length of the list, not of the text *)
AppendedBehindNul(l, t) == Terminated(Copied(BufResized(l, l.length + Len(t)), l.length, t))
BufAppended(l, t) == Terminated(Copied(BufResized(l, BufLen(l) + Len(t)), BufLen(l), t))
BufFormatted(l, t) == Copied(BufResized(l, BufLen(l) + Len(t) + 1), BufLen(l), t \o <<Nul>>)

BufUpcased(l) ==
  [items |-> [i \in DOMAIN l.items |->
                IF i <= BufLen(l) THEN Uppercase(l.items[i]) ELSE l.items[i]],
   length |-> l.length]

(* buf_hash reads the length and, in every round, the second byte          *)
(* (buffer.cpp:55-63).                                                     *)
BufHash(l) == <<BufLen(l), IF BufLen(l) > 0 THEN l.items[2] ELSE Nul>>

-----------------------------------------------------------------------------
(* Calls.  One that asks for more than the ints hold overflows, one that   *)
(* fails an assertion ends the program.                                    *)

Called(c) == /\ outcome = "running"
             /\ calls < MaxCalls
             /\ calls' = calls + 1
             /\ call' = c
Returns(m) == mem' = m /\ UNCHANGED outcome
Fails(how) == outcome' = how /\ UNCHANGED mem
(* b comes to hold n items and is then l.                                  *)
Stores(b, n, l) == IF CanHold(mem[b], n) THEN Returns([mem EXCEPT ![b] = l])
                                         ELSE Fails("overflow")
(* Unless a call creates the buffer, it keeps the memory it has.           *)
Fresh(b) == {Unset, mem[b]}

Resize(b, n) == /\ Called(<<"resize", b, n>>)
                /\ Stores(b, n + 1, BufResized(mem[b], n))

(* buf_alloc and buf_alloc_fixed.                                          *)
Alloc(b, n) == /\ Called(<<"alloc", b, n>>)
               /\ IF CanHold(Unset, n + 1) THEN Returns([mem EXCEPT ![b] = BufResized(Unset, n)])
                                           ELSE Fails("overflow")

(* buf_init_from_mem and _str, buf_create_from_mem and _str, buf_sprintf.  *)
Assign(b, t) ==
  /\ Called(<<"assign", b, t>>)
  /\ \E l \in Fresh(b) :
       IF CanHold(l, Len(t) + 1)
       THEN Returns([mem EXCEPT ![b] = BufFromMem(l, t)])
       ELSE Fails("overflow")

CopyBuf(b, c) ==
  /\ Called(<<"copy", b, c>>)
  /\ IF Initialized(c)
     THEN Stores(b, mem[c].length, BufFromMem(mem[b], TextOf(mem[c])))
     ELSE Fails("assert")

AppendMem(b, t) ==
  /\ Called(<<"append", b, t>>)
  /\ IF Initialized(b)
     THEN Stores(b, mem[b].length + Len(t), BufAppended(mem[b], t))
     ELSE Fails("assert")

(* buf_append_buf.  Appended to itself, a buffer hands on a pointer that   *)
(* the resize may free (buffer.hpp:155-158, 176): then anything is read.   *)
Moved(t) == {[i \in DOMAIN t |-> Junk]}
Read(b, c) ==
  LET t == TextOf(mem[c]) IN
  IF b = c /\ Capacity(mem[b]) < mem[b].length + Len(t) THEN {t} \cup Moved(t) ELSE {t}
Concat(b, c) ==
  /\ Called(<<"concat", b, c>>)
  /\ IF Initialized(b) /\ Initialized(c)
     THEN \E t \in Read(b, c) :
            Stores(b, mem[b].length + Len(t), BufAppended(mem[b], t))
     ELSE Fails("assert")

Format(b, t) ==
  /\ Called(<<"format", b, t>>)
  /\ IF Initialized(b)
     THEN Stores(b, mem[b].length + Len(t) + 1, BufFormatted(mem[b], t))
     ELSE Fails("assert")

SliceExists(c, s, e) == /\ Initialized(c)
                        /\ s < BufLen(mem[c])
                        /\ e \in s..BufLen(mem[c])
Slice(b, c, s, e) ==
  /\ Called(<<"slice", b, c, s, e>>)
  /\ IF SliceExists(c, s, e)
     THEN IF CanHold(Unset, e - s + 1)
          THEN Returns([mem EXCEPT ![b] = BufFromMem(Unset, SubSeq(TextOf(mem[c]), s + 1, e))])
          ELSE Fails("overflow")
     ELSE Fails("assert")

Upcase(b) ==
  /\ Called(<<"upcase", b>>)
  /\ IF Initialized(b) THEN Returns([mem EXCEPT ![b] = BufUpcased(@)])
                       ELSE Fails("assert")

-----------------------------------------------------------------------------
(* os.cpp.                                                                 *)

(* os_fetch_file: the guard is on the size of the file, what is asked for  *)
(* is one more and may have to be doubled.                                 *)
FetchFile(b, t) ==
  /\ Called(<<"fetch", b, t>>)
  /\ \/ /\ Len(t) <= MaxInt
        /\ Stores(b, Len(t) + 1, Copied(BufResized(mem[b], Len(t)), 0, t))
     \/ Fails("panic")

(* os_get_cwd: the buffer doubles until the path and its NUL fit, and      *)
(* keeps that length.                                                      *)
CwdSizes == Doublings(2 * CwdSize)
CwdFits(path) == Smallest({n \in CwdSizes : Len(path) < n})
CwdLength(path) == CHOOSE n \in CwdFits(path) : TRUE
CwdTried(path) == {n \in {CwdSize} \cup CwdSizes : n < CwdLength(path)}
(* mutant: the path is copied, as readlink would do, without a NUL         *)
CwdUnterminated(l, path) == Copied(BufResized(l, CwdLength(path)), 0, path)
CwdBuffer(l, path) ==
  LET sized == BufResized(l, CwdLength(path))
      tried == [i \in DOMAIN sized.items |->
                  IF i - 1 \in CwdTried(path) THEN Nul ELSE sized.items[i]]
  IN  Copied([items |-> tried, length |-> sized.length], 0, path \o <<Nul>>)
GetCwd(b, path) ==
  /\ Called(<<"cwd", b, path>>)
  /\ \/ IF CwdFits(path) # {}
        THEN Stores(b, CwdLength(path) + 1, CwdBuffer(mem[b], path))
        ELSE Fails("overflow")
     \/ Fails("panic")

(* os_path_split looks for the last slash that does not end the path.      *)
LastIndex(p) == IF p # <<>> /\ p[Len(p)] = "/" THEN Len(p) - 1 ELSE Len(p)
Slashes(p) == {i \in 1..LastIndex(p) : p[i] = "/"}
LastSlash(p) == {i \in Slashes(p) : \A j \in Slashes(p) : j <= i}
Dirname(p) == IF LastSlash(p) = {} THEN <<".">>
              ELSE SubSeq(p, 1, (CHOOSE i \in LastSlash(p) : TRUE) - 1)
Basename(p) == IF LastSlash(p) = {} THEN p
               ELSE SubSeq(p, (CHOOSE i \in LastSlash(p) : TRUE) + 1, Len(p))
PathSplit(d, n, p) ==
  /\ d # n /\ p \notin {d, n}
  /\ Called(<<"split", d, n, p>>)
  /\ IF Initialized(p)
     THEN LET path == TextOf(mem[p]) IN
          IF /\ CanHold(mem[d], Len(Dirname(path)) + 1)
             /\ CanHold(mem[n], Len(Basename(path)) + 1)
          THEN Returns([mem EXCEPT ![d] = BufFromMem(@, Dirname(path)),
                                     ![n] = BufFromMem(@, Basename(path))])
          ELSE Fails("overflow")
     ELSE Fails("assert")

(* os_path_join copies, appends a slash and appends.                       *)
PathJoin(b, d, n) ==
  /\ b \notin {d, n}
  /\ Called(<<"join", b, d, n>>)
  /\ IF Initialized(d) /\ Initialized(n)
     THEN LET dir   == BufFromMem(mem[b], TextOf(mem[d]))
              slash == BufAppended(dir, <<"/">>)
          IN  IF /\ CanHold(mem[b], mem[d].length)
                 /\ CanHold(dir, mem[d].length + 1)
                 /\ CanHold(slash, mem[d].length + mem[n].length)
              THEN Returns([mem EXCEPT ![b] = BufAppended(slash, TextOf(mem[n]))])
              ELSE Fails("overflow")
     ELSE Fails("assert")

-----------------------------------------------------------------------------
(* Lists of other items.                                                   *)

Push(l, x) == /\ Called(<<"push", l, x>>)
              /\ Stores(l, mem[l].length + 1, Pushed(mem[l], x))
Pop(l) == /\ Called(<<"pop", l>>)
          /\ IF mem[l].length >= 1
             THEN Returns([mem EXCEPT ![l] = WithLength(@, @.length - 1)])
             ELSE Fails("assert")
AddOne(l) == /\ Called(<<"add_one", l>>)
             /\ Stores(l, mem[l].length + 1, Resized(mem[l], mem[l].length + 1))
Clear(l) == /\ Called(<<"clear", l>>)
            /\ Returns([mem EXCEPT ![l] = WithLength(@, 0)])

BufCall(b) == \/ \E n \in {0, 2} : Alloc(b, n) \/ Resize(b, n)
              \/ \E t \in Strings : Assign(b, t) \/ AppendMem(b, t) \/ Format(b, t)
              \/ \E c \in Buf : CopyBuf(b, c) \/ Concat(b, c)
              \/ \E c \in Buf : \E s \in 0..1, e \in 1..2 : Slice(b, c, s, e)
              \/ Upcase(b)
OsCall(b) == \/ \E t \in Files : FetchFile(b, t)
             \/ \E path \in Directories : GetCwd(b, path)
             \/ \E c, d \in Buf : PathSplit(b, c, d) \/ PathJoin(b, c, d)
ListCall(l) == (\E x \in {"a", "A"} : Push(l, x)) \/ Pop(l) \/ AddOne(l) \/ Clear(l)

Next == (\E b \in Buf : BufCall(b) \/ OsCall(b)) \/ (\E l \in List : ListCall(l))
Spec == Init /\ [][Next]_vars
-----------------------------------------------------------------------------
(* Properties.                                                             *)

Memory == {l \in [items : Seq(Byte), length : Nat] :
             l.length <= Capacity(l) /\ Capacity(l) \in {0} \cup Doublings(MinCapacity)}

(* Every variable keeps its type.                                          *)
TypeOK == /\ mem \in [Buf \cup List -> Memory]
          /\ outcome \in {"running", "assert", "panic", "overflow"}
          /\ calls \in 0..MaxCalls

(* Every buffer that is in use has its terminator inside its memory,       *)
(* whatever was shrunk, grown, copied or written over by a C function      *)
(* before: nobody who reads buf_ptr as a C string runs past it.            *)
TerminatorInPlace ==
  \A b \in Buf : Initialized(b) =>
    mem[b].items[mem[b].length] = Nul

(* Equal keys have equal hashes although buf_hash reads list.at(1), which  *)
(* for a key of one byte is the terminator: the hash map relies on it.     *)
EqualKeysHashEqual ==
  \A b, c \in Buf : (Initialized(b) /\ Initialized(c) /\ TextOf(mem[b]) = TextOf(mem[c])) =>
    BufHash(mem[b]) = BufHash(mem[c])

(* Behind capacities, terminators and moved memory, buffers are strings    *)
(* and lists are stacks, and a call changes only those it is given.        *)
Contents == INSTANCE TextSpec WITH
  call <- IF outcome = "running" THEN call ELSE <<"failed">>,
  text <- [b \in Buf |-> TextOf(mem[b])],
  list <- [l \in List |-> InUse(mem[l])]
ImplementsText == Contents!Spec

Text(b) == TextOf(mem[b])
Shown(b) == CString(Text(b))

(* A path joined to what os_get_cwd returned is, to fopen, the directory   *)
(* alone, since its buffer keeps the length of 1024 that it was given for  *)
(* getcwd: the name lies behind the NUL (main.cpp:57, codegen.cpp:654).    *)
CwdHidesName ==
  [][\A b, d, n \in Buf, path \in Directories :
       (call = <<"cwd", d, path>> /\ call' = <<"join", b, d, n>> /\ outcome' = "running") =>
          Shown(b)' = path /\ Text(b)' # path]_vars

(* The guard of os_fetch_file does not keep the ints in range: a file      *)
(* that passes it overflows them if its NUL no longer fits the largest     *)
(* power of two, about a half of what the guard allows (os.cpp:149-153).   *)
FetchOverflows ==
  [][\A b \in Buf, t \in Files : (call' = <<"fetch", b, t>> /\ outcome' # "panic") =>
       ((outcome' = "overflow") <=> \A c \in Doublings(MinCapacity) : c < Len(t) + 1)]_vars
=============================================================================
