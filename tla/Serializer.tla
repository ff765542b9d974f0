---------------------------- MODULE Serializer ----------------------------
(***************************************************************************)
(* ntw::Serializer (src/Socket/Serializer.cpp, include/Socket/Serializer   *)
(* .tpl): a growing byte buffer with two cursors.  Values go in at         *)
(* _cursor_end in network order and come out at _cursor_begin; the buffer  *)
(* doubles until a value fits.                                             *)
(*                                                                         *)
(* A value is a record of its kind and of its bytes in the order of a      *)
(* little-endian host.  A call that appends is a job: Grow is one turn of  *)
(* the loop around resize(), Commit the copy behind it.  The cursors and   *)
(* the capacity are unsigned int, here modulo Width.                       *)
(*                                                                         *)
(* The reader asks for the values with the types they were written with;   *)
(* of an exhausted buffer it may ask anything but a string, which would    *)
(* move _cursor_begin behind _cursor_end (size() is then 2^32 - 1).        *)
(* `owed` keeps, for the properties, the values put and not yet extracted. *)
(***************************************************************************)
EXTENDS Integers, Sequences

CONSTANTS Base,       \* bytes are 0 .. Base - 1, 0 ends a string
          IntBytes,   \* Size<T>::value of the integers written
          CountBytes, \* Size<unsigned int>::value
          Width,      \* 2^32
          Ints,       \* the integers the program writes
          Strings,    \* the strings it writes
          Lists,      \* the vectors, lists and arrays of integers it writes
          Blocks,     \* the blocks it appends with write()
          Capacities, \* the buffer sizes given to the constructor and clear()
          MaxEnd,     \* bound: no more than MaxEnd bytes in the buffer
          Junk,       \* the content of a byte never written
          Nothing     \* no value extracted, no job

Byte == 0..(Base - 1)

\* The value of a one in each byte of a number, from the last on.
Power[i \in Nat] == IF i = 0 THEN 1 ELSE Base * Power[i - 1]

ASSUME ByteAssumption == Base \in Nat \ {0, 1} /\ Junk \notin Byte
\* The doubled capacity and the cursors do not reach the width of unsigned int.
ASSUME WidthAssumption == Width \in Nat /\ MaxEnd \in Nat /\ 2 * MaxEnd < Width
ASSUME SizesAssumption == {IntBytes, CountBytes} \subseteq (1..MaxEnd)
\* "must be >0": the comment of the constructor.
ASSUME CapacitiesAssumption == Capacities \subseteq (1..MaxEnd)
\* The count of a container fits an unsigned int.
ASSUME ValuesAssumption ==
    /\ Ints \subseteq [1..IntBytes -> Byte]
    /\ Strings \subseteq Seq(Byte)
    /\ Lists \subseteq Seq(Ints) /\ \A list \in Lists : Len(list) < Power[CountBytes]
    /\ Blocks \subseteq Seq(Byte) /\ \A block \in Blocks : Len(block) <= MaxEnd

VARIABLES mem,   \* _buffer
          cap,   \* _buffer_size
          begin, \* _cursor_begin
          end,   \* _cursor_end
          job,   \* the append under way: its bytes and what they stand for
          got,   \* the result of the last extraction
          ok,    \* the result of the last save() or load()
          file,  \* the bytes of the file
          owed,  \* history: the values in the buffer
          saved  \* history: the values in the file

buffer == <<mem, cap>>
results == <<got, ok>>
files == <<file, saved>>
vars == <<buffer, begin, end, job, results, files, owed>>

U(n) == n % Width

-----------------------------------------------------------------------------
(* The representation of values.                                           *)

\* push() copies a value from its last byte to its first, pop() back.
SwapBytes(v) == [i \in 1..Len(v) |-> v[Len(v) + 1 - i]]

\* The unsigned int in front of a container, in network order, and back.
Count(n) == [i \in 1..CountBytes |-> (n \div Power[CountBytes - i]) % Base]
CountOf(bs) == CHOOSE n \in 0..(Power[CountBytes] - 1) : Count(n) = bs

\* The elements of a container behind it, one after the other.
Elements(list) ==
    [p \in 1..(Len(list) * IntBytes) |->
        SwapBytes(list[1 + ((p - 1) \div IntBytes)])[1 + ((p - 1) % IntBytes)]]

\* c_str() up to its first zero byte, and that byte.
CString(s) ==
    LET zeros == {i \in 1..Len(s) : s[i] = 0}
    IN  IF zeros = {} THEN Append(s, 0)
        ELSE SubSeq(s, 1, CHOOSE i \in zeros : \A j \in zeros : i <= j)

Item ==
    [kind : {"int"}, val : Ints] \cup [kind : {"string"}, val : Strings]
    \cup [kind : {"list"}, val : Lists] \cup [kind : {"block"}, val : Blocks]

\* What remains of a value in the buffer: of a string, what precedes its zero.
Stored(item) ==
    IF item.kind = "string" THEN [item EXCEPT !.val = SubSeq(CString(@), 1, Len(CString(@)) - 1)] ELSE item

Value == {Stored(item) : item \in Item}

Encode(item) ==
    CASE item.kind = "int"   -> SwapBytes(item.val)
      [] item.kind = "block" -> item.val
      [] item.kind = "string" -> CString(item.val)
      [] item.kind = "list"  -> Count(Len(item.val)) \o Elements(item.val)

-----------------------------------------------------------------------------
Fresh(c) == [i \in 0..(c - 1) |-> Junk]

\* The n bytes from position p on.
Slice(p, n) == [i \in 1..n |-> mem[p + i - 1]]

Size == U(end - begin)

\* The bytes stored, those a save() or a send writes from data() on.
Window == Slice(begin, Size)

Init ==
    /\ \E c \in Capacities : cap = c /\ mem = Fresh(c)
    /\ begin = 0
    /\ end = 0
    /\ job = Nothing
    /\ got = Nothing
    /\ ok = TRUE
    /\ file = <<>>
    /\ owed = <<>>
    /\ saved = <<>>

-----------------------------------------------------------------------------
(* Appending.                                                              *)

\* operator<< of a value, a string or a container; write() of a block.
Put(item) ==
    /\ job = Nothing
    /\ end + Len(Encode(item)) <= MaxEnd
    /\ job' = [bytes |-> Encode(item), items |-> <<Stored(item)>>, load |-> FALSE]
    /\ UNCHANGED <<buffer, begin, end, results, files, owed>>

Fits == cap >= U(end + Len(job.bytes))

\* Variant: _buffer_size changes, the buffer does not.
GrowSizeOnly ==
    /\ job # Nothing
    /\ ~Fits
    /\ cap' = U(cap * 2)
    /\ UNCHANGED <<mem, begin, end, job, results, files, owed>>

\* Variant: resize(_buffer_size).
GrowToSame ==
    /\ job # Nothing
    /\ ~Fits
    /\ UNCHANGED vars

\* resize(_buffer_size * 2)
Grow ==
    /\ job # Nothing
    /\ ~Fits
    /\ cap' = U(cap * 2)
    /\ mem' = [i \in 0..(cap' - 1) |-> IF i < cap THEN mem[i] ELSE Junk]
    /\ UNCHANGED <<begin, end, job, results, files, owed>>

Commit ==
    /\ job # Nothing
    /\ Fits
    /\ job.load => job.bytes # <<>>
    /\ LET n == Len(job.bytes)
       IN  /\ mem' = [i \in DOMAIN mem |-> IF i \in end..(end + n - 1)
                                           THEN job.bytes[i - end + 1] ELSE mem[i]]
           /\ end' = U(end + n)
    /\ job' = Nothing
    /\ ok' = IF job.load THEN TRUE ELSE ok
    /\ owed' = owed \o job.items
    /\ UNCHANGED <<cap, begin, got, files>>

Clear(c) ==
    /\ job = Nothing
    /\ begin' = 0
    /\ end' = 0
    /\ cap' = c
    /\ mem' = Fresh(c)
    /\ owed' = <<>>
    /\ UNCHANGED <<job, results, files>>

-----------------------------------------------------------------------------
(* Extracting.                                                             *)

Asks(kind) == job = Nothing /\ (owed # <<>> => Head(owed).kind = kind)

Settle ==
    /\ owed' = IF owed = <<>> THEN owed ELSE Tail(owed)
    /\ UNCHANGED <<buffer, end, job, ok, files>>

\* pop() and read() of n bytes: all of them or nothing at all.
Has(n) == U(begin + n) <= end

Take(n, kind, val) ==
    IF Has(n) THEN got' = [kind |-> kind, val |-> val] /\ begin' = U(begin + n)
                ELSE got' = Nothing /\ begin' = begin

\* Variant: the bytes are taken as they are.
GetIntUnswapped ==
    /\ Asks("int")
    /\ Take(IntBytes, "int", Slice(begin, IntBytes))
    /\ Settle

GetInt ==
    /\ Asks("int")
    /\ Take(IntBytes, "int", SwapBytes(Slice(begin, IntBytes)))
    /\ Settle

GetBlock(n) ==
    /\ Asks("block")
    /\ owed # <<>> => n = Len(Head(owed).val)
    /\ Take(n, "block", Slice(begin, n))
    /\ Settle

\* Up to the first zero byte or the end; the cursor moves one byte further.
GetString ==
    /\ Asks("string")
    /\ owed # <<>>
    /\ LET stops == {i \in begin..(end - 1) : mem[i] = 0}
           stop == IF stops # {} THEN CHOOSE i \in stops : \A j \in stops : i <= j
                   ELSE IF begin < end THEN end ELSE begin
       IN  /\ got' = [kind |-> "string", val |-> Slice(begin, stop - begin)]
           /\ begin' = U(stop + 1)
    /\ Settle

\* The count, then that many elements; an element the buffer does not hold is
\* the uninitialised temporary of the loop.
GetList ==
    /\ Asks("list")
    /\ LET counted == Has(CountBytes)
           n == IF counted THEN CountOf(Slice(begin, CountBytes)) ELSE 0
           first == IF counted THEN U(begin + CountBytes) ELSE begin
           held == IF first < end THEN (end - first) \div IntBytes ELSE 0
           Element(i) == IF i <= held
                         THEN SwapBytes(Slice(first + (i - 1) * IntBytes, IntBytes))
                         ELSE [b \in 1..IntBytes |-> Junk]
       IN  /\ got' = [kind |-> "list", val |-> [i \in 1..n |-> Element(i)]]
           /\ begin' = U(first + (IF n <= held THEN n ELSE held) * IntBytes)
    /\ Settle

-----------------------------------------------------------------------------
(* Files.                                                                  *)

Save(append) ==
    /\ job = Nothing
    /\ Len(file) + Len(Window) <= MaxEnd
    /\ file' = (IF append THEN file ELSE <<>>) \o Window
    /\ saved' = (IF append THEN saved ELSE <<>>) \o owed
    /\ ok' = TRUE
    /\ UNCHANGED <<buffer, begin, end, job, got, owed>>

\* fopen() or stat() fails.
FileFails ==
    /\ job = Nothing
    /\ ok' = FALSE
    /\ UNCHANGED <<buffer, begin, end, job, got, files, owed>>

\* The loop grows the buffer before fread() is called.
Load ==
    /\ job = Nothing
    /\ end + Len(file) <= MaxEnd
    /\ job' = [bytes |-> file, items |-> saved, load |-> TRUE]
    /\ UNCHANGED <<buffer, begin, end, results, files, owed>>

\* fread() of one element of `size` bytes returns 0, also when size is 0.
LoadFails ==
    /\ job # Nothing
    /\ job.load
    /\ Fits
    /\ job' = Nothing
    /\ ok' = FALSE
    /\ UNCHANGED <<buffer, begin, end, got, files, owed>>
-----------------------------------------------------------------------------
AppendStep == (\E item \in Item : Put(item)) \/ Grow \/ Commit \/ \E c \in Capacities : Clear(c)

Extract == GetInt \/ GetString \/ GetList \/ \E n \in {Len(b) : b \in Blocks} : GetBlock(n)

Files == (\E append \in BOOLEAN : Save(append)) \/ FileFails \/ Load \/ LoadFails

Next == AppendStep \/ Extract \/ Files

Spec == Init /\ [][Next]_vars

\* A call that appends runs to its end.
FairSpec == Spec /\ WF_vars(Grow \/ Commit \/ LoadFails)

-----------------------------------------------------------------------------
(* Properties.                                                             *)

\* Every variable has its type, and the cursors stay in order and within the
\* buffer through any growth (write, push, load, pop, read, clear).
TypeOK ==
    /\ begin <= end /\ end <= cap
    /\ cap \in 0..(Width - 1)
    /\ mem \in [0..(cap - 1) -> Byte \cup {Junk}]
    /\ begin \in 0..(Width - 1)
    /\ end \in 0..MaxEnd
    /\ job \in [bytes : Seq(Byte), items : Seq(Value), load : BOOLEAN] \cup {Nothing}
    /\ ok \in BOOLEAN
    /\ file \in Seq(Byte)
    /\ owed \in Seq(Value)
    /\ saved \in Seq(Value)

\* The Serializer is a queue of values: what comes out is what went in.
Q == INSTANCE ItemQueue WITH Item <- Value, queue <- owed, file <- saved
RefinesItemQueue == Q!Spec

\* The loop that doubles the buffer ends, and with it every append.
GrowthEnds == (job # Nothing) ~> (job = Nothing)
=============================================================================
