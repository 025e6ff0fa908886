----------------------------- MODULE ChunkProofs -----------------------------
(***************************************************************************)
(* Proofs about chunks.  The inductive invariant adds to MemorySafe that   *)
(* the bytes of every block are few enough for the allocator to have       *)
(* granted them, which is what keeps the doubled size from wrapping, that  *)
(* a block has at least MinCapacity cells, so that doubling it makes room  *)
(* for the two cells of a run, and that a run of lines is complete as soon *)
(* as the lines have a block.                                              *)
(***************************************************************************)
EXTENDS Chunk, Induction

Widths == {ByteWidth, SizeWidth, ValueWidth}

\* An array of cells in S, each w bytes wide, whose block was granted.
ArrayInv(a, S, w) ==
  /\ a \in ArrayOf(S)
  /\ a.count <= a.capacity
  /\ a.capacity = Len(a.data)
  /\ w * a.capacity <= MaxAlloc
  /\ a.capacity = 0 \/ a.capacity >= MinCapacity

\* The lines: once there is a block, debug_info_add_line finds a last run.
LinesInv(l) ==
  /\ ArrayInv(l, Nat, SizeWidth)
  /\ l.capacity # 0 => l.count >= 2
  /\ \A i \in 1 .. l.count : l.data[i] \in Nat
-----------------------------------------------------------------------------
\* SKARD_GROW_CAPACITY and the size computation of SKARD_GROW_ARRAY do not
\* wrap around on an array whose block was granted.
LEMMA GrowthDoesNotWrap ==
  ASSUME NEW w \in Widths, NEW capacity \in Nat, w * capacity <= MaxAlloc,
         capacity = 0 \/ capacity >= MinCapacity
  PROVE  /\ GrowCapacity(capacity) \in Nat
         /\ GrowCapacity(capacity) >= capacity + 2
         /\ GrowCapacity(capacity) >= MinCapacity
         /\ GrowCapacity(capacity) \in {MinCapacity, 2 * capacity}
         /\ RequestSize(w, GrowCapacity(capacity)) = w * GrowCapacity(capacity)
         /\ (w * GrowCapacity(capacity)) \div w = GrowCapacity(capacity)
<1>1. w \in Nat /\ (w = 1 \/ w = 8 \/ w = 16)
  BY DEF Widths, ByteWidth, SizeWidth, ValueWidth
<1>2. 2 * capacity < Word
  <2>1. CASE w = 1
    BY <2>1, MemoryAssumption
  <2>2. CASE w = 8
    BY <2>2, MemoryAssumption
  <2>3. CASE w = 16
    BY <2>3, MemoryAssumption
  <2> QED BY <1>1, <2>1, <2>2, <2>3
<1>3. GrowCapacity(capacity) = IF capacity < MinCapacity THEN MinCapacity
                               ELSE 2 * capacity
  BY <1>2, MemoryAssumption DEF GrowCapacity
<1>4. /\ GrowCapacity(capacity) \in Nat
      /\ GrowCapacity(capacity) >= capacity + 2
      /\ GrowCapacity(capacity) >= MinCapacity
  <2>1. CASE capacity < MinCapacity
    BY <1>3, <2>1, MemoryAssumption
  <2>2. CASE ~(capacity < MinCapacity)
    BY <1>3, <2>2, MemoryAssumption
  <2> QED BY <2>1, <2>2
<1>5. w * GrowCapacity(capacity) \in 0 .. (Word - 1)
  BY <1>1, <1>3, MemoryAssumption
<1>6. RequestSize(w, GrowCapacity(capacity)) = w * GrowCapacity(capacity)
  BY <1>5, MemoryAssumption DEF RequestSize
<1>7. (w * GrowCapacity(capacity)) \div w = GrowCapacity(capacity)
  BY <1>1, <1>4
<1> QED
  BY <1>3, <1>4, <1>6, <1>7

\* A function on 1 .. n is a sequence of length n.
LEMMA FunctionIsSequence ==
  ASSUME NEW T, NEW n \in Nat, NEW f \in [1 .. n -> T]
  PROVE  f \in Seq(T) /\ Len(f) = n
OBVIOUS

\* What SKARD_GROW_ARRAY returns when it returns: a larger block with the old
\* content, that the struct describes correctly.
LEMMA GrownProperties ==
  ASSUME NEW S, NEW w \in Widths, NEW a, ArrayInv(a, S, w), Grown(a, w).memory = "granted"
  PROVE  /\ ArrayInv(Grown(a, w), S, w)
         /\ Grown(a, w).count = a.count
         /\ Grown(a, w).capacity >= a.capacity + 2
         /\ \A i \in 1 .. a.capacity : Grown(a, w).data[i] = a.data[i]
<1>1. /\ a.capacity \in Nat /\ a.count \in Nat /\ a.memory = "granted"
      /\ a.data \in Seq(S \cup {Garbage})
      /\ a = [count |-> a.count, capacity |-> a.capacity,
              data |-> a.data, memory |-> "granted"]
  BY DEF ArrayInv, ArrayOf
<1> DEFINE c == GrowCapacity(a.capacity)
           d == Reallocate(a.data, RequestSize(w, c), w)
<1>2. /\ c \in Nat /\ c >= a.capacity + 2 /\ c >= MinCapacity
      /\ RequestSize(w, c) = w * c
      /\ (w * c) \div w = c
  BY <1>1, GrowthDoesNotWrap DEF ArrayInv
<1>3. Grown(a, w) = [count |-> a.count, capacity |-> c, data |-> d,
                     memory |-> IF w * c > MaxAlloc THEN "refused" ELSE "granted"]
  <2>1. Grown(a, w) = [count |-> a.count, capacity |-> c, data |-> d,
                       memory |-> IF RequestSize(w, c) > MaxAlloc
                                  THEN "refused" ELSE a.memory]
    BY DEF Grown
  <2> HIDE DEF c, d
  <2> QED BY <1>1, <1>2, <2>1
<1>4. d = [i \in 1 .. c |-> IF i \in 1 .. Len(a.data) THEN a.data[i] ELSE Garbage]
  <2> HIDE DEF c
  <2> QED BY <1>2 DEF Reallocate
<1> HIDE DEF c, d
<1>5. w * c <= MaxAlloc
  <2>1. w \in Nat
    BY DEF Widths, ByteWidth, SizeWidth, ValueWidth
  <2> QED BY <1>2, <1>3, <2>1, MemoryAssumption
<1>6. d \in Seq(S \cup {Garbage}) /\ Len(d) = c
  <2>1. \A i \in 1 .. Len(a.data) : a.data[i] \in S \cup {Garbage}
    BY <1>1
  <2>2. ASSUME NEW i \in 1 .. c
        PROVE  (IF i \in 1 .. Len(a.data) THEN a.data[i] ELSE Garbage)
                 \in S \cup {Garbage}
    BY <2>1
  <2>3. d \in [1 .. c -> S \cup {Garbage}]
    BY <1>4, <2>2, Zenon
  <2> QED BY <1>2, <2>3, FunctionIsSequence
<1>7. \A i \in 1 .. a.capacity : d[i] = a.data[i]
  BY <1>1, <1>2, <1>4 DEF ArrayInv
<1>8. a.count <= c
  BY <1>1, <1>2 DEF ArrayInv
<1>9. Grown(a, w) \in ArrayOf(S)
  BY <1>1, <1>2, <1>3, <1>5, <1>6, MemoryAssumption DEF ArrayOf
<1> QED
  BY <1>2, <1>3, <1>5, <1>6, <1>7, <1>8, <1>9 DEF ArrayInv

\* Appending to an array that is not refused more memory.
LEMMA PushProperties ==
  ASSUME NEW S, NEW w \in Widths, NEW a, NEW x \in S,
         ArrayInv(a, S, w), Push(a, w, x).memory = "granted"
  PROVE  /\ ArrayInv(Push(a, w, x), S, w)
         /\ Push(a, w, x).count = a.count + 1
         /\ Push(a, w, x).data[a.count + 1] = x
         /\ \A i \in 1 .. a.count : Push(a, w, x).data[i] = a.data[i]
         /\ Frugal(a) => Frugal(Push(a, w, x))
<1> DEFINE room == IF IsFull(a) THEN Grown(a, w) ELSE a
<1>1. a \in ArrayOf(S) /\ a.count \in Nat /\ a.capacity \in Nat
  BY DEF ArrayInv, ArrayOf
<1> DEFINE d == [room.data EXCEPT ![a.count + 1] = x]
<1>2. Push(a, w, x) = [count |-> a.count + 1, capacity |-> room.capacity,
                       data |-> d, memory |-> room.memory]
  BY DEF Push, Stored
<1>3. /\ ArrayInv(room, S, w) /\ room.count = a.count
      /\ room.capacity >= a.count + 1
      /\ \A i \in 1 .. a.count : room.data[i] = a.data[i]
      /\ \/ room.capacity <= MinCapacity
         \/ room.capacity = a.capacity /\ a.capacity > a.count
         \/ room.capacity = 2 * a.capacity /\ a.capacity = a.count
  <2>1. CASE IsFull(a)
    <3>1. Grown(a, w).memory = "granted"
      BY <1>2, <2>1 DEF Grown
    <3>2. a.capacity = a.count
      BY <1>1, <2>1 DEF IsFull, ArrayInv
    <3>3. \/ Grown(a, w).capacity = MinCapacity
          \/ Grown(a, w).capacity = 2 * a.capacity
      BY <1>1, GrowthDoesNotWrap DEF Grown, ArrayInv
    <3>4. /\ ArrayInv(Grown(a, w), S, w) /\ Grown(a, w).count = a.count
          /\ Grown(a, w).capacity >= a.capacity + 2
          /\ \A i \in 1 .. a.capacity : Grown(a, w).data[i] = a.data[i]
      <4> HIDE DEF room, d
      <4> QED BY <1>1, <3>1, GrownProperties DEF ArrayInv
    <3>5. room = Grown(a, w)
      BY <2>1
    <3> HIDE DEF room
    <3> QED BY <1>1, <3>2, <3>3, <3>4, <3>5, MemoryAssumption
  <2>2. CASE ~IsFull(a)
    BY <1>1, <2>2 DEF IsFull
  <2> QED BY <2>1, <2>2
<1> HIDE DEF room
<1>4. /\ room = [count |-> room.count, capacity |-> room.capacity,
                 data |-> room.data, memory |-> "granted"]
      /\ room.data \in Seq(S \cup {Garbage})
      /\ room.capacity \in Nat
  BY <1>3 DEF ArrayInv, ArrayOf
<1>5. Push(a, w, x) = [count |-> a.count + 1, capacity |-> room.capacity,
                       data |-> d, memory |-> "granted"]
  BY <1>2, <1>4
<1>6. /\ d \in Seq(S \cup {Garbage}) /\ Len(d) = Len(room.data)
      /\ d[a.count + 1] = x
      /\ \A i \in 1 .. a.count : d[i] = room.data[i]
  BY <1>1, <1>3, <1>4 DEF ArrayInv
<1>7. ASSUME Frugal(a) PROVE Frugal(Push(a, w, x))
  <2>1. /\ Push(a, w, x).count = a.count + 1
        /\ Push(a, w, x).capacity = room.capacity
    BY <1>5
  <2> HIDE DEF d
  <2> QED BY <1>1, <1>3, <1>4, <1>7, <2>1, MemoryAssumption DEF Frugal
<1>8. /\ room.memory = "granted" /\ a.count + 1 <= room.capacity
      /\ Len(room.data) = room.capacity
      /\ w * room.capacity <= MaxAlloc
      /\ room.capacity = 0 \/ room.capacity >= MinCapacity
  <2>1. ArrayInv(room, S, w)
    BY <1>3
  <2>2. a.count + 1 <= room.capacity
    BY <1>1, <1>3
  <2>3. /\ Len(room.data) = room.capacity
        /\ w * room.capacity <= MaxAlloc
    BY <2>1, Zenon DEF ArrayInv
  <2>4. room.capacity = 0 \/ room.capacity >= MinCapacity
    BY <2>1, Zenon DEF ArrayInv
  <2>5. room.memory = "granted"
    BY <1>4
  <2> QED BY <2>2, <2>3, <2>4, <2>5, Zenon
<1> DEFINE p == Push(a, w, x)
<1>9. /\ p.count = a.count + 1 /\ p.capacity = room.capacity
      /\ p.data = d /\ p.memory = "granted"
  BY <1>5
<1>10. p \in ArrayOf(S)
  <2> HIDE DEF d
  <2> QED BY <1>1, <1>4, <1>5, <1>6 DEF ArrayOf
<1> HIDE DEF d, p
<1>11. ArrayInv(p, S, w)
  <2>1. p.count <= p.capacity /\ p.capacity = Len(p.data)
    BY <1>6, <1>8, <1>9
  <2>2. w * p.capacity <= MaxAlloc
    BY <1>8, <1>9
  <2>3. p.capacity = 0 \/ p.capacity >= MinCapacity
    BY <1>8, <1>9
  <2> QED BY <1>10, <2>1, <2>2, <2>3, Zenon DEF ArrayInv
<1>12. \A i \in 1 .. a.count : p.data[i] = a.data[i]
  BY <1>3, <1>6, <1>9
<1> QED
  BY <1>6, <1>7, <1>9, <1>11, <1>12 DEF p

\* debug_info_add_line: both branches, and the capacity test that always
\* makes room.
LEMMA AddLineProperties ==
  ASSUME NEW l, LinesInv(l), NEW line \in Nat,
         AddLine(l, line).memory = "granted"
  PROVE  /\ LinesInv(AddLine(l, line))
         /\ \/ /\ l.capacity # 0 /\ l.data[l.count - 1] = line
               /\ AddLine(l, line).count = l.count
               /\ AddLine(l, line).data = [l.data EXCEPT ![l.count] = @ + 1]
            \/ /\ AddLine(l, line).count = l.count + 2
               /\ AddLine(l, line).data[l.count + 1] = line
               /\ AddLine(l, line).data[l.count + 2] = 1
               /\ \A i \in 1 .. l.count : AddLine(l, line).data[i] = l.data[i]
<1>1. /\ l.count \in Nat /\ l.capacity \in Nat
      /\ l.data \in Seq(Nat \cup {Garbage})
      /\ l = [count |-> l.count, capacity |-> l.capacity,
              data |-> l.data, memory |-> "granted"]
      /\ l.count <= Len(l.data) /\ l.capacity = Len(l.data)
  BY DEF LinesInv, ArrayInv, ArrayOf
<1>2. CASE l.capacity # 0 /\ l.data[l.count - 1] = line
  <2> DEFINE d == [l.data EXCEPT ![l.count] = @ + 1]
  <2>1. AddLine(l, line) = [count |-> l.count, capacity |-> l.capacity,
                            data |-> d, memory |-> "granted"]
    BY <1>1, <1>2 DEF AddLine, Stored
  <2>2. l.count >= 2 /\ \A i \in 1 .. l.count : l.data[i] \in Nat
    BY <1>2 DEF LinesInv
  <2>3. /\ d \in Seq(Nat \cup {Garbage}) /\ Len(d) = Len(l.data)
        /\ \A i \in 1 .. l.count : d[i] \in Nat
    BY <1>1, <2>2
  <2>4. LinesInv(AddLine(l, line))
    BY <1>1, <2>1, <2>2, <2>3 DEF LinesInv, ArrayInv, ArrayOf
  <2> QED
    BY <1>2, <2>1, <2>4
<1>3. CASE ~(l.capacity # 0 /\ l.data[l.count - 1] = line)
  <2> DEFINE room == Grown(l, SizeWidth)
             d == [room.data EXCEPT ![l.count + 1] = line, ![l.count + 2] = 1]
  <2>1. l.capacity < (l.capacity + 2) % Word
    <3>1. 8 * l.capacity <= MaxAlloc
      BY DEF LinesInv, ArrayInv, SizeWidth
    <3>2. l.capacity + 2 \in 0 .. (Word - 1)
      BY <1>1, <3>1, MemoryAssumption
    <3>3. (l.capacity + 2) % Word = l.capacity + 2
      BY <3>2, MemoryAssumption
    <3> QED BY <1>1, <3>3
  <2>2. AddLine(l, line) = [count |-> l.count + 2, capacity |-> room.capacity,
                            data |-> d, memory |-> room.memory]
    BY <1>3, <2>1 DEF AddLine, Stored, Grown
  <2>3. /\ ArrayInv(room, Nat, SizeWidth) /\ room.count = l.count
        /\ room.capacity >= l.capacity + 2
        /\ \A i \in 1 .. l.capacity : room.data[i] = l.data[i]
    BY <2>2, GrownProperties DEF LinesInv, Widths
  <2> HIDE DEF room
  <2>4. /\ room.data \in Seq(Nat \cup {Garbage}) /\ room.capacity \in Nat
        /\ room.capacity = Len(room.data) /\ room.memory = "granted"
    BY <2>3 DEF ArrayInv, ArrayOf
  <2>5. d \in Seq(Nat \cup {Garbage}) /\ Len(d) = Len(room.data)
    BY <1>1, <2>3, <2>4
  <2>6. \A i \in 1 .. l.count : l.data[i] \in Nat
    BY DEF LinesInv
  <2>7. \A i \in 1 .. (l.count + 2) : d[i] \in Nat
    <3> TAKE i \in 1 .. (l.count + 2)
    <3>1. i \in 1 .. Len(room.data)
      BY <1>1, <2>3, <2>4
    <3>2. d[i] = CASE i = l.count + 2 -> 1
                   [] i = l.count + 1 -> line
                   [] OTHER -> room.data[i]
      BY <1>1, <2>4, <3>1
    <3>3. CASE i \in 1 .. l.count
      BY <1>1, <2>3, <2>6, <3>2, <3>3
    <3>4. CASE i = l.count + 1
      BY <1>1, <3>2, <3>4
    <3>5. CASE i = l.count + 2
      BY <1>1, <3>2, <3>5
    <3> QED BY <1>1, <3>3, <3>4, <3>5
  <2>8. /\ d[l.count + 1] = line /\ d[l.count + 2] = 1
        /\ \A i \in 1 .. l.count : d[i] = l.data[i]
    <3>1. /\ l.count + 1 \in 1 .. Len(room.data) /\ l.count + 2 \in 1 .. Len(room.data)
          /\ l.count + 1 # l.count + 2
      BY <1>1, <2>3, <2>4
    <3>2. d[l.count + 1] = line /\ d[l.count + 2] = 1
      BY <2>4, <3>1
    <3>3. ASSUME NEW i \in 1 .. l.count PROVE d[i] = l.data[i]
      <4>1. /\ i \in 1 .. Len(room.data) /\ i # l.count + 1 /\ i # l.count + 2
            /\ i \in 1 .. l.capacity
        BY <1>1, <2>3, <2>4
      <4> QED BY <2>3, <2>4, <4>1
    <3> QED BY <3>2, <3>3
  <2> HIDE DEF d
  <2>9. LinesInv(AddLine(l, line))
    BY <1>1, <2>2, <2>3, <2>4, <2>5, <2>7 DEF LinesInv, ArrayInv, ArrayOf
  <2> QED
    BY <2>2, <2>8, <2>9
<1> QED
  BY <1>2, <1>3
-----------------------------------------------------------------------------
(***************************************************************************)
(* debug_info_read_line.  Reads(lines, f) says that f answers as its loop  *)
(* does at run number pos with rest still to be taken off.                 *)
(***************************************************************************)
ReadStep(lines, f, pos, rest) ==
  LET run == lines.data[pos * 2 + 2]
  IN  IF pos * 2 >= lines.count THEN 0
      ELSE IF rest >= run THEN f[<<pos + 1, rest - run>>]
      ELSE lines.data[pos * 2 + 1]

Reads(lines, f) == f = [at \in Nat \X Nat |-> ReadStep(lines, f, at[1], at[2])]

\* The recursion of ReadLine is well founded: there is such a function.
LEMMA ReadsExists ==
  ASSUME NEW lines, lines.count \in Nat,
         \A p \in Nat : p * 2 < lines.count => lines.data[p * 2 + 2] \in Nat
  PROVE  \E f : Reads(lines, f)
<1> DEFINE From(g, j) == \A pos, rest \in Nat :
                           pos >= j => g[<<pos, rest>>] = ReadStep(lines, g, pos, rest)
           T == {j \in Nat : \E g : From(g, j)}
<1>1. lines.count \in T
  <2> DEFINE g == [at \in Nat \X Nat |-> 0]
  <2>1. From(g, lines.count)
    BY DEF ReadStep
  <2> HIDE DEF From
  <2> QED BY <2>1
<1>2. ASSUME NEW i \in 0 .. lines.count - 1, i + 1 \in T PROVE i \in T
  <2>1. PICK g : From(g, i + 1)
    BY <1>2
  <2> DEFINE h == [at \in Nat \X Nat |->
                     IF at[1] = i THEN ReadStep(lines, g, i, at[2]) ELSE g[at]]
  <2>2. \A pos, rest \in Nat : pos # i => h[<<pos, rest>>] = g[<<pos, rest>>]
    OBVIOUS
  <2>3. \A rest \in Nat : h[<<i, rest>>] = ReadStep(lines, g, i, rest)
    OBVIOUS
  <2> HIDE DEF h
  <2>4. \A pos, rest \in Nat :
          pos >= i => ReadStep(lines, h, pos, rest) = ReadStep(lines, g, pos, rest)
    BY <2>2 DEF ReadStep
  <2>5. From(h, i)
    BY <2>1, <2>2, <2>3, <2>4
  <2> HIDE DEF From
  <2> QED BY <2>5
<1>3. 0 \in T
  <2> HIDE DEF T
  <2> QED BY <1>1, <1>2, DownFrom
<1>4. PICK g : From(g, 0)
  BY <1>3
<1> DEFINE f == [at \in Nat \X Nat |-> g[at]]
<1>5. \A pos, rest \in Nat : ReadStep(lines, f, pos, rest) = ReadStep(lines, g, pos, rest)
  BY DEF ReadStep
<1>6. f = [at \in Nat \X Nat |-> ReadStep(lines, f, at[1], at[2])]
  BY <1>4, <1>5
<1>7. Reads(lines, f)
  BY <1>6 DEF Reads
<1> QED BY <1>7

\* ReadLine is the value, for the first run, of a function that reads the runs.
LEMMA ReadLineIs ==
  ASSUME NEW lines, \E f : Reads(lines, f)
  PROVE  \E f : /\ Reads(lines, f)
                /\ \A offset : ReadLine(lines, offset) = f[<<0, offset>>]
<1>1. Reads(lines, CHOOSE f : Reads(lines, f))
  OBVIOUS
<1>2. \A offset : ReadLine(lines, offset) = (CHOOSE f : Reads(lines, f))[<<0, offset>>]
  BY Zenon DEF ReadLine, Reads, ReadStep
<1> QED BY <1>1, <1>2

(***************************************************************************)
(* The n runs of lines are those of log: ends[k] bytes are in the first k  *)
(* of them, and the bytes of a run have its line.                          *)
(***************************************************************************)
Runs(lines, log, n, ends) ==
  /\ n \in Nat /\ lines.count = 2 * n
  /\ ends \in [0 .. n -> Nat] /\ ends[0] = 0 /\ ends[n] = Len(log)
  /\ \A k \in 0 .. n - 1 :
       /\ lines.data[2 * k + 2] \in Nat
       /\ ends[k + 1] = ends[k] + lines.data[2 * k + 2]
       /\ \A i \in ends[k] + 1 .. ends[k + 1] : log[i].line = lines.data[2 * k + 1]

LinesLogged(lines, log) == \E n, ends : Runs(lines, log, n, ends)

\* Taking off the run lengths one by one finds the run of each byte, and
\* nothing after the last.
LEMMA RunsAreRead ==
  ASSUME NEW lines, NEW log, LinesLogged(lines, log)
  PROVE  /\ \A i \in 1 .. Len(log) : log[i].line = ReadLine(lines, i - 1)
         /\ ReadLine(lines, Len(log)) = 0
<1>1. PICK n, ends : Runs(lines, log, n, ends)
  BY DEF LinesLogged
<1>2. /\ n \in Nat /\ lines.count = 2 * n
      /\ \A k \in 0 .. n : ends[k] \in Nat
      /\ ends[0] = 0 /\ ends[n] = Len(log)
  BY <1>1 DEF Runs
<1>3. ASSUME NEW k \in 0 .. n - 1
      PROVE  /\ lines.data[2 * k + 2] \in Nat
             /\ ends[k + 1] = ends[k] + lines.data[2 * k + 2]
             /\ \A i \in ends[k] + 1 .. ends[k + 1] : log[i].line = lines.data[2 * k + 1]
  BY <1>1 DEF Runs
<1>4. \E f : Reads(lines, f)
  <2>1. ASSUME NEW p \in Nat, p * 2 < lines.count PROVE lines.data[p * 2 + 2] \in Nat
    <3>1. p \in 0 .. n - 1 /\ p * 2 + 2 = 2 * p + 2
      BY <1>2, <2>1
    <3>2. lines.data[2 * p + 2] \in Nat
      BY <1>3, <3>1
    <3> QED BY <3>1, <3>2
  <2> QED BY <1>2, <2>1, ReadsExists
<1>5. PICK f : /\ Reads(lines, f)
               /\ \A offset : ReadLine(lines, offset) = f[<<0, offset>>]
  BY <1>4, ReadLineIs
<1>6. \A pos, rest \in Nat : f[<<pos, rest>>] = ReadStep(lines, f, pos, rest)
  BY <1>5 DEF Reads
<1> DEFINE Found(offset) == IF offset = ends[n] THEN 0 ELSE log[offset + 1].line
           T == {j \in 0 .. n :
                   /\ ends[j] <= ends[n]
                   /\ \A offset \in ends[j] .. ends[n] :
                        f[<<j, offset - ends[j]>>] = Found(offset)}
<1>7. n \in T
  <2>1. ends[n] \in Nat /\ n \in Nat /\ n \in 0 .. n /\ n * 2 >= lines.count
    BY <1>2
  <2>2. f[<<n, 0>>] = 0
    BY <1>6, <2>1 DEF ReadStep
  <2>3. ASSUME NEW offset \in ends[n] .. ends[n] PROVE f[<<n, offset - ends[n]>>] = Found(offset)
    <3>1. offset = ends[n] /\ offset - ends[n] = 0
      BY <2>1
    <3> QED BY <2>2, <3>1
  <2> QED BY <2>1, <2>3
<1>8. ASSUME NEW j \in 0 .. n - 1, j + 1 \in T PROVE j \in T
  <2> DEFINE run == lines.data[2 * j + 2]
  <2>1. /\ run \in Nat /\ ends[j] \in Nat /\ ends[j + 1] = ends[j] + run
        /\ ends[j + 1] <= ends[n] /\ ends[n] \in Nat
    BY <1>2, <1>3, <1>8
  <2>2. ASSUME NEW offset \in ends[j] .. ends[n]
        PROVE  f[<<j, offset - ends[j]>>] = Found(offset)
    <3>1. offset - ends[j] \in Nat
      BY <2>1
    <3>2. f[<<j, offset - ends[j]>>] =
            IF offset - ends[j] >= run THEN f[<<j + 1, offset - ends[j] - run>>]
            ELSE lines.data[2 * j + 1]
      <4>1. ~(j * 2 >= lines.count) /\ j * 2 = 2 * j /\ j \in Nat
        BY <1>2
      <4> QED BY <1>6, <3>1, <4>1 DEF ReadStep
    <3>3. CASE offset - ends[j] >= run
      <4>1. /\ offset \in ends[j + 1] .. ends[n]
            /\ offset - ends[j] - run = offset - ends[j + 1]
        BY <2>1, <3>3
      <4>2. f[<<j + 1, offset - ends[j + 1]>>] = Found(offset)
        BY <1>8, <4>1
      <4> QED BY <3>2, <3>3, <4>1, <4>2
    <3>4. CASE ~(offset - ends[j] >= run)
      <4>1. offset # ends[n] /\ offset + 1 \in ends[j] + 1 .. ends[j + 1]
        BY <2>1, <3>4
      <4>2. log[offset + 1].line = lines.data[2 * j + 1]
        BY <1>3, <4>1
      <4> QED BY <3>2, <3>4, <4>1, <4>2
    <3> QED BY <3>3, <3>4
  <2>3. j \in 0 .. n /\ ends[j] <= ends[n]
    BY <1>2, <2>1
  <2> QED BY <2>2, <2>3
<1>9. 0 \in T
  <2> HIDE DEF T
  <2>1. \A i \in 0 .. n : i \in T
    BY <1>2, <1>7, <1>8, DownFrom
  <2> QED BY <1>2, <2>1
<1>10. ASSUME NEW offset \in 0 .. Len(log) PROVE f[<<0, offset>>] = Found(offset)
  <2>1. offset \in ends[0] .. ends[n] /\ offset - ends[0] = offset
    BY <1>2
  <2>2. f[<<0, offset - ends[0]>>] = Found(offset)
    BY <1>9, <2>1
  <2> QED BY <2>1, <2>2
<1>11. Len(log) \in Nat
  BY <1>2
<1>12. ASSUME NEW i \in 1 .. Len(log) PROVE log[i].line = ReadLine(lines, i - 1)
  <2>1. i - 1 \in 0 .. Len(log) /\ i - 1 # ends[n] /\ i - 1 + 1 = i
    BY <1>2, <1>11
  <2>2. f[<<0, i - 1>>] = log[i].line
    BY <1>10, <2>1
  <2> QED BY <1>5, <2>2
<1>13. ReadLine(lines, Len(log)) = 0
  <2>1. Len(log) \in 0 .. Len(log) /\ Len(log) = ends[n]
    BY <1>2, <1>11
  <2> QED BY <1>5, <1>10, <2>1
<1> QED BY <1>12, <1>13

Entry == [byte : Byte, line : Lines, column : Columns]

\* debug_info_add_line extends the last run or opens a new one.
LEMMA LineLogged ==
  ASSUME NEW lines, NEW log \in Seq(Entry), NEW entry \in Entry,
         LinesInv(lines), LinesLogged(lines, log),
         AddLine(lines, entry.line).memory = "granted"
  PROVE  LinesLogged(AddLine(lines, entry.line), Append(log, entry))
<1>1. PICK n, ends : Runs(lines, log, n, ends)
  BY DEF LinesLogged
<1>2. /\ n \in Nat /\ lines.count = 2 * n
      /\ ends \in [0 .. n -> Nat]
      /\ ends[0] = 0 /\ ends[n] = Len(log)
  BY <1>1 DEF Runs
<1>3. ASSUME NEW k \in 0 .. n - 1
      PROVE  /\ lines.data[2 * k + 2] \in Nat
             /\ ends[k + 1] = ends[k] + lines.data[2 * k + 2]
             /\ \A i \in ends[k] + 1 .. ends[k + 1] : log[i].line = lines.data[2 * k + 1]
  BY <1>1 DEF Runs
<1> DEFINE new == Append(log, entry)
           added == AddLine(lines, entry.line)
<1>4. /\ Len(log) \in Nat /\ Len(new) = Len(log) + 1 /\ new[Len(log) + 1] = entry
      /\ \A i \in 1 .. Len(log) : new[i] = log[i]
  OBVIOUS
<1>5. /\ lines.capacity \in Nat /\ lines.data \in Seq(Nat \cup {Garbage})
      /\ lines.capacity = Len(lines.data) /\ lines.count <= lines.capacity
      /\ \A i \in 1 .. lines.count : lines.data[i] \in Nat
      /\ lines.capacity # 0 => lines.count >= 2
  BY DEF LinesInv, ArrayInv, ArrayOf
<1>6. \A k \in 0 .. n : ends[k] \in Nat /\ ends[k] <= Len(log)
  <2> DEFINE T == {k \in 0 .. n : ends[k] <= Len(log)}
  <2>1. n \in T
    BY <1>2
  <2>2. ASSUME NEW k \in 0 .. n - 1, k + 1 \in T PROVE k \in T
    <3>1. k \in 0 .. n /\ ends[k] \in Nat /\ ends[k + 1] \in Nat
      BY <1>2
    <3> QED BY <1>3, <1>4, <2>2, <3>1
  <2>3. \A k \in 0 .. n : k \in T
    <3> HIDE DEF T
    <3> QED BY <1>2, <2>1, <2>2, DownFrom
  <2> QED BY <1>2, <2>3
<1> HIDE DEF new
<1>7. CASE /\ lines.capacity # 0 /\ lines.data[lines.count - 1] = entry.line
           /\ added.count = lines.count
           /\ added.data = [lines.data EXCEPT ![lines.count] = @ + 1]
  <2> DEFINE after == [ends EXCEPT ![n] = @ + 1]
  <2>1. /\ added.count = 2 * n
        /\ added.data = [lines.data EXCEPT ![2 * n] = @ + 1]
    BY <1>2, <1>7
  <2>2. n >= 1 /\ lines.data[2 * n] \in Nat /\ lines.data[2 * n - 1] = entry.line
    BY <1>2, <1>5, <1>7
  <2>3. /\ added.data[2 * n] = lines.data[2 * n] + 1
        /\ \A i \in 1 .. 2 * n - 1 : added.data[i] = lines.data[i]
    <3>1. 2 * n \in 1 .. Len(lines.data) /\ \A i \in 1 .. 2 * n - 1 : i \in 1 .. Len(lines.data) /\ i # 2 * n
      BY <1>2, <1>5, <2>2
    <3> QED BY <1>5, <2>1, <3>1
  <2>4. /\ after \in [0 .. n -> Nat] /\ after[n] = ends[n] + 1
        /\ \A k \in 0 .. n - 1 : after[k] = ends[k]
    BY <1>2
  <2> HIDE DEF after, added
  <2>5. after[0] = 0 /\ after[n] = Len(new)
    BY <1>2, <1>4, <2>2, <2>4
  <2>6. ASSUME NEW k \in 0 .. n - 1
        PROVE  /\ added.data[2 * k + 2] \in Nat
               /\ after[k + 1] = after[k] + added.data[2 * k + 2]
               /\ \A i \in after[k] + 1 .. after[k + 1] : new[i].line = added.data[2 * k + 1]
    <3>0. 2 * k + 1 \in 1 .. 2 * n - 1 /\ k \in Nat /\ k + 1 \in 0 .. n /\ k \in 0 .. n
      BY <1>2
    <3>1. added.data[2 * k + 1] = lines.data[2 * k + 1]
      BY <2>3, <3>0
    <3>2. after[k] = ends[k] /\ ends[k] \in Nat /\ ends[k + 1] \in Nat /\ ends[k + 1] <= Len(log)
      BY <1>2, <1>6, <2>4
    <3>3. CASE k = n - 1
      <4>1. /\ added.data[2 * k + 2] = lines.data[2 * k + 2] + 1
            /\ after[k + 1] = ends[k + 1] + 1
        <5>1. 2 * k + 2 = 2 * n /\ k + 1 = n
          BY <1>2, <3>3
        <5> QED BY <2>3, <2>4, <5>1
      <4>2. ASSUME NEW i \in after[k] + 1 .. after[k + 1]
            PROVE  new[i].line = added.data[2 * k + 1]
        <5>1. CASE i = Len(log) + 1
          <6>1. 2 * k + 1 = 2 * n - 1
            BY <1>2, <3>3
          <6> QED BY <1>4, <2>2, <3>1, <5>1, <6>1
        <5>2. CASE i # Len(log) + 1
          <6>0. i \in ends[k] + 1 .. ends[k + 1] + 1 /\ ends[k + 1] = Len(log)
            <7>1. ends[k + 1] = Len(log)
              BY <1>2, <3>3
            <7> QED BY <3>2, <4>1, <7>1
          <6>1. i \in ends[k] + 1 .. ends[k + 1] /\ i \in 1 .. Len(log)
            BY <3>2, <5>2, <6>0
          <6>2. log[i].line = lines.data[2 * k + 1]
            BY <1>3, <6>1
          <6>3. new[i] = log[i]
            BY <1>4, <6>1
          <6> QED BY <3>1, <6>2, <6>3
        <5> QED BY <5>1, <5>2
      <4> QED BY <1>3, <3>2, <4>1, <4>2
    <3>4. CASE k # n - 1
      <4>1. /\ added.data[2 * k + 2] = lines.data[2 * k + 2]
            /\ after[k + 1] = ends[k + 1]
        <5>1. 2 * k + 2 \in 1 .. 2 * n - 1 /\ k + 1 \in 0 .. n - 1
          BY <1>2, <3>4
        <5> QED BY <2>3, <2>4, <5>1
      <4>2. ASSUME NEW i \in after[k] + 1 .. after[k + 1]
            PROVE  new[i].line = added.data[2 * k + 1]
        <5>1. i \in ends[k] + 1 .. ends[k + 1] /\ i \in 1 .. Len(log)
          BY <1>4, <3>2, <4>1
        <5> QED BY <1>3, <1>4, <3>1, <5>1
      <4> QED BY <1>3, <3>2, <4>1, <4>2
    <3> QED BY <3>3, <3>4
  <2>7. Runs(added, new, n, after)
    BY <1>2, <2>1, <2>4, <2>5, <2>6 DEF Runs
  <2> QED BY <2>7 DEF LinesLogged, new, added
<1>8. CASE /\ added.count = lines.count + 2
           /\ added.data[lines.count + 1] = entry.line
           /\ added.data[lines.count + 2] = 1
           /\ \A i \in 1 .. lines.count : added.data[i] = lines.data[i]
  <2> DEFINE after == [k \in 0 .. n + 1 |-> IF k = n + 1 THEN ends[n] + 1 ELSE ends[k]]
  <2>1. /\ added.count = 2 * n + 2
        /\ added.data[2 * n + 1] = entry.line /\ added.data[2 * n + 2] = 1
        /\ \A i \in 1 .. 2 * n : added.data[i] = lines.data[i]
    BY <1>2, <1>8
  <2>2. /\ after \in [0 .. n + 1 -> Nat] /\ after[n + 1] = ends[n] + 1
        /\ \A k \in 0 .. n : after[k] = ends[k]
    BY <1>2
  <2> HIDE DEF after, added
  <2>3. after[0] = 0 /\ after[n + 1] = Len(new)
    BY <1>2, <1>4, <2>2
  <2>4. ASSUME NEW k \in 0 .. n
        PROVE  /\ added.data[2 * k + 2] \in Nat
               /\ after[k + 1] = after[k] + added.data[2 * k + 2]
               /\ \A i \in after[k] + 1 .. after[k + 1] : new[i].line = added.data[2 * k + 1]
    <3>1. CASE k = n
      BY <1>2, <1>4, <2>1, <2>2, <3>1
    <3>2. CASE k # n
      <4>1. k \in 0 .. n - 1 /\ ends[k] \in Nat /\ ends[k + 1] \in Nat /\ ends[k + 1] <= Len(log)
        BY <1>2, <1>6, <3>2
      <4>2. /\ added.data[2 * k + 2] = lines.data[2 * k + 2]
            /\ added.data[2 * k + 1] = lines.data[2 * k + 1]
            /\ after[k + 1] = ends[k + 1] /\ after[k] = ends[k]
        <5>1. /\ 2 * k + 2 \in 1 .. 2 * n /\ 2 * k + 1 \in 1 .. 2 * n
              /\ k + 1 \in 0 .. n /\ k \in 0 .. n
          BY <1>2, <4>1
        <5> QED BY <2>1, <2>2, <5>1
      <4>3. ASSUME NEW i \in after[k] + 1 .. after[k + 1]
            PROVE  new[i].line = added.data[2 * k + 1]
        <5>1. i \in ends[k] + 1 .. ends[k + 1] /\ i \in 1 .. Len(log)
          BY <1>4, <4>1, <4>2
        <5> QED BY <1>3, <1>4, <4>1, <4>2, <5>1
      <4> QED BY <1>3, <4>1, <4>2, <4>3
    <3> QED BY <3>1, <3>2
  <2>5. Runs(added, new, n + 1, after)
    BY <1>2, <2>1, <2>2, <2>3, <2>4 DEF Runs
  <2> QED BY <2>5 DEF LinesLogged, new, added
<1>9. entry.line \in Nat
  BY ChunkAssumption DEF Entry
<1> QED BY <1>7, <1>8, <1>9, AddLineProperties
-----------------------------------------------------------------------------
ChunkInv(c) ==
  /\ c = [code |-> c.code, constants |-> c.constants,
          lines |-> c.lines, columns |-> c.columns]
  /\ ArrayInv(c.code, Byte, ByteWidth)
  /\ ArrayInv(c.constants, Values, ValueWidth)
  /\ LinesInv(c.lines)
  /\ ArrayInv(c.columns, Columns, SizeWidth)
  /\ Frugal(c.code) /\ Frugal(c.constants) /\ Frugal(c.columns)

\* Once refused, an array stays refused: checking the final chunk of a write
\* checks every allocation the write made.
LEMMA RefusalIsLasting ==
  ASSUME NEW c, NEW byte, NEW line, NEW column,
         ~Denied(WriteByte(c, byte, line, column)),
         c.constants.memory = "granted"
  PROVE  ~Denied(c)
<1> DEFINE d == WriteByte(c, byte, line, column)
<1>1. /\ d.code = Push(c.code, ByteWidth, byte)
      /\ d.lines = AddLine(c.lines, line)
      /\ d.columns = Push(c.columns, SizeWidth, column)
  BY DEF WriteByte, AddColumn
<1>2. /\ d.code.memory # "refused" /\ d.lines.memory # "refused"
      /\ d.columns.memory # "refused"
  BY DEF Denied, Parts
<1>3. ASSUME NEW a, NEW w, NEW x, Push(a, w, x).memory # "refused"
      PROVE  a.memory # "refused"
  BY <1>3 DEF Push, Stored, Grown
<1>4. ASSUME NEW l, AddLine(l, line).memory # "refused"
      PROVE  l.memory # "refused"
  BY <1>4 DEF AddLine, Stored, Grown
<1> HIDE DEF d
<1> QED
  BY <1>1, <1>2, <1>3, <1>4 DEF Denied, Parts

\* The chunk holds what was written, with the lines in its runs.
Recorded(c, log) == Logged(c, log) /\ LinesLogged(c.lines, log)

\* chunk_write_byte keeps the chunk well formed and adds one byte to what
\* can be read back.
LEMMA WriteByteInv ==
  ASSUME NEW c, ChunkInv(c), NEW byte \in Byte,
         NEW line \in Lines, NEW column \in Columns,
         ~Denied(WriteByte(c, byte, line, column))
  PROVE  /\ ChunkInv(WriteByte(c, byte, line, column))
         /\ \A log \in Seq(Entry) : Recorded(c, log) =>
              Recorded(WriteByte(c, byte, line, column),
                     Append(log, [byte |-> byte, line |-> line, column |-> column]))
<1> DEFINE d == WriteByte(c, byte, line, column)
<1>1. d = [code      |-> Push(c.code, ByteWidth, byte),
           constants |-> c.constants,
           lines     |-> AddLine(c.lines, line),
           columns   |-> Push(c.columns, SizeWidth, column)]
  BY DEF WriteByte, AddColumn
<1>2. /\ d.code.memory # "refused" /\ d.lines.memory # "refused"
      /\ d.columns.memory # "refused"
  BY DEF Denied, Parts
<1> HIDE DEF d
<1>3. /\ c.code.memory = "granted" /\ c.lines.memory = "granted"
      /\ c.columns.memory = "granted"
  BY DEF ChunkInv, LinesInv, ArrayInv, ArrayOf
<1>4. d.code.memory = "granted" /\ d.columns.memory = "granted"
  BY <1>1, <1>2, <1>3 DEF Push, Stored, Grown
<1>5. d.lines.memory = "granted"
  BY <1>1, <1>2, <1>3 DEF AddLine, Stored, Grown
<1>6. ArrayInv(d.code, Byte, ByteWidth) /\ Frugal(d.code)
  BY <1>1, <1>4, PushProperties DEF ChunkInv, Widths
<1>7. ArrayInv(d.columns, Columns, SizeWidth) /\ Frugal(d.columns)
  BY <1>1, <1>4, PushProperties DEF ChunkInv, Widths
<1>8. LinesInv(d.lines)
  BY <1>1, <1>5, AddLineProperties, ChunkAssumption DEF ChunkInv
<1>9. ArrayInv(d.constants, Values, ValueWidth) /\ Frugal(d.constants)
  BY <1>1 DEF ChunkInv
<1>10. ASSUME NEW log \in Seq(Entry), Recorded(c, log)
       PROVE  Recorded(d, Append(log, [byte |-> byte, line |-> line,
                                     column |-> column]))
  <2> DEFINE e == [byte |-> byte, line |-> line, column |-> column]
             new == Append(log, e)
  <2>1. e \in Entry /\ e.byte = byte /\ e.column = column
    BY DEF Entry
  <2> HIDE DEF e
  <2>2. /\ Len(log) \in Nat /\ Len(new) = Len(log) + 1 /\ new[Len(log) + 1] = e
        /\ \A i \in 1 .. Len(log) : new[i] = log[i]
    BY <2>1
  <2> HIDE DEF new
  <2>3. /\ d.code.count = Len(log) + 1 /\ d.code.data[Len(log) + 1] = byte
        /\ \A i \in 1 .. Len(log) : d.code.data[i] = c.code.data[i]
    <3>1. c.code.count = Len(log) /\ ArrayInv(c.code, Byte, ByteWidth)
      BY <1>10 DEF Recorded, Logged, ChunkInv
    <3>2. ByteWidth \in Widths /\ d.code = Push(c.code, ByteWidth, byte)
      BY <1>1 DEF Widths
    <3>3. Push(c.code, ByteWidth, byte).memory = "granted"
      BY <1>4, <3>2
    <3>4. /\ Push(c.code, ByteWidth, byte).count = c.code.count + 1
          /\ Push(c.code, ByteWidth, byte).data[c.code.count + 1] = byte
          /\ \A i \in 1 .. c.code.count :
               Push(c.code, ByteWidth, byte).data[i] = c.code.data[i]
      <4>1. c.code.count \in Nat
        BY <3>1 DEF ArrayInv, ArrayOf
      <4> QED BY <3>1, <3>2, <3>3, <4>1, PushProperties DEF ArrayInv
    <3> QED BY <3>1, <3>2, <3>4
  <2>4. /\ d.columns.count = Len(log) + 1 /\ d.columns.data[Len(log) + 1] = column
        /\ \A i \in 1 .. Len(log) : d.columns.data[i] = c.columns.data[i]
    <3>1. c.columns.count = Len(log) /\ ArrayInv(c.columns, Columns, SizeWidth)
      BY <1>10 DEF Recorded, Logged, ChunkInv
    <3>2. SizeWidth \in Widths /\ d.columns = Push(c.columns, SizeWidth, column)
      BY <1>1 DEF Widths
    <3>3. Push(c.columns, SizeWidth, column).memory = "granted"
      BY <1>4, <3>2
    <3>4. /\ Push(c.columns, SizeWidth, column).count = c.columns.count + 1
          /\ Push(c.columns, SizeWidth, column).data[c.columns.count + 1] = column
          /\ \A i \in 1 .. c.columns.count :
               Push(c.columns, SizeWidth, column).data[i] = c.columns.data[i]
      <4>1. c.columns.count \in Nat
        BY <3>1 DEF ArrayInv, ArrayOf
      <4> QED BY <3>1, <3>2, <3>3, <4>1, PushProperties DEF ArrayInv
    <3> QED BY <3>1, <3>2, <3>4
  <2>5. ASSUME NEW i \in 1 .. Len(new)
        PROVE  new[i].byte = d.code.data[i] /\ new[i].column = d.columns.data[i]
    <3>1. CASE i = Len(log) + 1
      BY <2>1, <2>2, <2>3, <2>4, <3>1
    <3>2. CASE i \in 1 .. Len(log)
      <4>1. log[i].byte = c.code.data[i] /\ log[i].column = c.columns.data[i]
        BY <1>10, <2>2, <3>2 DEF Recorded, Logged, ReadColumn
      <4> QED BY <2>2, <2>3, <2>4, <3>2, <4>1
    <3> QED BY <2>2, <3>1, <3>2
  <2>6. Logged(d, new)
    BY <2>2, <2>3, <2>4, <2>5 DEF Logged, ReadColumn
  <2>7. LinesLogged(d.lines, new)
    <3>1. e.line = line
      BY DEF e
    <3>2. LinesInv(c.lines) /\ LinesLogged(c.lines, log)
      BY <1>10 DEF ChunkInv, Recorded
    <3>3. d.lines = AddLine(c.lines, e.line)
      BY <1>1, <3>1
    <3> QED BY <1>5, <2>1, <3>2, <3>3, LineLogged DEF new
  <2> QED BY <2>6, <2>7 DEF new, e, Recorded
<1> QED
  BY <1>1, <1>6, <1>7, <1>8, <1>9, <1>10 DEF ChunkInv, d

\* The bytes of an encoded index are code bytes.
LEMMA EncodingBytes ==
  ASSUME NEW index \in Nat
  PROVE  /\ Encoding(index) \in Seq(Byte)
         /\ Len(Encoding(index)) \in {2, 4}
<1>1. Base \in Nat /\ Base >= 4
  BY ChunkAssumption
<1>2. \A n \in Nat : n % Base \in Byte
  BY <1>1 DEF Byte
<1>3. index \div Base \in Nat /\ index \div (Base * Base) \in Nat
  BY <1>1
<1>4. OP_CONSTANT \in Byte /\ OP_CONSTANT_LONG \in Byte
  BY <1>1 DEF Byte, OP_CONSTANT, OP_CONSTANT_LONG
<1> QED
  BY <1>2, <1>3, <1>4 DEF Encoding

\* chunk_write_op_constant keeps the chunk well formed: the constant, then
\* two or four bytes.
LEMMA WriteOpConstantInv ==
  ASSUME NEW c, ChunkInv(c), NEW value \in Values,
         NEW line \in Lines, NEW column \in Columns,
         ~Denied(WriteOpConstant(c, value, line, column))
  PROVE  /\ ChunkInv(WriteOpConstant(c, value, line, column))
         /\ \A log \in Seq(Entry) : Recorded(c, log) =>
              Recorded(WriteOpConstant(c, value, line, column),
                     log \o LogOf(Encoding(c.constants.count), line, column))
<1> DEFINE index == c.constants.count
           bytes == Encoding(index)
           c0 == [c EXCEPT !.constants = Push(@, ValueWidth, value)]
           c1 == WriteByte(c0, bytes[1], line, column)
           c2 == WriteByte(c1, bytes[2], line, column)
           c3 == WriteByte(c2, bytes[3], line, column)
           c4 == WriteByte(c3, bytes[4], line, column)
<1>1. WriteOpConstant(c, value, line, column) = IF Len(bytes) = 2 THEN c2 ELSE c4
  BY DEF WriteOpConstant
<1>2. /\ bytes \in Seq(Byte) /\ Len(bytes) \in {2, 4}
  BY EncodingBytes DEF ChunkInv, ArrayInv, ArrayOf
<1>3. /\ c0 = [code |-> c.code, constants |-> Push(c.constants, ValueWidth, value),
               lines |-> c.lines, columns |-> c.columns]
  BY DEF ChunkInv
<1>4. /\ c1.constants = c0.constants /\ c2.constants = c0.constants
      /\ c3.constants = c0.constants /\ c4.constants = c0.constants
  BY DEF WriteByte, AddColumn
<1> HIDE DEF bytes, c0
<1>5. c0.constants.memory = "granted"
  <2>1. c0.constants.memory # "refused"
    BY <1>1, <1>4 DEF Denied, Parts
  <2>2. c.constants.memory = "granted"
    BY DEF ChunkInv, ArrayInv, ArrayOf
  <2> QED BY <1>3, <2>1, <2>2 DEF Push, Stored, Grown
<1> HIDE DEF c1, c2, c3, c4
<1>6. ASSUME ~Denied(c0) PROVE ChunkInv(c0)
  <2>1. ArrayInv(c0.constants, Values, ValueWidth) /\ Frugal(c0.constants)
    BY <1>3, <1>5, PushProperties DEF ChunkInv, Widths
  <2> QED BY <1>3, <2>1 DEF ChunkInv
<1>7. ~Denied(c1) => ~Denied(c0)
  BY <1>5, RefusalIsLasting DEF c1
<1>8. ~Denied(c2) => ~Denied(c1)
  BY <1>4, <1>5, RefusalIsLasting DEF c2
<1>9. ~Denied(c3) => ~Denied(c2)
  BY <1>4, <1>5, RefusalIsLasting DEF c3
<1>10. ~Denied(c4) => ~Denied(c3)
  BY <1>4, <1>5, RefusalIsLasting DEF c4
<1>11. bytes[1] \in Byte /\ bytes[2] \in Byte
  BY <1>2
<1> DEFINE entry(i) == [byte |-> bytes[i], line |-> line, column |-> column]
           log2(log) == Append(Append(log, entry(1)), entry(2))
           log4(log) == Append(Append(log2(log), entry(3)), entry(4))
<1>12. \A i \in 1 .. Len(bytes) : bytes[i] \in Byte /\ entry(i) \in Entry
  BY <1>2 DEF Entry
<1>13. ~Denied(c2) => /\ ChunkInv(c2)
                      /\ \A log \in Seq(Entry) : Recorded(c, log) => Recorded(c2, log2(log))
  <2> SUFFICES ASSUME ~Denied(c2)
               PROVE  /\ ChunkInv(c2)
                      /\ \A log \in Seq(Entry) :
                           Recorded(c, log) => Recorded(c2, log2(log))
    OBVIOUS
  <2>1. ~Denied(c0) /\ ~Denied(c1) /\ ChunkInv(c0)
    BY <1>6, <1>7, <1>8
  <2>2. \A log \in Seq(Entry) : Recorded(c, log) => Recorded(c0, log)
    BY <1>3 DEF Recorded, Logged
  <2>3. /\ ChunkInv(c1)
        /\ \A log \in Seq(Entry) : Recorded(c0, log) => Recorded(c1, Append(log, entry(1)))
    BY <1>11, <2>1, WriteByteInv DEF c1
  <2>4. /\ ChunkInv(c2)
        /\ \A log \in Seq(Entry) : Recorded(c1, log) => Recorded(c2, Append(log, entry(2)))
    BY <1>11, <2>1, <2>3, WriteByteInv DEF c2
  <2>5. \A log \in Seq(Entry) : Append(log, entry(1)) \in Seq(Entry)
    BY <1>2, <1>12
  <2> QED BY <2>2, <2>3, <2>4, <2>5
<1>14. CASE Len(bytes) = 2
  <2>1. \A log \in Seq(Entry) : log2(log) = log \o LogOf(bytes, line, column)
    BY <1>2, <1>12, <1>14 DEF LogOf
  <2> QED BY <1>1, <1>13, <1>14, <2>1 DEF bytes
<1>15. CASE Len(bytes) = 4
  <2>1. bytes[3] \in Byte /\ bytes[4] \in Byte
    BY <1>2, <1>15
  <2>2. ~Denied(c4)
    BY <1>1, <1>15
  <2>3. ~Denied(c2) /\ ~Denied(c3)
    BY <1>9, <1>10, <2>2
  <2>4. /\ ChunkInv(c3)
        /\ \A log \in Seq(Entry) : Recorded(c2, log) => Recorded(c3, Append(log, entry(3)))
    BY <1>13, <2>1, <2>3, WriteByteInv DEF c3
  <2>5. /\ ChunkInv(c4)
        /\ \A log \in Seq(Entry) : Recorded(c3, log) => Recorded(c4, Append(log, entry(4)))
    BY <2>1, <2>2, <2>4, WriteByteInv DEF c4
  <2>6. \A log \in Seq(Entry) : /\ log2(log) \in Seq(Entry)
                                /\ Append(log2(log), entry(3)) \in Seq(Entry)
    BY <1>12, <1>15
  <2>7. \A log \in Seq(Entry) : log4(log) = log \o LogOf(bytes, line, column)
    BY <1>2, <1>12, <1>15 DEF LogOf
  <2> HIDE DEF entry, log2
  <2>8. \A log \in Seq(Entry) : Recorded(c, log) => Recorded(c4, log4(log))
    BY <1>13, <2>3, <2>4, <2>5, <2>6
  <2>9. WriteOpConstant(c, value, line, column) = c4
    BY <1>1, <1>15
  <2> HIDE DEF log4
  <2>10. \A log \in Seq(Entry) :
           Recorded(c, log) => Recorded(c4, log \o LogOf(bytes, line, column))
    BY <2>7, <2>8
  <2> QED BY <2>5, <2>9, <2>10 DEF bytes
<1> QED
  BY <1>2, <1>14, <1>15
-----------------------------------------------------------------------------
\* The inductive invariant of the chunk specification.
IInv ==
  /\ ChunkInv(chunk)
  /\ status \in {"running", "out_of_memory", "too_many_constants"}
  /\ written \in Seq(Entry)
  /\ Recorded(chunk, written)

\* A chunk with no block satisfies the invariant.
LEMMA EmptyChunkInv == ChunkInv(EmptyChunk) /\ Recorded(EmptyChunk, << >>)
<1>1. \A S : \A w \in Widths : ArrayInv(EmptyArray, S, w)
  BY MemoryAssumption
     DEF ArrayInv, ArrayOf, EmptyArray, Widths, ByteWidth, SizeWidth, ValueWidth
<1>2. Frugal(EmptyArray)
  BY MemoryAssumption DEF Frugal, EmptyArray
<1>3. LinesInv(EmptyArray)
  BY <1>1 DEF LinesInv, EmptyArray, Widths
<1>4. LinesLogged(EmptyArray, << >>)
  <2> DEFINE ends == [k \in 0 .. 0 |-> 0]
  <2>1. ends \in [0 .. 0 -> Nat] /\ ends[0] = 0
    OBVIOUS
  <2> HIDE DEF ends
  <2>2. Runs(EmptyArray, << >>, 0, ends)
    BY <2>1 DEF Runs, EmptyArray
  <2> QED BY <2>2 DEF LinesLogged
<1>5. Logged(EmptyChunk, << >>)
  BY DEF EmptyChunk, Logged, EmptyArray
<1> QED
  BY <1>1, <1>2, <1>3, <1>4, <1>5 DEF ChunkInv, EmptyChunk, Widths, Recorded

\* chunk_init establishes the invariant.
LEMMA InvariantHolds == ChunkInit => IInv
  BY EmptyChunkInv DEF ChunkInit, IInv

\* Every function of the chunk keeps the invariant, whether it returns or
\* ends the process.
LEMMA InvariantKept == IInv /\ [ChunkNext]_chunkVars => IInv'
<1> SUFFICES ASSUME IInv, [ChunkNext]_chunkVars PROVE IInv'
  OBVIOUS
<1> USE DEF IInv
<1>1. ASSUME NEW d, NEW log, Update(d, log), log \in Seq(Entry),
             ~Denied(d) => ChunkInv(d) /\ Recorded(d, written \o log)
      PROVE  IInv'
  <2>1. CASE ~Denied(d) /\ chunk' = d /\ written' = written \o log /\ UNCHANGED status
    <3>1. written \o log \in Seq(Entry)
      BY <1>1
    <3> QED BY <1>1, <2>1, <3>1
  <2>2. CASE Exit("out_of_memory")
    BY <2>2 DEF Exit
  <2> QED BY <1>1, <2>1, <2>2 DEF Update
<1>2. ASSUME NEW line \in Lines, NEW column \in Columns, NEW byte \in RawBytes,
             chunk_write_byte(byte, line, column)
      PROVE  IInv'
  <2> DEFINE d == WriteByte(chunk, byte, line, column)
             log == LogOf(<<byte>>, line, column)
  <2>1. byte \in Byte
    BY ChunkAssumption DEF Byte
  <2>2. log \in Seq(Entry)
    BY <2>1 DEF LogOf, Entry
  <2>3. written \o log = Append(written, [byte |-> byte, line |-> line,
                                         column |-> column])
    BY <2>1 DEF LogOf, Entry
  <2>4. ~Denied(d) => ChunkInv(d) /\ Recorded(d, written \o log)
    BY <2>1, <2>3, WriteByteInv
  <2>5. Update(d, log)
    BY <1>2 DEF chunk_write_byte
  <2> QED BY <1>1, <2>2, <2>4, <2>5
<1>3. ASSUME NEW line \in Lines, NEW column \in Columns, NEW value \in Values,
             chunk_write_op_constant(value, line, column)
      PROVE  IInv'
  <2> DEFINE d == WriteOpConstant(chunk, value, line, column)
             log == LogOf(Encoding(chunk.constants.count), line, column)
  <2>1. log \in Seq(Entry)
    <3>1. chunk.constants.count \in Nat
      BY DEF ChunkInv, ArrayInv, ArrayOf
    <3>2. Encoding(chunk.constants.count) \in Seq(Byte)
      BY <3>1, EncodingBytes
    <3> QED BY <3>2 DEF LogOf, Entry
  <2>2. ~Denied(d) => ChunkInv(d) /\ Recorded(d, written \o log)
    BY WriteOpConstantInv
  <2>3. CASE Update(d, log)
    BY <1>1, <2>1, <2>2, <2>3
  <2>4. CASE Exit("too_many_constants") \/ Exit("out_of_memory")
    BY <2>4 DEF Exit
  <2> QED BY <1>3, <2>3, <2>4 DEF chunk_write_op_constant
<1>4. CASE chunk_free
  BY <1>4, EmptyChunkInv DEF chunk_free
<1>5. CASE UNCHANGED chunkVars
  BY <1>5 DEF chunkVars
<1> QED
  BY <1>2, <1>3, <1>4, <1>5 DEF ChunkNext

\* The invariant holds in every state of a chunk, whatever functions the
\* embedder calls and whichever allocations are refused.
THEOREM Invariance == ChunkSpec => []IInv
  BY InvariantHolds, InvariantKept, PTL DEF ChunkSpec

\* The four arrays hold what their types say, whatever is written and
\* whichever allocations are refused.
THEOREM TypeCorrect == ChunkSpec => []ChunkTypeOK
<1>1. IInv => ChunkTypeOK
  BY DEF IInv, ChunkInv, LinesInv, ArrayInv, ChunkTypeOK, Entry
<1> QED BY <1>1, Invariance, PTL

\* No array counts cells outside the block it owns: the growth arithmetic of
\* SKARD_GROW_CAPACITY and SKARD_GROW_ARRAY never wraps around.
THEOREM MemorySafety == ChunkSpec => []MemorySafe
<1>1. IInv => MemorySafe
  BY DEF IInv, ChunkInv, LinesInv, ArrayInv, MemorySafe, Parts
<1> QED BY <1>1, Invariance, PTL

\* The bytes and columns read back are those written, for chunks of any
\* length and for both encodings of a constant's index.
THEOREM ReadBackWhatWasWritten == ChunkSpec => []ReadBack
<1>1. IInv => ReadBack
  BY DEF IInv, ReadBack, Recorded
<1> QED BY <1>1, Invariance, PTL

\* So are the lines, which take the walk over the runs to find: for runs of
\* any length, and nothing is found past the last byte.
THEOREM LinesAreReadBack == ChunkSpec => []LinesReadBack
<1>1. IInv => LinesReadBack
  BY RunsAreRead DEF IInv, Recorded, LinesReadBack
<1> QED BY <1>1, Invariance, PTL

\* Doubling leaves at most half of the code, the constants and the columns
\* unused.
THEOREM GrowthIsFrugal == ChunkSpec => []WasteBounded
<1>1. IInv => WasteBounded
  BY DEF IInv, ChunkInv, WasteBounded, Parts
<1> QED BY <1>1, Invariance, PTL
=============================================================================
