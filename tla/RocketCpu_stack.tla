-------------------------- MODULE RocketCpu_stack --------------------------
(***************************************************************************)
(* The stack of the processor.  First that the processor implements        *)
(* CallStack: every step of RocketCpu is a step of the abstract stack, or  *)
(* leaves it alone.  The frames are the words from RSP up to the end of    *)
(* the stack region, so the proof is about which of them a write to memory *)
(* reaches.  Then what the frames of a program without a STORE hold.       *)
(***************************************************************************)
EXTENDS RocketCpu_proofs, SequenceTheorems

-----------------------------------------------------------------------------
(***************************************************************************)
(* The refinement mapping, as functions of a memory m and a stack pointer  *)
(* r, so that the lemmas serve the state before a step and after it.       *)
(***************************************************************************)
END == RVM_MEMORY_STACK_END

StackCapacity == (RVM_MEMORY_STACK_END - RVM_MEMORY_STACK_START) \div 2

InStack(r) == r \in RVM_MEMORY_STACK_START .. END /\ (END - r) % 2 = 0

DepthAt(r) == (END - r) \div 2

FrameIn(m, i) == rvm_memory_read_uint16(m, END - 2 * i)

FramesIn(m, r) == [i \in 1 .. DepthAt(r) |-> FrameIn(m, i)]

\* The stack pointer and the depth determine each other, and the frames lie
\* between the stack pointer and the end of the region.
LEMMA Geometry ==
  ASSUME NEW r, InStack(r)
  PROVE  /\ DepthAt(r) \in Nat /\ DepthAt(r) <= StackCapacity
         /\ r \in Nat /\ r = END - 2 * DepthAt(r)
         /\ \A i \in 1 .. DepthAt(r) :
              END - 2 * i \in Nat /\ InBounds(END - 2 * i) /\ r <= END - 2 * i
<1>1. r \in Int /\ END \in Int /\ r <= END /\ RVM_MEMORY_STACK_START <= r
      BY LayoutAssumption DEF InStack, END
<1>2. DepthAt(r) \in Nat /\ r = END - 2 * DepthAt(r)
      BY <1>1 DEF InStack, DepthAt
<1>3. DepthAt(r) <= StackCapacity
      BY <1>1, LayoutAssumption DEF DepthAt, StackCapacity, END
<1>4. r \in Nat BY <1>1, LayoutAssumption
<1>5. ASSUME NEW i \in 1 .. DepthAt(r)
      PROVE  END - 2 * i \in Nat /\ InBounds(END - 2 * i) /\ r <= END - 2 * i
  <2>1. i \in Nat /\ 1 <= i /\ i <= DepthAt(r) BY <1>2
  <2> QED BY <1>2, <1>4, <2>1, LayoutAssumption DEF InBounds, END
<1> QED BY <1>2, <1>3, <1>4, <1>5

LEMMA FramesType ==
  ASSUME NEW r, InStack(r), NEW m \in [Address -> Byte]
  PROVE  /\ FramesIn(m, r) \in Seq(Word)
         /\ Len(FramesIn(m, r)) = DepthAt(r)
         /\ \A i \in 1 .. DepthAt(r) :
              FramesIn(m, r)[i] = FrameIn(m, i) /\ FrameIn(m, i) \in Word
<1> DEFINE f == FramesIn(m, r)
<1>1. DepthAt(r) \in Nat BY Geometry
<1>2. \A i \in 1 .. DepthAt(r) : FrameIn(m, i) \in Word
      BY Geometry, ReadIsWord DEF FrameIn
<1>3. f \in [1 .. DepthAt(r) -> Word] /\ DOMAIN f = 1 .. DepthAt(r)
      BY <1>2 DEF FramesIn
<1>4. f \in Seq(Word) BY <1>1, <1>3, SeqDef
<1>5. DOMAIN f = 1 .. Len(f) /\ Len(f) \in Nat BY <1>4, LenProperties
<1>6. Len(f) = DepthAt(r) BY <1>1, <1>3, <1>5
<1> QED BY <1>2, <1>4, <1>6 DEF FramesIn

-----------------------------------------------------------------------------
(***************************************************************************)
(* What a write of a word does to the word read back and to its            *)
(* neighbours.                                                             *)
(***************************************************************************)
LEMMA ReadBack ==
  ASSUME NEW m \in [Address -> Byte], NEW a \in Nat, InBounds(a), NEW w \in Word
  PROVE  rvm_memory_read_uint16(rvm_memory_write_uint16(m, a, w), a) = w
<1>1. a \in Address /\ a + 1 \in Address /\ a # a + 1
      BY LayoutAssumption DEF InBounds, Address
<1>2. (w \div 256) * 256 + (w % 256) = w
  <2>1. w \in Int BY DEF Word
  <2> QED BY <2>1
<1> DEFINE n == rvm_memory_write_uint16(m, a, w)
<1>3. n[a] = w % 256 /\ n[a + 1] = w \div 256
      BY <1>1 DEF rvm_memory_write_uint16
<1> HIDE DEF n
<1>4. rvm_memory_read_uint16(n, a) = (w \div 256) * 256 + (w % 256)
      BY <1>3 DEF rvm_memory_read_uint16
<1> QED BY <1>2, <1>4 DEF n

LEMMA ReadElsewhere ==
  ASSUME NEW m \in [Address -> Byte], NEW a \in Nat, NEW w \in Word,
         NEW b \in Nat, InBounds(b), b + 1 < a \/ a + 1 < b
  PROVE  rvm_memory_read_uint16(rvm_memory_write_uint16(m, a, w), b)
           = rvm_memory_read_uint16(m, b)
<1>1. b \in Address /\ b + 1 \in Address
      BY LayoutAssumption DEF InBounds, Address
<1>2. b \notin {a, a + 1} /\ b + 1 \notin {a, a + 1} OBVIOUS
<1> DEFINE n == rvm_memory_write_uint16(m, a, w)
<1>3. n[b] = m[b] /\ n[b + 1] = m[b + 1]
      BY <1>1, <1>2, WriteIsLocal
<1> QED BY <1>3 DEF rvm_memory_read_uint16

\* A push appends the word to the frames.
LEMMA PushAppends ==
  ASSUME NEW m \in [Address -> Byte], NEW r, InStack(r), InStack(r - 2), NEW w \in Word
  PROVE  FramesIn(rvm_memory_write_uint16(m, r - 2, w), r - 2) = Append(FramesIn(m, r), w)
<1> DEFINE n == rvm_memory_write_uint16(m, r - 2, w)
           d == DepthAt(r)
           f == FramesIn(m, r)
           g == FramesIn(n, r - 2)
<1>1. /\ d \in Nat /\ r \in Nat /\ r - 2 \in Nat
      /\ DepthAt(r - 2) = d + 1 /\ r - 2 = END - 2 * (d + 1)
      /\ InBounds(r - 2)
  <2>1. d \in Nat /\ r \in Nat /\ r - 2 \in Nat BY Geometry
  <2>2. DepthAt(r - 2) = d + 1 /\ r - 2 = END - 2 * DepthAt(r - 2)
        BY <2>1, Geometry, LayoutAssumption DEF DepthAt, END
  <2>3. d + 1 \in 1 .. DepthAt(r - 2) BY <2>1, <2>2
  <2> QED BY <2>1, <2>2, <2>3, Geometry
<1>2. n \in [Address -> Byte] BY <1>1, WriteIsMemory
<1>3. /\ f \in Seq(Word) /\ Len(f) = d
      /\ \A i \in 1 .. d : f[i] = FrameIn(m, i)
      BY FramesType
<1>4. /\ g \in Seq(Word) /\ Len(g) = d + 1
      /\ \A i \in 1 .. d + 1 : g[i] = FrameIn(n, i)
      BY <1>1, <1>2, FramesType
<1>5. FrameIn(n, d + 1) = w BY <1>1, ReadBack DEF FrameIn
<1>6. ASSUME NEW i \in 1 .. d PROVE FrameIn(n, i) = FrameIn(m, i)
  <2>1. END - 2 * i \in Nat /\ InBounds(END - 2 * i) /\ r <= END - 2 * i BY Geometry
  <2>2. (r - 2) + 1 < END - 2 * i BY <1>1, <2>1
  <2> QED BY <1>1, <2>1, <2>2, ReadElsewhere DEF FrameIn
<1> DEFINE h == Append(f, w)
<1>7. /\ h \in Seq(Word) /\ Len(h) = d + 1
      /\ h[d + 1] = w
      /\ \A i \in 1 .. d : h[i] = f[i]
      BY <1>3, AppendProperties
<1>8. \A i \in 1 .. d + 1 : g[i] = h[i]
  <2> SUFFICES ASSUME NEW i \in 1 .. d + 1 PROVE g[i] = h[i] OBVIOUS
  <2>1. CASE i = d + 1 BY <1>1, <1>4, <1>5, <1>7, <2>1
  <2>2. CASE i \in 1 .. d BY <1>1, <1>3, <1>4, <1>6, <1>7, <2>2
  <2>3. i = d + 1 \/ i \in 1 .. d BY <1>1
  <2> QED BY <2>1, <2>2, <2>3
<1> HIDE DEF g, h, n, f, d
<1>9. g = h BY <1>4, <1>7, <1>8, SeqEqual
<1> QED BY <1>9 DEF g, h, n, f

\* A pop removes the last frame, which is the one at the stack pointer.
LEMMA PopRemovesLast ==
  ASSUME NEW m \in [Address -> Byte], NEW r, InStack(r), InStack(r + 2)
  PROVE  LET f == FramesIn(m, r)
         IN  /\ f # <<>>
             /\ f[Len(f)] = rvm_memory_read_uint16(m, r)
             /\ FramesIn(m, r + 2) = SubSeq(f, 1, Len(f) - 1)
<1> DEFINE d == DepthAt(r)
           f == FramesIn(m, r)
           g == FramesIn(m, r + 2)
           h == SubSeq(f, 1, d - 1)
<1>1. /\ d \in Nat /\ d >= 1 /\ r \in Nat
      /\ DepthAt(r + 2) = d - 1 /\ r = END - 2 * d
  <2>1. d \in Nat /\ r \in Nat /\ r = END - 2 * d /\ DepthAt(r + 2) \in Nat BY Geometry
  <2>2. DepthAt(r + 2) = d - 1 BY <2>1, LayoutAssumption DEF DepthAt, END
  <2> QED BY <2>1, <2>2
<1>2. /\ f \in Seq(Word) /\ Len(f) = d
      /\ \A i \in 1 .. d : f[i] = FrameIn(m, i) /\ f[i] \in Word
      BY FramesType
<1>3. /\ g \in Seq(Word) /\ Len(g) = d - 1
      /\ \A i \in 1 .. d - 1 : g[i] = FrameIn(m, i)
      BY <1>1, FramesType
<1>4. f # <<>>
  <2>1. Len(<<>>) = 0 BY EmptySeq
  <2> QED BY <1>1, <1>2, <2>1
<1>5. f[d] = rvm_memory_read_uint16(m, r) BY <1>1, <1>2 DEF FrameIn
<1>6. /\ h \in Seq(Word) /\ Len(h) = d - 1
      /\ \A i \in 1 .. d - 1 : h[i] = f[i]
  <2> HIDE DEF f, d
  <2>1. d - 1 \in Int /\ 1 \in Int /\ \A i \in 1 .. d - 1 : f[i] \in Word
        BY <1>1, <1>2
  <2> HIDE DEF h
  <2>2. /\ h \in Seq(Word) /\ Len(h) = IF 1 <= d - 1 THEN d - 1 - 1 + 1 ELSE 0
        /\ \A i \in 1 .. d - 1 - 1 + 1 : h[i] = f[1 + i - 1]
        BY <2>1, SubSeqProperties DEF h
  <2> QED BY <1>1, <2>2
<1>7. \A i \in 1 .. d - 1 : g[i] = h[i] BY <1>1, <1>2, <1>3, <1>6
<1> HIDE DEF g, h, f, d
<1>8. g = h BY <1>3, <1>6, <1>7, SeqEqual
<1> QED BY <1>2, <1>4, <1>5, <1>8 DEF g, h, f, d

-----------------------------------------------------------------------------
(***************************************************************************)
(* The state before a step and the state after it, as CallStack sees them. *)
(***************************************************************************)
\* The frames of the mapping are those of the lemmas.
LEMMA FramesAre ==
  /\ Frames = FramesIn(mem, rsp)
  /\ Frames' = FramesIn(mem', rsp')
<1>1. Frames = FramesIn(mem, rsp)
      BY DEF Frames, Frame, Depth, FramesIn, FrameIn, DepthAt, END
<1>2. Frames' = FramesIn(mem', rsp')
      BY DEF Frames, Frame, Depth, FramesIn, FrameIn, DepthAt, END
<1> QED BY <1>1, <1>2

LEMMA InvGivesStack ==
  ASSUME IInv
  PROVE  InStack(rsp) /\ mem \in [Address -> Byte]
BY DEF IInv, TypeOK, StackDiscipline, InStack, END

LEMMA KindType == Kind \in CS!Kind /\ Kind' \in CS!Kind
<1>1. Kind \in CS!Kind BY DEF Kind, CS!Kind
<1>2. Kind' \in CS!Kind BY DEF Kind, CS!Kind
<1> QED BY <1>1, <1>2

\* The kind of the instruction that is executed.
LEMMA KindOf ==
  ASSUME NEW op, Executing(op)
  PROVE  /\ op = RVM_OP.CALL => Kind = "call"
         /\ op = RVM_OP.RET => Kind = "ret"
         /\ op = RVM_OP.STORE => Kind = "store"
         /\ op \notin {RVM_OP.CALL, RVM_OP.RET, RVM_OP.STORE} => Kind = "other"
BY DEF Executing, Kind, RVM_OP

\* The next instruction, and every target that passes the checks, may be
\* gone to.
LEMMA Lands ==
  ASSUME IInv, Fetchable
  PROVE  /\ CS!Next2 = NextRip
         /\ NextRip \in Word /\ ~BadAddress(NextRip)
<1>1. CS!Next2 = NextRip BY DEF CS!Next2, NextRip, RVM_CPU_INSTRUCTION_SIZE
<1>2. NextRip = rip + 2 BY FetchFits
<1>3. NextRip \in Word /\ NextRip % 2 = 0 BY Operands
<1>4. ~(NextRip > RVM_MEMORY_SIZE - 2)
      BY <1>2, FetchFits, Pointers, LayoutAssumption DEF InBounds, Fetchable
<1> QED BY <1>1, <1>3, <1>4 DEF BadAddress

-----------------------------------------------------------------------------
LEMMA InitRefines == ASSUME Init PROVE CS!Init
<1>1. IInv BY InitEstablishesInv
<1>2. Frames = <<>>
  <2>1. DepthAt(rsp) = 0
        BY LayoutAssumption DEF Init, rvm_vm_create, DepthAt, END
  <2>2. Frames \in Seq(Word) /\ Len(Frames) = 0
        BY <1>1, <2>1, InvGivesStack, FramesAre, FramesType
  <2> QED BY <2>2, EmptySeq
<1>3. rip = 0 /\ (~Running) = FALSE BY DEF Init, rvm_vm_create, Running
<1> QED BY <1>2, <1>3, KindType DEF CS!Init

\* A fault that leaves RSP alone is a stop; only an empty stack stops a RET.
LEMMA StopRefines ==
  ASSUME IInv, Running, Fetchable, Stop, UNCHANGED rsp,
         Kind = "ret" => Frames = <<>>
  PROVE  CS!Stop
<1>1. Frames' = Frames BY FramesAre DEF Stop
<1>2. rip' = CS!Next2 BY Lands DEF Stop
<1>3. ~~Running /\ (~Running)' = TRUE BY DEF Running, Stop
<1> QED BY <1>1, <1>2, <1>3, KindType DEF CS!Stop

\* An instruction that leaves memory and RSP alone and goes to a valid
\* address.
LEMMA StepRefines ==
  ASSUME IInv, Running, Kind = "other", UNCHANGED <<mem, rsp, halt, rc>>,
         rip' \in Word, ~BadAddress(rip')
  PROVE  CS!Step
<1>1. Frames' = Frames BY FramesAre
<1>2. ~~Running /\ (~Running)' = FALSE BY DEF Running
<1>3. rip' \in {addr \in Word : ~BadAddress(addr)} OBVIOUS
<1> QED BY <1>1, <1>2, <1>3, KindType DEF CS!Step, CS!Continue

\* What every handler but those of STORE, CALL and RET does: go on at a valid
\* address or fault, with the stack as it was.
LEMMA OthersRefine ==
  ASSUME IInv, NEW op \in 0 .. 15, Executing(op),
         op \notin {RVM_OP.CALL, RVM_OP.RET, RVM_OP.STORE},
         UNCHANGED <<mem, rsp, rc>>,
         \/ halt' = halt /\ rip' \in {NextRip, Target} /\ ~BadAddress(rip')
         \/ Stop
  PROVE  CS!Next
<1>1. Running /\ Fetchable /\ Kind = "other" BY KindOf DEF Executing
<1>2. CASE Stop BY <1>1, <1>2, StopRefines DEF CS!Next
<1>3. CASE halt' = halt /\ rip' \in {NextRip, Target} /\ ~BadAddress(rip')
  <2>1. rip' \in Word BY <1>1, <1>3, Operands
  <2> QED BY <1>1, <1>3, <2>1, StepRefines DEF CS!Next
<1> QED BY <1>2, <1>3

\* A store of one word at an even address reaches two neighbouring frames at
\* most: frame j overlaps the word at a only if |END - 2j - a| <= 1.
LEMMA StoreRefines ==
  ASSUME IInv, rvm_cpu_exec_store
  PROVE  CS!Next
<1>1. Running /\ Fetchable /\ Kind = "store" /\ IInv'
      BY KindOf, StoreKeepsInv DEF rvm_cpu_exec_store, Executing, RVM_OP
<1>2. CASE BadAddress(Source) /\ Stop /\ UNCHANGED rsp
      BY <1>1, <1>2, StopRefines DEF CS!Next
<1>3. CASE /\ ~BadAddress(Source)
           /\ mem' = rvm_memory_write_uint16(mem, Source, Destination)
           /\ rip' = NextRip
           /\ UNCHANGED <<rv, rsp, flags, halt, rc>>
  <2> DEFINE a == Source
             w == Destination
             n == rvm_memory_write_uint16(mem, a, w)
             d == DepthAt(rsp)
             f == FramesIn(mem, rsp)
             g == FramesIn(n, rsp)
             k == (END - a) \div 2
             i == IF k \in 0 .. d THEN k ELSE 0
  <2>1. a \in Nat /\ InBounds(a) /\ w \in Word /\ END \in Nat
        BY <1>1, <1>3, Operands, GoodAddress, LayoutAssumption DEF END
  <2>2. InStack(rsp) /\ mem \in [Address -> Byte] BY InvGivesStack
  <2>3. n \in [Address -> Byte] BY <2>1, <2>2, WriteIsMemory
  <2>4. /\ f \in Seq(Word) /\ Len(f) = d /\ d \in Nat
        /\ \A j \in 1 .. d : f[j] = FrameIn(mem, j)
        BY <2>2, FramesType, Geometry
  <2>5. /\ g \in Seq(Word) /\ Len(g) = d
        /\ \A j \in 1 .. d : g[j] = FrameIn(n, j)
        BY <2>2, <2>3, FramesType
  <2>6. i \in 0 .. d BY <2>4
  <2>7. ASSUME NEW j \in 1 .. d, j \notin {i, i + 1}
        PROVE  g[j] = f[j]
    <3> DEFINE b == END - 2 * j
    <3>1. b \in Nat /\ InBounds(b) BY <2>2, Geometry
    <3>2. b + 1 < a \/ a + 1 < b
      <4> HIDE DEF a, d
      <4>1. j \in Nat /\ 1 <= j /\ j <= d BY <2>4
      <4>2. CASE k \in 0 .. d BY <2>1, <2>7, <4>1, <4>2
      <4>3. CASE k < 0 BY <2>1, <4>1, <4>3
      <4>4. CASE k > d BY <2>1, <2>4, <4>1, <4>4
      <4>5. k \in Int BY <2>1
      <4> QED BY <2>4, <4>2, <4>3, <4>4, <4>5
    <3>3. FrameIn(n, j) = FrameIn(mem, j)
          BY <2>1, <2>2, <3>1, <3>2, ReadElsewhere DEF FrameIn
    <3> QED BY <2>4, <2>5, <3>3
  <2>8. Frames = f /\ Frames' = g BY <1>3, FramesAre
  <2>9. DOMAIN f = 1 .. d BY <2>4, LenProperties
  <2>10. rip' = CS!Next2 BY <1>1, <1>3, Lands
  <2>11. ~~Running /\ (~Running)' = FALSE BY <1>1, <1>3 DEF Running
  <2> HIDE DEF a, w, n, d, f, g, i
  <2>12. \E x \in 0 .. Len(Frames) : \A j \in DOMAIN Frames :
           j \notin {x, x + 1} => Frames'[j] = Frames[j]
         BY <2>4, <2>6, <2>7, <2>8, <2>9
  <2>13. Len(Frames') = Len(Frames) BY <2>4, <2>5, <2>8
  <2>14. CS!Continue BY <2>11, KindType DEF CS!Continue
  <2> QED BY <1>1, <2>10, <2>12, <2>13, <2>14 DEF CS!Store, CS!Next
<1> QED BY <1>2, <1>3 DEF rvm_cpu_exec_store

LEMMA CallRefines ==
  ASSUME IInv, rvm_cpu_exec_call
  PROVE  CS!Next
<1>1. Running /\ Fetchable /\ Kind = "call" /\ IInv'
      BY KindOf, CallKeepsInv DEF rvm_cpu_exec_call, Executing, RVM_OP
<1>2. CASE (BadAddress(Target) \/ CallOverflows) /\ Stop /\ UNCHANGED rsp
      BY <1>1, <1>2, StopRefines DEF CS!Next
<1>3. CASE /\ ~BadAddress(Target) /\ ~CallOverflows
           /\ rsp' = rsp - 2
           /\ mem' = rvm_memory_write_uint16(mem, rsp - 2, NextRip)
           /\ rip' = Target
           /\ UNCHANGED <<rv, flags, halt, rc>>
  <2>1. InStack(rsp) /\ InStack(rsp - 2) /\ mem \in [Address -> Byte]
    <3>1. InStack(rsp') BY <1>1 DEF IInv, StackDiscipline, InStack, END
    <3> QED BY <1>3, <3>1, InvGivesStack
  <2>2. NextRip \in Word /\ CS!Next2 = NextRip BY <1>1, Lands
  <2>3. Frames' = Append(Frames, CS!Next2)
        BY <1>3, <2>1, <2>2, FramesAre, PushAppends
  <2>4. Len(Frames) < (RVM_MEMORY_STACK_END - RVM_MEMORY_STACK_START) \div 2
    <3>1. /\ Len(Frames) = DepthAt(rsp) /\ DepthAt(rsp) \in Nat
          /\ rsp = END - 2 * DepthAt(rsp)
          BY <2>1, FramesAre, FramesType, Geometry
    <3>2. /\ DepthAt(rsp - 2) <= StackCapacity /\ DepthAt(rsp - 2) \in Nat
          /\ rsp - 2 = END - 2 * DepthAt(rsp - 2)
          BY <2>1, Geometry
    <3>3. DepthAt(rsp - 2) = DepthAt(rsp) + 1
          BY <3>1, <3>2, LayoutAssumption DEF END
    <3> QED BY <3>1, <3>2, <3>3, LayoutAssumption DEF StackCapacity
  <2>5. rip' \in {addr \in Word : ~BadAddress(addr)} BY <1>1, <1>3, Operands
  <2>6. ~~Running /\ (~Running)' = FALSE BY <1>1, <1>3 DEF Running
  <2>7. CS!Continue BY <2>6, KindType DEF CS!Continue
  <2> QED BY <1>1, <2>3, <2>4, <2>5, <2>7 DEF CS!Call, CS!Next
<1> QED BY <1>2, <1>3 DEF rvm_cpu_exec_call

LEMMA RetRefines ==
  ASSUME IInv, rvm_cpu_exec_ret
  PROVE  CS!Next
<1>1. Running /\ Fetchable /\ Kind = "ret" /\ IInv'
      BY KindOf, RetKeepsInv DEF rvm_cpu_exec_ret, Executing, RVM_OP
<1>2. CASE RetOnEmptyStack /\ Stop /\ UNCHANGED rsp
  <2>1. DepthAt(rsp) = 0
        BY <1>2, LayoutAssumption
        DEF RetOnEmptyStack, IInv, StackDiscipline, DepthAt, END
  <2>2. Frames \in Seq(Word) /\ Len(Frames) = 0
        BY <2>1, InvGivesStack, FramesAre, FramesType
  <2>3. Frames = <<>> BY <2>2, EmptySeq
  <2> QED BY <1>1, <1>2, <2>3, StopRefines DEF CS!Next
<1>3. CASE /\ ~RetOnEmptyStack /\ rsp' = rsp + 2 /\ UNCHANGED mem
           /\ \/ BadAddress(ReturnAddress) /\ Stop
              \/ /\ ~BadAddress(ReturnAddress) /\ rip' = ReturnAddress
                 /\ UNCHANGED <<halt, rc>>
  <2>1. InStack(rsp) /\ InStack(rsp + 2) /\ mem \in [Address -> Byte]
    <3>1. InStack(rsp') BY <1>1 DEF IInv, StackDiscipline, InStack, END
    <3> QED BY <1>3, <3>1, InvGivesStack
  <2>2. /\ Frames # <<>> /\ CS!Top = ReturnAddress /\ Frames' = CS!Popped
        BY <1>3, <2>1, FramesAre, PopRemovesLast DEF CS!Top, CS!Popped, ReturnAddress
  <2>3. ReturnAddress \in Word
        BY <1>3, <2>1, PopFits, ReadIsWord DEF ReturnAddress
  <2>4. CASE BadAddress(ReturnAddress) /\ Stop
    <3>1. ~~Running /\ (~Running)' = TRUE BY <1>1, <2>4 DEF Running, Stop
    <3>2. rip' = CS!Next2 BY <1>1, <2>4, Lands DEF Stop
    <3>3. CS!Top \notin {addr \in Word : ~BadAddress(addr)} BY <2>2, <2>4
    <3> QED BY <1>1, <2>2, <3>1, <3>2, <3>3, KindType DEF CS!ReturnFault, CS!Next
  <2>5. CASE /\ ~BadAddress(ReturnAddress) /\ rip' = ReturnAddress
             /\ UNCHANGED <<halt, rc>>
    <3>1. ~~Running /\ (~Running)' = FALSE BY <1>1, <2>5 DEF Running
    <3>2. CS!Continue BY <3>1, KindType DEF CS!Continue
    <3>3. CS!Top \in {addr \in Word : ~BadAddress(addr)} BY <2>2, <2>3, <2>5
    <3> QED BY <1>1, <2>2, <2>5, <3>2, <3>3 DEF CS!Return, CS!Next
  <2> QED BY <1>3, <2>4, <2>5
<1> QED BY <1>2, <1>3 DEF rvm_cpu_exec_ret, Stop

\* The error return of the cycle: the machine stops where it is.
LEMMA OutOfBoundsRefines ==
  ASSUME RipOutOfBounds
  PROVE  CS!Next
<1>1. Frames' = Frames BY FramesAre DEF RipOutOfBounds
<1>2. Kind = "none" /\ rip' = rip BY DEF RipOutOfBounds, Kind
<1>3. ~~Running /\ (~Running)' = TRUE BY DEF RipOutOfBounds, Running
<1> QED BY <1>1, <1>2, <1>3, KindType DEF CS!Stop, CS!Next

\* One step per handler.
LEMMA NextRefines ==
  ASSUME IInv, Next
  PROVE  CS!Next
<1> DEFINE Effect(op) ==
      /\ Executing(op) /\ UNCHANGED <<mem, rsp, rc>>
      /\ \/ halt' = halt /\ rip' \in {NextRip, Target} /\ ~BadAddress(rip')
         \/ Stop
<1>1. ASSUME NEW op \in 0 .. 15 \ {RVM_OP.CALL, RVM_OP.RET, RVM_OP.STORE}, Effect(op)
      PROVE  CS!Next
      BY <1>1, OthersRefine
<1>2. Fetchable => ~BadAddress(NextRip) BY Lands
<1>3. CASE rvm_cpu_exec_mov \/ rvm_cpu_exec_load
  <2>1. Effect(RVM_OP.MOV) \/ Effect(RVM_OP.LOAD)
        BY <1>2, <1>3
        DEF rvm_cpu_exec_mov, rvm_cpu_exec_load, SetRegister, Executing, Stop
  <2> QED BY <1>1, <2>1 DEF RVM_OP
<1>4. CASE rvm_cpu_exec_add \/ rvm_cpu_exec_sub \/ rvm_cpu_exec_mul
  <2>1. Effect(RVM_OP.ADD) \/ Effect(RVM_OP.SUB) \/ Effect(RVM_OP.MUL)
        BY <1>2, <1>4
        DEF rvm_cpu_exec_add, rvm_cpu_exec_sub, rvm_cpu_exec_mul, WriteBack, Executing
  <2> QED BY <1>1, <2>1 DEF RVM_OP
<1>5. CASE rvm_cpu_exec_div \/ rvm_cpu_exec_mod
  <2>1. Effect(RVM_OP.DIV) \/ Effect(RVM_OP.MOD)
        BY <1>2, <1>5
        DEF rvm_cpu_exec_div, rvm_cpu_exec_mod, WriteBack, Executing, Stop
  <2> QED BY <1>1, <2>1 DEF RVM_OP
<1>6. CASE rvm_cpu_exec_shl \/ rvm_cpu_exec_shr
  <2>1. Effect(RVM_OP.SHL) \/ Effect(RVM_OP.SHR)
        BY <1>2, <1>6 DEF rvm_cpu_exec_shl, rvm_cpu_exec_shr, WriteBack, Executing
  <2> QED BY <1>1, <2>1 DEF RVM_OP
<1>7. CASE rvm_cpu_exec_cmp
  <2>1. Effect(RVM_OP.CMP) BY <1>2, <1>7 DEF rvm_cpu_exec_cmp, Executing
  <2> QED BY <1>1, <2>1 DEF RVM_OP
<1>8. CASE rvm_cpu_exec_jmp \/ rvm_cpu_exec_jz \/ rvm_cpu_exec_jnz
  <2>1. Effect(RVM_OP.JMP) \/ Effect(RVM_OP.JZ) \/ Effect(RVM_OP.JNZ)
        BY <1>2, <1>8
        DEF rvm_cpu_exec_jmp, rvm_cpu_exec_jz, rvm_cpu_exec_jnz, Jump,
            FallThrough, Executing, Stop
  <2> QED BY <1>1, <2>1 DEF RVM_OP
<1>9. CASE rvm_cpu_exec_store BY <1>9, StoreRefines
<1>10. CASE rvm_cpu_exec_call BY <1>10, CallRefines
<1>11. CASE rvm_cpu_exec_ret BY <1>11, RetRefines
<1>12. CASE RipOutOfBounds BY <1>12, OutOfBoundsRefines
<1> QED BY <1>3, <1>4, <1>5, <1>6, <1>7, <1>8, <1>9, <1>10, <1>11, <1>12
        DEF Next, rvm_cpu_cycle

\* Every behaviour of the processor is one of the bounded last-in first-out
\* stack of return addresses: calls push the address behind them, returns
\* take the newest, a store damages two frames at most and nothing else
\* touches one, for every memory layout and every set of programs.
THEOREM Refinement == Spec => ImplementsCallStack
<1>1. Init => CS!Init BY InitRefines
<1>2. IInv /\ [Next]_vars => [CS!Next]_CS!vars
  <2> SUFFICES ASSUME IInv, [Next]_vars PROVE [CS!Next]_CS!vars OBVIOUS
  <2>1. CASE Next BY <2>1, NextRefines
  <2>2. CASE UNCHANGED vars
    <3>1. UNCHANGED <<rip, Frames, Kind>>
          BY <2>2
          DEF vars, Frames, Frame, Depth, Kind, Fetchable, instr
    <3>2. (~Running)' = (~Running) BY <2>2 DEF vars, Running
    <3> QED BY <3>1, <3>2 DEF CS!vars
  <2> QED BY <2>1, <2>2
<1> QED BY <1>1, <1>2, Invariance, PTL DEF Spec, ImplementsCallStack, CS!Spec

-----------------------------------------------------------------------------
(***************************************************************************)
(* Return addresses.  A program that contains no STORE cannot change its   *)
(* own code or its frames, so every live frame holds the address behind a  *)
(* CALL.  The invariant is about the program and the frames together: a    *)
(* frame is only as good as the code it was made by, and the code stays    *)
(* what it is only because a push cannot reach it.                         *)
(***************************************************************************)
\* No instruction that can be fetched from m is a STORE: RIP is even, and the
\* bounds check of rvm_cpu_cycle keeps it below the end of the program region.
StoreFree(m) ==
  \A a \in 0 .. RVM_MEMORY_PROGRAM_END - 2 : a % 2 = 0 =>
    rvm_decode(rvm_memory_read_uint16(m, a)).opcode # RVM_OP.STORE

\* w is the address behind a CALL of the program in m.
BehindCall(m, w) ==
  /\ w \in 2 .. RVM_MEMORY_PROGRAM_END
  /\ rvm_decode(rvm_memory_read_uint16(m, w - 2)).opcode = RVM_OP.CALL

CallSitesIn(m, r) == \A i \in 1 .. DepthAt(r) : BehindCall(m, FrameIn(m, i))

FInv == IInv /\ StoreFree(mem) /\ CallSitesIn(mem, rsp)

LEMMA FramesAreCallSitesIn == FramesAreCallSites <=> CallSitesIn(mem, rsp)
BY DEF FramesAreCallSites, CallSitesIn, BehindCall, Depth, DepthAt, Frame, FrameIn, END

-----------------------------------------------------------------------------
(***************************************************************************)
(* What a write into the stack region leaves alone.                        *)
(***************************************************************************)
LEMMA ProgramWordKept ==
  ASSUME NEW m \in [Address -> Byte], NEW a \in Nat, RVM_MEMORY_STACK_START <= a,
         NEW w \in Word, NEW b \in 0 .. RVM_MEMORY_PROGRAM_END - 2
  PROVE  rvm_memory_read_uint16(rvm_memory_write_uint16(m, a, w), b)
           = rvm_memory_read_uint16(m, b)
<1>1. b \in Nat /\ InBounds(b) /\ b + 1 < a BY LayoutAssumption DEF InBounds
<1> QED BY <1>1, ReadElsewhere

LEMMA StoreFreeKept ==
  ASSUME NEW m \in [Address -> Byte], NEW a \in Nat, RVM_MEMORY_STACK_START <= a,
         NEW w \in Word, StoreFree(m)
  PROVE  StoreFree(rvm_memory_write_uint16(m, a, w))
BY ProgramWordKept, Zenon DEF StoreFree

LEMMA BehindCallKept ==
  ASSUME NEW m \in [Address -> Byte], NEW a \in Nat, RVM_MEMORY_STACK_START <= a,
         NEW w \in Word, NEW addr, BehindCall(m, addr)
  PROVE  BehindCall(rvm_memory_write_uint16(m, a, w), addr)
<1>1. addr \in 2 .. RVM_MEMORY_PROGRAM_END BY DEF BehindCall
<1>2. addr - 2 \in 0 .. RVM_MEMORY_PROGRAM_END - 2 BY <1>1, LayoutAssumption
<1>3. rvm_memory_read_uint16(rvm_memory_write_uint16(m, a, w), addr - 2)
        = rvm_memory_read_uint16(m, addr - 2)
      BY <1>2, ProgramWordKept
<1> QED BY <1>1, <1>3 DEF BehindCall

\* A push of the address behind a CALL.
LEMMA PushKeepsCallSites ==
  ASSUME NEW m \in [Address -> Byte], NEW r, InStack(r), InStack(r - 2),
         NEW w \in Word, BehindCall(m, w), CallSitesIn(m, r)
  PROVE  CallSitesIn(rvm_memory_write_uint16(m, r - 2, w), r - 2)
<1> DEFINE n == rvm_memory_write_uint16(m, r - 2, w)
           d == DepthAt(r)
<1>1. /\ d \in Nat /\ r \in Nat /\ r - 2 \in Nat /\ InBounds(r - 2)
      /\ DepthAt(r - 2) = d + 1 /\ RVM_MEMORY_STACK_START <= r - 2
  <2>1. d \in Nat /\ r \in Nat /\ r - 2 \in Nat BY Geometry
  <2>2. DepthAt(r - 2) = d + 1 /\ r - 2 = END - 2 * (d + 1)
        BY <2>1, Geometry, LayoutAssumption DEF DepthAt, END
  <2>3. d + 1 \in 1 .. DepthAt(r - 2) BY <2>1, <2>2
  <2>4. RVM_MEMORY_STACK_START <= r - 2 BY <2>1, LayoutAssumption DEF InStack
  <2> QED BY <2>1, <2>2, <2>3, <2>4, Geometry
<1>2. n \in [Address -> Byte] BY <1>1, WriteIsMemory
<1>3. /\ FramesIn(m, r) \in Seq(Word) /\ Len(FramesIn(m, r)) = d
      /\ \A i \in 1 .. d : FramesIn(m, r)[i] = FrameIn(m, i)
      BY FramesType
<1>4. \A i \in 1 .. d + 1 : FramesIn(n, r - 2)[i] = FrameIn(n, i)
      BY <1>1, <1>2, FramesType
<1>5. FramesIn(n, r - 2) = Append(FramesIn(m, r), w) BY PushAppends
<1>6. PICK f : f = FramesIn(m, r) OBVIOUS
<1>7. PICK h : h = Append(f, w) OBVIOUS
<1>8. /\ h[d + 1] = w
      /\ \A i \in 1 .. d : h[i] = f[i]
      BY <1>3, <1>6, <1>7, AppendProperties
<1> HIDE DEF n, d
<1>9. /\ FrameIn(n, d + 1) = w
      /\ \A i \in 1 .. d : FrameIn(n, i) = FrameIn(m, i)
  <2>1. FramesIn(n, r - 2) = h BY <1>5, <1>6, <1>7
  <2>2. \A i \in 1 .. d : i \in 1 .. d + 1 BY <1>1
  <2>3. d + 1 \in 1 .. d + 1 BY <1>1
  <2> QED BY <1>3, <1>4, <1>6, <1>8, <2>1, <2>2, <2>3
<1>10. ASSUME NEW i \in 1 .. d + 1 PROVE BehindCall(n, FrameIn(n, i))
  <2>1. BehindCall(n, w) BY <1>1, BehindCallKept DEF n
  <2>2. i \in 1 .. d => BehindCall(n, FrameIn(m, i))
        BY <1>1, BehindCallKept DEF CallSitesIn, n, d
  <2>3. i = d + 1 \/ i \in 1 .. d BY <1>1
  <2> QED BY <1>9, <2>1, <2>2, <2>3
<1> QED BY <1>1, <1>10 DEF CallSitesIn, n

\* A pop leaves fewer of the same frames.
LEMMA PopKeepsCallSites ==
  ASSUME NEW m, NEW r, InStack(r), InStack(r + 2), CallSitesIn(m, r)
  PROVE  CallSitesIn(m, r + 2)
<1>1. /\ DepthAt(r) \in Nat /\ DepthAt(r + 2) \in Nat
      /\ r = END - 2 * DepthAt(r) /\ r + 2 = END - 2 * DepthAt(r + 2)
      /\ r \in Nat
      BY Geometry
<1>2. DepthAt(r + 2) <= DepthAt(r) BY <1>1, LayoutAssumption DEF END
<1>3. 1 .. DepthAt(r + 2) \subseteq 1 .. DepthAt(r) BY <1>1, <1>2
<1> QED BY <1>3 DEF CallSitesIn

-----------------------------------------------------------------------------
(***************************************************************************)
(* The steps.                                                              *)
(***************************************************************************)
LEMMA CallKeepsFrames ==
  ASSUME FInv, rvm_cpu_exec_call
  PROVE  StoreFree(mem') /\ CallSitesIn(mem', rsp')
<1>1. IInv /\ IInv' /\ StoreFree(mem) /\ CallSitesIn(mem, rsp)
      BY CallKeepsInv DEF FInv
<1>2. Fetchable /\ instr.opcode = RVM_OP.CALL BY DEF rvm_cpu_exec_call, Executing
<1>3. CASE Stop /\ UNCHANGED rsp BY <1>1, <1>3 DEF Stop
<1>4. CASE /\ ~CallOverflows /\ rsp' = rsp - 2
           /\ mem' = rvm_memory_write_uint16(mem, rsp - 2, NextRip)
  <2>1. InStack(rsp) /\ InStack(rsp - 2) /\ mem \in [Address -> Byte]
    <3>1. InStack(rsp') BY <1>1 DEF IInv, StackDiscipline, InStack, END
    <3> QED BY <1>1, <1>4, <3>1, InvGivesStack
  <2>2. NextRip \in Word /\ NextRip = rip + 2 /\ rip \in Nat
        /\ rip <= RVM_MEMORY_PROGRAM_END - 2
        BY <1>1, <1>2, Operands, FetchFits, Pointers DEF Fetchable
  <2>3. BehindCall(mem, NextRip)
    <3>1. NextRip \in 2 .. RVM_MEMORY_PROGRAM_END BY <2>2, LayoutAssumption
    <3>2. NextRip - 2 = rip BY <2>2
    <3> QED BY <1>2, <3>1, <3>2 DEF BehindCall, instr
  <2>4. rsp - 2 \in Nat /\ RVM_MEMORY_STACK_START <= rsp - 2
        BY <1>1, <1>4, PushFits, LayoutAssumption
  <2>5. StoreFree(mem') BY <1>1, <1>4, <2>1, <2>2, <2>4, StoreFreeKept
  <2>6. CallSitesIn(mem', rsp')
        BY <1>1, <1>4, <2>1, <2>2, <2>3, PushKeepsCallSites
  <2> QED BY <2>5, <2>6
<1> QED BY <1>3, <1>4 DEF rvm_cpu_exec_call

LEMMA RetKeepsFrames ==
  ASSUME FInv, rvm_cpu_exec_ret
  PROVE  StoreFree(mem') /\ CallSitesIn(mem', rsp')
<1>1. IInv /\ IInv' /\ StoreFree(mem) /\ CallSitesIn(mem, rsp)
      BY RetKeepsInv DEF FInv
<1>2. UNCHANGED mem BY DEF rvm_cpu_exec_ret, Stop
<1>3. CASE UNCHANGED rsp BY <1>1, <1>2, <1>3
<1>4. CASE rsp' = rsp + 2
  <2>1. InStack(rsp) /\ InStack(rsp + 2)
    <3>1. InStack(rsp') BY <1>1 DEF IInv, StackDiscipline, InStack, END
    <3> QED BY <1>1, <1>4, <3>1, InvGivesStack
  <2> QED BY <1>1, <1>2, <1>4, <2>1, PopKeepsCallSites
<1> QED BY <1>3, <1>4 DEF rvm_cpu_exec_ret

\* A STORE is never fetched.
LEMMA NoStoreExecutes ==
  ASSUME FInv
  PROVE  ~rvm_cpu_exec_store
<1> SUFFICES ASSUME rvm_cpu_exec_store PROVE FALSE OBVIOUS
<1>1. Fetchable /\ instr.opcode = RVM_OP.STORE BY DEF rvm_cpu_exec_store, Executing
<1>2. rip \in Nat /\ rip % 2 = 0 /\ rip <= RVM_MEMORY_PROGRAM_END - 2
      BY <1>1, Pointers DEF FInv, Fetchable
<1>3. rip \in 0 .. RVM_MEMORY_PROGRAM_END - 2 BY <1>2, LayoutAssumption
<1> QED BY <1>1, <1>2, <1>3 DEF FInv, StoreFree, instr

\* The other handlers touch neither the memory nor the stack pointer.
LEMMA OthersKeepFrames ==
  ASSUME Next, ~rvm_cpu_exec_store, ~rvm_cpu_exec_call, ~rvm_cpu_exec_ret
  PROVE  UNCHANGED <<mem, rsp>>
BY DEF Next, rvm_cpu_cycle, SetRegister, WriteBack, Stop, Jump, FallThrough,
       rvm_cpu_exec_mov, rvm_cpu_exec_load, rvm_cpu_exec_add, rvm_cpu_exec_sub,
       rvm_cpu_exec_mul, rvm_cpu_exec_div, rvm_cpu_exec_mod, rvm_cpu_exec_shl,
       rvm_cpu_exec_shr, rvm_cpu_exec_cmp, rvm_cpu_exec_jmp, rvm_cpu_exec_jz,
       rvm_cpu_exec_jnz, RipOutOfBounds

LEMMA NextKeepsFrames == FInv /\ [Next]_vars => FInv'
<1> SUFFICES ASSUME FInv, [Next]_vars PROVE FInv' OBVIOUS
<1>1. IInv' BY NextKeepsInv DEF FInv
<1>2. StoreFree(mem') /\ CallSitesIn(mem', rsp')
  <2>1. CASE rvm_cpu_exec_call BY <2>1, CallKeepsFrames
  <2>2. CASE rvm_cpu_exec_ret BY <2>2, RetKeepsFrames
  <2>3. CASE Next /\ ~rvm_cpu_exec_call /\ ~rvm_cpu_exec_ret
    <3>1. UNCHANGED <<mem, rsp>> BY <2>3, NoStoreExecutes, OthersKeepFrames
    <3> QED BY <3>1 DEF FInv
  <2>4. CASE UNCHANGED vars BY <2>4 DEF vars, FInv
  <2> QED BY <2>1, <2>2, <2>3, <2>4
<1>3. StoreFree(mem)' = StoreFree(mem') /\ CallSitesIn(mem, rsp)' = CallSitesIn(mem', rsp')
      BY DEF StoreFree, CallSitesIn, BehindCall, FrameIn, DepthAt
<1> QED BY <1>1, <1>2, <1>3 DEF FInv

\* Every live frame of a program without a STORE holds the address behind a
\* CALL, for every layout and every such program: RET can only go back to
\* where a CALL came from.
THEOREM ReturnsToCallers ==
  ASSUME \A image \in Images :
           Len(image) <= RVM_MEMORY_SIZE => StoreFree(Loaded(image, ZeroMemory))
  PROVE  Spec => []FramesAreCallSites
<1>1. Init => FInv
  <2> SUFFICES ASSUME Init PROVE FInv OBVIOUS
  <2>1. IInv BY InitEstablishesInv
  <2>2. StoreFree(mem) BY DEF Init
  <2>3. DepthAt(rsp) = 0
        BY LayoutAssumption DEF Init, rvm_vm_create, DepthAt, END
  <2>4. CallSitesIn(mem, rsp) BY <2>3 DEF CallSitesIn
  <2> QED BY <2>1, <2>2, <2>4 DEF FInv
<1>2. FInv => FramesAreCallSites BY FramesAreCallSitesIn DEF FInv
<1> QED BY <1>1, <1>2, NextKeepsFrames, PTL DEF Spec

=============================================================================
