----------------------------- MODULE BootProofs -----------------------------
(***************************************************************************)
(* The boot of the machine: registers, stacks, the clock and the order of  *)
(* the initialisations.                                                    *)
(***************************************************************************)
EXTENDS Boot, TLAPS

-----------------------------------------------------------------------------
(* The layout of a frame. *)

\* The registers.
LEMMA RegisterList ==
    /\ AllRegisters = {"rax", "rbx", "rcx", "rdx", "rsi", "rdi", "rbp", "r8", "r9", "r10", "r11", "r12",
                       "r13", "r14", "r15", "rip", "cs", "rflags", "rsp", "ss"}
    /\ Registers = {"rax", "rbx", "rcx", "rdx", "rsi", "rdi", "rbp", "r8", "r9", "r10", "r11", "r12",
                    "r13", "r14", "r15"}
BY DEF Registers, AllRegisters, Popped, Range

\* The place of every register in a frame.
Places == [rax |-> 1, rbx |-> 2, rcx |-> 3, rdx |-> 4, rsi |-> 5, rdi |-> 6, rbp |-> 8,
           r8 |-> 9, r9 |-> 10, r10 |-> 11, r11 |-> 12, r12 |-> 13, r13 |-> 14, r14 |-> 15, r15 |-> 16,
           rip |-> 19, cs |-> 20, rflags |-> 21, rsp |-> 22, ss |-> 23]

\* What is popped into a register is what was pushed from it.
LEMMA PlacesFacts ==
    ASSUME NEW r \in AllRegisters
    PROVE  Places[r] \in 1..23 /\ Popped[Places[r]] = r /\ Pushed[24 - Places[r]] = r
BY RegisterList DEF Places, Popped, Pushed

\* A register has one place.
LEMMA PopPlace ==
    ASSUME NEW r \in AllRegisters
    PROVE  Place(r) = Places[r]
<1>1. DOMAIN Popped = 1..23
  BY DEF Popped
<1>2. ASSUME NEW i \in 1..23, Popped[i] = r PROVE i = Places[r]
  BY <1>2, RegisterList DEF Places, Popped
<1> QED
  BY <1>1, <1>2, PlacesFacts DEF Place

\* A register is pushed at the place from which it is popped.
LEMMA PlaceFacts ==
    /\ Len(Pushed) = 23 /\ DOMAIN Pushed = 1..23
    /\ \A r \in AllRegisters : Place(r) \in 1..23 /\ Pushed[24 - Place(r)] = r
    /\ Place("rsp") = 22
<1>1. Len(Pushed) = 23 /\ DOMAIN Pushed = 1..23
  BY DEF Pushed
<1> QED
  BY <1>1, PopPlace, PlacesFacts, RegisterList DEF Places

\* What a thread expects in its registers, one by one.
LEMMA ImageFacts ==
    ASSUME NEW t, NEW progress, NEW a
    PROVE  /\ Image(t, progress, a) = [r \in AllRegisters |-> Image(t, progress, a)[r]]
           /\ Image(t, progress, a)["rip"] = IF progress = "new" THEN entry_point
                                             ELSE IF progress = "exit" THEN task_exit ELSE Code
           /\ Image(t, progress, a)["rsp"] = Pointer(t, a)
           /\ Image(t, progress, a)["rflags"] = IF progress = "boot" THEN Zero ELSE IF_set
           /\ Image(t, progress, a)["cs"] = kernel_cs
           /\ Image(t, progress, a)["ss"] = kernel_ds
           /\ \A r \in Registers : Image(t, progress, a)[r] = IF progress = "new" THEN Zero ELSE <<t, r, progress>>
BY RegisterList DEF Image

\* Registers that have these values are what the thread expects.
LEMMA ImageIs ==
    ASSUME NEW t, NEW progress, NEW a, NEW file, file = [r \in AllRegisters |-> file[r]],
           file["rip"] = IF progress = "new" THEN entry_point ELSE IF progress = "exit" THEN task_exit ELSE Code,
           file["rsp"] = Pointer(t, a),
           file["rflags"] = IF progress = "boot" THEN Zero ELSE IF_set,
           file["cs"] = kernel_cs, file["ss"] = kernel_ds,
           \A r \in Registers : file[r] = IF progress = "new" THEN Zero ELSE <<t, r, progress>>
    PROVE  file = Image(t, progress, a)
<1> DEFINE image == Image(t, progress, a)
<1>0. /\ image = [r \in AllRegisters |-> image[r]]
      /\ image["rip"] = IF progress = "new" THEN entry_point ELSE IF progress = "exit" THEN task_exit ELSE Code
      /\ image["rsp"] = Pointer(t, a)
      /\ image["rflags"] = IF progress = "boot" THEN Zero ELSE IF_set
      /\ image["cs"] = kernel_cs /\ image["ss"] = kernel_ds
      /\ \A r \in Registers : image[r] = IF progress = "new" THEN Zero ELSE <<t, r, progress>>
  BY ImageFacts
<1> HIDE DEF image
<1>1. /\ image = [r \in AllRegisters |-> image[r]]
      /\ file["rip"] = image["rip"] /\ file["rsp"] = image["rsp"] /\ file["rflags"] = image["rflags"]
      /\ file["cs"] = image["cs"] /\ file["ss"] = image["ss"]
      /\ \A r \in Registers : file[r] = image[r]
  BY <1>0, Zenon
<1>2. \A r \in AllRegisters : r \in Registers \/ r \in {"rip", "rsp", "rflags", "cs", "ss"}
  BY RegisterList
<1>3. \A r \in AllRegisters : file[r] = image[r]
  BY <1>1, <1>2
<1>4. file = image
  BY <1>1, <1>3
<1> QED
  BY <1>4 DEF image

-----------------------------------------------------------------------------
(* Stacks and their pages. *)

\* The last page of a stack, where it begins.
Base == (StackPages - 1) * PageWords

\* A stack is even, and a frame and the handler's words fit in its first page.
LEMMA Sizes ==
    /\ HandlerWords \in Nat /\ PageWords \in Nat /\ StackPages \in Nat
    /\ Base \in Nat /\ stack_top = Base + PageWords /\ stack_top \in Nat
    /\ PageWords > 24 + HandlerWords
    /\ ret_addr = stack_top - 1 /\ status = stack_top - 24
    /\ stack_top % 2 = 0
<1>1. /\ PageWords \in Nat /\ StackPages \in Nat /\ StackPages - 1 \in Nat /\ HandlerWords \in Nat
      /\ PageWords > 24 + HandlerWords /\ PageWords % 2 = 0
  BY ContextAssumption
<1>2. Base \in Nat /\ stack_top = Base + PageWords
  BY <1>1 DEF Base, stack_top
<1>3. PageWords = 2 * (PageWords \div 2) /\ PageWords \div 2 \in Nat
  BY <1>1
<1>4. stack_top = 2 * ((PageWords \div 2) * StackPages) /\ (PageWords \div 2) * StackPages \in Nat
  BY <1>1, <1>3 DEF stack_top
<1>5. stack_top % 2 = 0
  BY <1>4
<1> QED
  BY <1>1, <1>2, <1>5 DEF ret_addr, status, FrameWords

\* The page of a word.
LEMMA Pages_ ==
    ASSUME NEW w \in Int
    PROVE  /\ w \in Base..(stack_top - 1) => PageOf(w) = StackPages - 1
           /\ w < 0 => PageOf(w) < 0
           /\ w \in Words => PageOf(w) \in 0..(StackPages - 1)
<1>1. PageWords \in Nat /\ PageWords > 0 /\ StackPages \in Nat /\ StackPages - 1 \in Nat
  BY ContextAssumption
<1>2. stack_top = PageWords * StackPages /\ Base = (StackPages - 1) * PageWords /\ stack_top = Base + PageWords
  BY <1>1 DEF stack_top, Base
<1> DEFINE q == w \div PageWords
<1>3. q \in Int /\ q * PageWords <= w /\ w < q * PageWords + PageWords
  BY <1>1
<1> HIDE DEF q
<1>4. w \in Base..(stack_top - 1) => q = StackPages - 1
  <2> SUFFICES ASSUME w \in Base..(stack_top - 1) PROVE q = StackPages - 1
    OBVIOUS
  <2>1. q * PageWords < stack_top /\ Base < q * PageWords + PageWords
    BY <1>1, <1>2, <1>3
  <2>2. q < StackPages
    BY <1>1, <1>2, <1>3, <2>1
  <2>3. StackPages - 1 < q + 1
    BY <1>1, <1>2, <1>3, <2>1
  <2> QED
    BY <1>1, <1>3, <2>2, <2>3
<1>5. w < 0 => q < 0
  BY <1>1, <1>3
<1>6. w \in Words => q \in 0..(StackPages - 1)
  <2> SUFFICES ASSUME w \in Words PROVE q \in 0..(StackPages - 1)
    OBVIOUS
  <2>1. w >= 0 /\ w < stack_top
    BY <1>1, <1>2 DEF Words
  <2>2. q * PageWords < stack_top /\ 0 < q * PageWords + PageWords
    BY <1>1, <1>2, <1>3, <2>1
  <2>3. q < StackPages /\ q > -1
    BY <1>1, <1>2, <1>3, <2>2
  <2> QED
    BY <1>1, <1>3, <2>3
<1> QED
  BY <1>4, <1>5, <1>6 DEF PageOf, q

-----------------------------------------------------------------------------
(* The inductive invariant of the stacks and registers. *)

ContextTypes ==
    /\ cpu = [r \in AllRegisters |-> cpu[r]]
    /\ stack = [t \in AllThreads |-> [a \in Words |-> stack[t][a]]]
    /\ present = [t \in AllThreads |-> present[t]]
    /\ context = [t \in AllThreads |-> context[t]]
    /\ thread_current \in AllThreads
    /\ state \in [AllThreads -> {"NONE", "READY", "RUNNING", "ZOMBIE", "REAPED"}]
    /\ irq \in {"none", "handler", "return"}
    /\ reset \in BOOLEAN
    /\ work \in [AllThreads -> {"boot", "new", "even", "odd", "exit"}]
    /\ sp \in [AllThreads -> Int]

Alive(t) == state[t] \in {"READY", "RUNNING", "ZOMBIE"}

\* The pages of a stack: kmain's are all there, that of a thread has one.
PagesOf(t) == IF t = Idle THEN state[t] \in {"READY", "RUNNING"} /\ present[t] = 0..(StackPages - 1)
              ELSE present[t] = IF Alive(t) THEN {StackPages - 1} ELSE {}

\* Where a thread is in its life, and its stack pointer with it.
Life(t) ==
    IF t = Idle
    THEN sp[t] = stack_top /\ work[t] \in {"boot", "even", "odd"}
    ELSE /\ work[t] \in {"new", "even", "odd", "exit"}
         /\ work[t] = "new" => sp[t] = ret_addr
         /\ work[t] \in {"even", "odd"} => sp[t] \in 0..ret_addr
         /\ work[t] = "exit" => sp[t] \in ret_addr..stack_top
         /\ state[t] = "NONE" => work[t] = "new"
         /\ state[t] \in {"ZOMBIE", "REAPED"} => work[t] = "exit" /\ sp[t] = ret_addr

\* A thread finds the words it has pushed.
OwnWords(t) == \A a \in sp[t]..(stack_top - 1) : stack[t][a] = ExpectedWord(t, a)

\* A frame is on the stack of its thread, below all that the thread has pushed,
\* and holds the registers that the thread expects.
InFrame(t, f, words, image, a) ==
    /\ f = Pointer(t, WordOf(f))
    /\ WordOf(f) \in Nat /\ WordOf(f) + 23 <= a
    /\ \A r \in AllRegisters : words[WordOf(f) + Place(r) - 1] = image[r]

HasFrame(t, f) == InFrame(t, f, stack[t], Expected(t), sp[t])

\* The thread on the processor: its registers are there, or in the frame that the
\* handler has, or in the one that the handler returns.
OnProcessor ==
    /\ state[Here] \in {"RUNNING", "ZOMBIE"}
    /\ irq = "none" => cpu = Expected(Here)
    /\ irq = "handler" => HasFrame(Here, cpu.rsp) /\ WordOf(cpu.rsp) = Aligned(sp[Here]) - 23
    /\ irq = "return" => HasFrame(Here, rax)

\* Any other thread: its registers are in the frame of its context.
Off(t) == state[t] # "RUNNING" /\ (Alive(t) => HasFrame(t, context[t]))

\* Before sti kmain is alone on the processor.
Booting == work[Idle] = "boot" => Here = Idle /\ irq = "none"

SInv ==
    /\ \A t \in AllThreads : Life(t)
    /\ \A t \in AllThreads : Alive(t) => OwnWords(t)
    /\ OnProcessor
    /\ \A t \in AllThreads \ {Here} : Off(t)

CInv ==
    /\ ContextTypes
    /\ \A t \in AllThreads : PagesOf(t)
    /\ Booting
    /\ ~ reset => SInv
    /\ reset => work[Idle] # "boot" /\ sp[Here] - Base < 24 + HandlerWords

\* The invariant is enough.
LEMMA IntactFromCInv == CInv => ContextIntact /\ StackSafe
<1> SUFFICES ASSUME CInv PROVE ContextIntact /\ StackSafe
  OBVIOUS
<1>1. ContextIntact
  <2> SUFFICES ASSUME ~ reset, NEW t \in AllThreads, Alive(t)
               PROVE  /\ \A a \in sp[t]..(stack_top - 1) : stack[t][a] = ExpectedWord(t, a)
                      /\ Expected(t) = IF t = Here /\ irq = "none" THEN cpu ELSE Pop(Frame(t))
    BY DEF ContextIntact, Alive
  <2>1. SInv
    BY DEF CInv
  <2>2. \A a \in sp[t]..(stack_top - 1) : stack[t][a] = ExpectedWord(t, a)
    BY <2>1 DEF SInv, OwnWords
  <2>3. ASSUME NEW f, HasFrame(t, f) PROVE Expected(t) = Pop(f)
    <3>1. StackOf(f) = t
      BY <2>3 DEF HasFrame, InFrame, Pointer, StackOf
    <3>2. \A r \in AllRegisters : PoppedWord(f, r) = Expected(t)[r]
      BY <2>3, <3>1 DEF HasFrame, InFrame, PoppedWord
    <3>3. Expected(t) = [r \in AllRegisters |-> Expected(t)[r]]
      BY ImageFacts DEF Expected
    <3> QED
      BY <3>2, <3>3 DEF Pop
  <2>4. CASE t # Here
    <3>1. HasFrame(t, context[t])
      BY <2>1, <2>4 DEF SInv, Off
    <3>2. Frame(t) = context[t]
      BY <2>4 DEF Frame
    <3> QED
      BY <2>2, <2>3, <2>4, <3>1, <3>2
  <2>5. CASE t = Here
    <3>1. irq \in {"none", "handler", "return"}
      BY DEF CInv, ContextTypes
    <3> QED
      BY <2>1, <2>2, <2>3, <2>5, <3>1 DEF SInv, OnProcessor, Frame
  <2> QED
    BY <2>4, <2>5
<1>2. StackSafe
  <2>1. StackPages - 1 \in 0..(StackPages - 1)
    BY ContextAssumption
  <2>2. ASSUME NEW t \in AllThreads
        PROVE  /\ Alive(t) => StackPages - 1 \in present[t]
               /\ state[t] = "REAPED" => present[t] = {}
    <3>1. CASE t = Idle
      <4>1. state[t] # "REAPED"
        BY <3>1 DEF CInv, PagesOf
      <4> QED
        BY <2>1, <3>1, <4>1 DEF CInv, PagesOf
    <3>2. CASE t # Idle
      BY <3>2 DEF CInv, PagesOf, Alive
    <3> QED
      BY <3>1, <3>2
  <2>3. sp[Here] - (StackPages - 1) * PageWords >= FrameWords + 1 + HandlerWords => ~reset
    <3>1. sp[Here] \in Int /\ (reset => sp[Here] - Base < 24 + HandlerWords)
      BY DEF CInv, ContextTypes, Here
    <3> QED
      BY <3>1, Sizes DEF Base, FrameWords
  <2> QED
    BY <2>2, <2>3 DEF StackSafe, Alive
<1> QED
  BY <1>1, <1>2

\* Where the stack pointer of a thread can be.
LEMMA PointerRange ==
    ASSUME CInv, ~ reset, NEW t \in AllThreads
    PROVE  sp[t] \in 0..stack_top /\ sp[t] \in Int
<1>1. Life(t) /\ work[t] \in {"boot", "new", "even", "odd", "exit"} /\ sp[t] \in Int
  BY DEF CInv, SInv, ContextTypes
<1> QED
  BY <1>1, Sizes DEF Life

\* A push down to a word of the stack of a thread that is alive faults only
\* below the last page.
LEMMA MappedFacts ==
    ASSUME NEW t \in AllThreads, PagesOf(t), Alive(t), NEW a \in Int, NEW b \in Int, a < stack_top
    PROVE  /\ Mapped(t, a, b) /\ b <= a => b >= 0
           /\ ~ Mapped(t, a, b) => b < Base
<1>1. /\ \A w \in Base..(stack_top - 1) : PageOf(w) \in present[t]
      /\ \A w \in Int : w < 0 => PageOf(w) \notin present[t]
  <2>1. StackPages - 1 \in present[t] /\ \A n \in present[t] : n \in Nat
    BY ContextAssumption DEF PagesOf
  <2>2. \A w \in Base..(stack_top - 1) : w \in Int /\ PageOf(w) = StackPages - 1
    BY Pages_, Sizes
  <2>3. \A w \in Int : w < 0 => PageOf(w) < 0
    BY Pages_
  <2> QED
    BY <2>1, <2>2, <2>3
<1>2. Mapped(t, a, b) /\ b <= a => b >= 0
  <2> SUFFICES ASSUME Mapped(t, a, b), b <= a, b < 0 PROVE FALSE
    OBVIOUS
  <2>1. PageOf(b) \in present[t]
    BY DEF Mapped
  <2> QED
    BY <1>1, <2>1
<1>3. ~ Mapped(t, a, b) => b < Base
  <2> SUFFICES ASSUME b >= Base PROVE Mapped(t, a, b)
    BY Sizes
  <2> QED
    BY <1>1, Sizes DEF Mapped
<1> QED
  BY <1>2, <1>3

\* A frame stays as it is while its words do.
LEMMA FrameStays ==
    ASSUME NEW t, NEW f, NEW image, NEW a \in Int, NEW words, NEW words2, InFrame(t, f, words, image, a),
           \A w \in WordOf(f)..(WordOf(f) + 22) : words2[w] = words[w]
    PROVE  InFrame(t, f, words2, image, a)
<1>1. ASSUME NEW r \in AllRegisters PROVE WordOf(f) + Place(r) - 1 \in WordOf(f)..(WordOf(f) + 22)
  BY PlaceFacts DEF InFrame
<1> QED
  BY <1>1 DEF InFrame

\* A step of the thread on the processor that changes nothing of another thread.
LEMMA OwnStep ==
    ASSUME CInv, ~ reset, irq = "none",
           UNCHANGED <<present, context, thread_current, irq, rax, reset>>,
           cpu' = Expected(Here)',
           state' \in [AllThreads -> {"NONE", "READY", "RUNNING", "ZOMBIE", "REAPED"}],
           stack' = [t \in AllThreads |-> [a \in Words |-> stack'[t][a]]],
           work' \in [AllThreads -> {"boot", "new", "even", "odd", "exit"}],
           sp' \in [AllThreads -> Int],
           \A t \in AllThreads \ {Here} : /\ stack'[t] = stack[t] /\ state'[t] = state[t]
                                          /\ work'[t] = work[t] /\ sp'[t] = sp[t],
           state'[Here] \in {"RUNNING", "ZOMBIE"}, Here = Idle => state'[Here] = "RUNNING",
           Life(Here)', OwnWords(Here)', work'[Idle] # "boot"
    PROVE  CInv'
<1>1. Here \in AllThreads /\ Here' = Here /\ SInv
  BY DEF CInv, ContextTypes, Here
<1>2. ContextTypes'
  <2>1. cpu' = [r \in AllRegisters |-> cpu'[r]]
    BY ImageFacts DEF Expected
  <2> QED
    BY <2>1 DEF CInv, ContextTypes
<1>3. \A t \in AllThreads : PagesOf(t)'
  <2>1. Alive(Here) /\ Alive(Here)'
    BY <1>1 DEF SInv, OnProcessor, Alive
  <2> QED
    BY <1>1, <2>1, Zenon DEF CInv, PagesOf, Alive
<1>4. ASSUME NEW t \in AllThreads \ {Here} PROVE Life(t)' /\ (Alive(t) => OwnWords(t))' /\ Off(t)'
  <2>1. stack'[t] = stack[t] /\ state'[t] = state[t] /\ work'[t] = work[t] /\ sp'[t] = sp[t] /\ context'[t] = context[t]
    OBVIOUS
  <2>2. Life(t) /\ (Alive(t) => OwnWords(t)) /\ Off(t)
    BY <1>1 DEF SInv
  <2>3. Life(t)'
    BY <2>1, <2>2 DEF Life
  <2>4. (Alive(t) => OwnWords(t))'
    BY <2>1, <2>2 DEF Alive, OwnWords, ExpectedWord
  <2>5. Off(t)'
    BY <2>1, <2>2 DEF Off, Alive, HasFrame, Expected
  <2> QED
    BY <2>3, <2>4, <2>5
<1>5. OnProcessor'
  BY <1>1 DEF OnProcessor
<1>6. SInv'
  <2>1. \A t \in AllThreads : Life(t)' /\ (Alive(t) => OwnWords(t))'
    BY <1>1, <1>4
  <2>2. \A t \in AllThreads \ {Here'} : Off(t)'
    BY <1>1, <1>4
  <2> QED
    BY <1>5, <2>1, <2>2 DEF SInv
<1> QED
  BY <1>2, <1>3, <1>6 DEF CInv, Booting

-----------------------------------------------------------------------------
(* The steps of a thread. *)

\* The thread computes: its registers and its progress go together.
LEMMA Computes ==
    ASSUME CInv, compute
    PROVE  CInv'
<1>1. /\ ~ reset /\ irq = "none" /\ work[Here] \in {"new", "even", "odd"} /\ state[Here] = "RUNNING"
      /\ work' = [work EXCEPT ![Here] = IF @ = "even" THEN "odd" ELSE "even"]
      /\ cpu' = [r \in AllRegisters |-> CASE r = "rip" -> Code
                                          [] r \in Registers -> <<Here, r, work'[Here]>>
                                          [] OTHER -> cpu[r]]
      /\ UNCHANGED <<stack, present, context, thread_current, state, irq, rax, reset, sp>>
      /\ work[Idle] # "boot"
  BY DEF compute, Runs
<1>2. Here \in AllThreads /\ Here' = Here /\ SInv /\ ContextTypes
  BY <1>1 DEF CInv, ContextTypes, Here
<1> DEFINE p == work'[Here]
<1>3. p \in {"even", "odd"} /\ \A t \in AllThreads \ {Here} : work'[t] = work[t]
  BY <1>1, <1>2 DEF ContextTypes
<1>4. work' \in [AllThreads -> {"boot", "new", "even", "odd", "exit"}] /\ work'[Idle] # "boot"
  BY <1>1, <1>2, <1>3 DEF ContextTypes, AllThreads
<1>5. cpu = Image(Here, work[Here], sp[Here])
  BY <1>1, <1>2 DEF SInv, OnProcessor, Expected
<1>6. cpu' = Image(Here, p, sp[Here])
  <2>1. /\ cpu["rsp"] = Pointer(Here, sp[Here]) /\ cpu["rflags"] = IF_set
        /\ cpu["cs"] = kernel_cs /\ cpu["ss"] = kernel_ds
    BY <1>1, <1>5, ImageFacts
  <2>2. /\ cpu' = [r \in AllRegisters |-> cpu'[r]]
        /\ cpu'["rip"] = Code /\ cpu'["rsp"] = cpu["rsp"] /\ cpu'["rflags"] = cpu["rflags"]
        /\ cpu'["cs"] = cpu["cs"] /\ cpu'["ss"] = cpu["ss"]
        /\ \A r \in Registers : cpu'[r] = <<Here, r, p>>
    BY <1>1, RegisterList
  <2> HIDE DEF p
  <2> QED
    BY <1>3, <2>1, <2>2, ImageIs
<1>7. cpu' = Expected(Here)'
  BY <1>1, <1>2, <1>6 DEF Expected
<1>8. Life(Here)'
  BY <1>1, <1>2, <1>3, Sizes DEF SInv, Life
<1>9. OwnWords(Here)'
  BY <1>1, <1>2, <1>3 DEF SInv, OwnWords, Alive, ExpectedWord
<1> QED
  BY <1>1, <1>2, <1>3, <1>4, <1>7, <1>8, <1>9, OwnStep DEF ContextTypes

\* The stack pointer moves, and the words that the thread has not left stay or
\* are written.
LEMMA Moves ==
    ASSUME CInv, ~ reset, irq = "none", work[Idle] # "boot", Here # Idle, work[Here] \in {"even", "odd", "exit"},
           NEW a \in 0..stack_top, work[Here] \in {"even", "odd"} => a <= ret_addr,
           work[Here] = "exit" => a \in ret_addr..stack_top,
           state[Here] = "ZOMBIE" => a = ret_addr,
           cpu' = [cpu EXCEPT !.rsp = Pointer(Here, a)],
           sp' = [sp EXCEPT ![Here] = a],
           NEW words, words = [w \in Words |-> words[w]],
           stack' = [stack EXCEPT ![Here] = words],
           \A w \in a..(stack_top - 1) : words[w] = ExpectedWord(Here, w),
           UNCHANGED <<present, context, thread_current, state, irq, rax, reset, work>>
    PROVE  CInv'
<1>1. Here \in AllThreads /\ Here' = Here /\ SInv /\ ContextTypes
  BY DEF CInv, ContextTypes, Here
<1>2. sp'[Here] = a /\ stack'[Here] = words /\ \A t \in AllThreads \ {Here} : sp'[t] = sp[t] /\ stack'[t] = stack[t]
  BY <1>1 DEF ContextTypes
<1>3. cpu = Image(Here, work[Here], sp[Here])
  BY <1>1 DEF SInv, OnProcessor, Expected
<1>4. cpu' = Expected(Here)'
  <2> DEFINE p == work[Here]
  <2>1. /\ cpu["rip"] = IF p = "new" THEN entry_point ELSE IF p = "exit" THEN task_exit ELSE Code
        /\ cpu["rflags"] = IF p = "boot" THEN Zero ELSE IF_set
        /\ cpu["cs"] = kernel_cs /\ cpu["ss"] = kernel_ds
        /\ \A r \in Registers : cpu[r] = IF p = "new" THEN Zero ELSE <<Here, r, p>>
    BY <1>3, ImageFacts
  <2>2. /\ cpu' = [r \in AllRegisters |-> cpu'[r]]
        /\ cpu'["rsp"] = Pointer(Here, a)
        /\ cpu'["rip"] = cpu["rip"] /\ cpu'["rflags"] = cpu["rflags"]
        /\ cpu'["cs"] = cpu["cs"] /\ cpu'["ss"] = cpu["ss"]
        /\ \A r \in Registers : cpu'[r] = cpu[r]
    BY <1>1, RegisterList, Zenon DEF ContextTypes
  <2> HIDE DEF p
  <2>3. cpu' = Image(Here, p, a)
    <3> DEFINE file == cpu'
    <3>1. /\ file = [r \in AllRegisters |-> file[r]]
          /\ file["rip"] = IF p = "new" THEN entry_point ELSE IF p = "exit" THEN task_exit ELSE Code
          /\ file["rsp"] = Pointer(Here, a)
          /\ file["rflags"] = IF p = "boot" THEN Zero ELSE IF_set
          /\ file["cs"] = kernel_cs /\ file["ss"] = kernel_ds
          /\ \A r \in Registers : file[r] = IF p = "new" THEN Zero ELSE <<Here, r, p>>
      BY <2>1, <2>2
    <3> HIDE DEF file
    <3>2. file = Image(Here, p, a)
      BY ONLY <3>1, ImageIs
    <3> QED
      BY <3>2 DEF file
  <2> QED
    BY <1>1, <1>2, <2>3 DEF Expected, p
<1>5. Life(Here)'
  <2>1. Life(Here)
    BY <1>1 DEF SInv
  <2>2. state[Here] \in {"RUNNING", "ZOMBIE"}
    BY <1>1 DEF SInv, OnProcessor
  <2> QED
    BY <1>1, <1>2, <2>1, <2>2, Sizes DEF Life
<1>6. OwnWords(Here)'
  BY <1>1, <1>2 DEF OwnWords, ExpectedWord
<1>7. sp' \in [AllThreads -> Int] /\ stack' = [t \in AllThreads |-> [w \in Words |-> stack'[t][w]]]
  <2>1. sp' \in [AllThreads -> Int]
    BY <1>1, Sizes DEF ContextTypes
  <2>2. ASSUME NEW t \in AllThreads PROVE stack'[t] = [w \in Words |-> stack'[t][w]]
    BY <1>1, <1>2 DEF ContextTypes
  <2>3. stack' = [t \in AllThreads |-> stack'[t]]
    BY <1>1 DEF ContextTypes
  <2> QED
    BY <2>1, <2>2, <2>3, Zenon
<1>8. state[Here] \in {"RUNNING", "ZOMBIE"}
  BY <1>1 DEF SInv, OnProcessor
<1> QED
  BY <1>1, <1>2, <1>4, <1>5, <1>6, <1>7, <1>8, OwnStep DEF ContextTypes

\* The processor resets while a thread had no room left.
LEMMA Resets ==
    ASSUME CInv, Reset, work[Idle] # "boot", NEW a \in Int, sp' = [sp EXCEPT ![Here] = a], a - Base < 24 + HandlerWords
    PROVE  CInv'
<1>1. Here \in AllThreads /\ Here' = Here /\ ContextTypes
  BY DEF CInv, ContextTypes, Here, Reset
<1>2. sp'[Here'] = a /\ sp' \in [AllThreads -> Int]
  BY <1>1 DEF ContextTypes
<1>3. ContextTypes'
  BY <1>1, <1>2 DEF ContextTypes, Reset
<1>4. \A t \in AllThreads : PagesOf(t)'
  BY DEF CInv, PagesOf, Alive, Reset
<1>5. reset' /\ work' = work
  BY DEF Reset
<1> QED
  BY <1>2, <1>3, <1>4, <1>5 DEF CInv, Booting

\* What the processor and the thread agree on while no handler runs.
LEMMA RunsFacts ==
    ASSUME CInv, Runs
    PROVE  /\ ~ reset /\ irq = "none" /\ work[Idle] # "boot" /\ Here \in AllThreads /\ SInv /\ ContextTypes
           /\ Life(Here) /\ Alive(Here) /\ OwnWords(Here) /\ PagesOf(Here)
           /\ state[Here] \in {"RUNNING", "ZOMBIE"}
           /\ cpu = Image(Here, work[Here], sp[Here])
           /\ sp[Here] \in 0..stack_top
           /\ stack[Here] = [w \in Words |-> stack[Here][w]]
<1>1. ~ reset /\ irq = "none" /\ work[Idle] # "boot" /\ Here \in AllThreads /\ SInv /\ ContextTypes
  BY DEF Runs, CInv, ContextTypes, Here
<1>2. state[Here] \in {"RUNNING", "ZOMBIE"} /\ cpu = Image(Here, work[Here], sp[Here])
  BY <1>1 DEF SInv, OnProcessor, Expected
<1>3. Alive(Here)
  BY <1>2 DEF Alive
<1>4. Life(Here) /\ OwnWords(Here) /\ PagesOf(Here)
  BY <1>1, <1>3 DEF SInv, CInv
<1>5. sp[Here] \in 0..stack_top
  BY <1>1, PointerRange
<1>6. stack[Here] = [w \in Words |-> stack[Here][w]]
  BY <1>1 DEF ContextTypes
<1> QED
  BY <1>1, <1>2, <1>3, <1>4, <1>5, <1>6

\* Words are pushed, above which the thread has what it had.
LEMMA Pushes ==
    ASSUME CInv, Runs, Here # Idle, work[Here] \in {"even", "odd", "exit"},
           NEW a \in Int, 0 <= a, a < sp[Here], work[Here] = "exit" => a = ret_addr,
           PushTo(a)
    PROVE  CInv'
<1>1. /\ ~ reset /\ irq = "none" /\ work[Idle] # "boot" /\ Here \in AllThreads /\ SInv /\ ContextTypes
      /\ Life(Here) /\ OwnWords(Here) /\ sp[Here] \in 0..stack_top /\ state[Here] \in {"RUNNING", "ZOMBIE"}
  BY RunsFacts
<1> DEFINE words == [w \in Words |-> IF w \in a..(sp[Here] - 1) THEN <<Here, w>> ELSE stack[Here][w]]
<1>2. /\ cpu' = [cpu EXCEPT !.rsp = Pointer(Here, a)] /\ sp' = [sp EXCEPT ![Here] = a]
      /\ UNCHANGED <<present, context, thread_current, state, irq, rax, reset, work>>
  BY DEF PushTo
<1>3. stack' = [stack EXCEPT ![Here] = words]
  BY <1>1 DEF PushTo, ContextTypes
<1>4. words = [w \in Words |-> words[w]]
  OBVIOUS
<1>5. a \in 0..stack_top /\ (work[Here] \in {"even", "odd"} => a < ret_addr)
  BY <1>1, Sizes DEF Life
<1>6. ASSUME NEW w \in a..(stack_top - 1) PROVE words[w] = ExpectedWord(Here, w)
  <2>1. w \in Words /\ w \in Int
    BY <1>5, Sizes DEF Words
  <2>2. CASE w < sp[Here]
    <3>1. words[w] = <<Here, w>>
      BY <1>1, <2>1, <2>2
    <3>2. work[Here] # "exit" => w # stack_top - 1
      BY <1>1, <1>5, <2>1, <2>2, Sizes DEF Life
    <3> QED
      BY <3>1, <3>2 DEF ExpectedWord
  <2>3. CASE w >= sp[Here]
    <3>1. words[w] = stack[Here][w] /\ w \in sp[Here]..(stack_top - 1)
      BY <1>1, <2>1, <2>3, Sizes
    <3> QED
      BY <1>1, <3>1 DEF OwnWords
  <2> QED
    BY <1>1, <2>1, <2>2, <2>3
<1>7. /\ work[Here] = "exit" => a \in ret_addr..stack_top
      /\ work[Here] \in {"even", "odd"} => a <= ret_addr
      /\ state[Here] = "ZOMBIE" => a = ret_addr
  BY <1>1, <1>5, Sizes DEF Life
<1> HIDE DEF words
<1> QED
  BY <1>1, <1>2, <1>3, <1>4, <1>5, <1>6, <1>7, Moves, Zenon

\* A thread pushes, or is too deep to.
LEMMA PushStep ==
    ASSUME CInv, push
    PROVE  CInv'
<1>1. Runs /\ Here # Idle /\ work[Here] \in {"even", "odd"}
  BY DEF push
<1>2. PICK d \in Depths :
         /\ ret_addr - d < sp[Here]
         /\ IF Mapped(Here, sp[Here] - 1, ret_addr - d)
            THEN PushTo(ret_addr - d)
            ELSE Reset /\ sp' = [sp EXCEPT ![Here] = ret_addr - d]
  BY DEF push
<1> DEFINE a == ret_addr - d
<1>3. /\ a \in Int /\ sp[Here] \in 0..stack_top /\ PagesOf(Here) /\ Alive(Here) /\ Here \in AllThreads
      /\ work[Idle] # "boot" /\ stack_top \in Nat /\ Base \in Nat /\ HandlerWords \in Nat
  BY <1>1, RunsFacts, Sizes, ContextAssumption
<1>4. CASE Mapped(Here, sp[Here] - 1, a)
  <2>1. a >= 0 /\ PushTo(a)
    BY <1>2, <1>3, <1>4, MappedFacts
  <2> QED
    BY <1>1, <1>2, <1>3, <2>1, Pushes
<1>5. CASE ~ Mapped(Here, sp[Here] - 1, a)
  <2>1. a < Base
    BY <1>3, <1>5, MappedFacts
  <2>2. Reset /\ sp' = [sp EXCEPT ![Here] = a] /\ a - Base < 24 + HandlerWords
    BY <1>2, <1>3, <1>5, <2>1
  <2> QED
    BY <1>3, <2>2, Resets, Zenon
<1> QED
  BY <1>4, <1>5

\* The word that task_current_thread_exit pushes is the last of the stack.
LEMMA ExitPushes ==
    ASSUME CInv, exit_push
    PROVE  CInv'
<1>1. Runs /\ work[Here] = "exit" /\ sp[Here] = stack_top /\ PushTo(stack_top - 1)
  BY DEF exit_push
<1>2. Here # Idle
  BY <1>1, RunsFacts DEF Life
<1> QED
  BY <1>1, <1>2, Sizes, Pushes

\* A thread pops.
LEMMA PopStep ==
    ASSUME CInv, pop
    PROVE  CInv'
<1>1. Runs /\ Here # Idle /\ work[Here] \in {"even", "odd"}
  BY DEF pop
<1>2. PICK d \in Depths :
          /\ ret_addr - d > sp[Here]
          /\ cpu' = [cpu EXCEPT !.rsp = Pointer(Here, ret_addr - d)]
          /\ sp' = [sp EXCEPT ![Here] = ret_addr - d]
          /\ stack' = [stack EXCEPT ![Here] = [w \in Words |-> IF w < ret_addr - d THEN Junk ELSE @[w]]]
  BY Zenon DEF pop
<1>3. UNCHANGED <<present, context, thread_current, state, irq, rax, reset, work>>
  BY DEF pop
<1> DEFINE a == ret_addr - d
           words == [w \in Words |-> IF w < a THEN Junk ELSE stack[Here][w]]
<1>4. /\ ~ reset /\ irq = "none" /\ work[Idle] # "boot" /\ Here \in AllThreads /\ ContextTypes
      /\ Life(Here) /\ OwnWords(Here) /\ sp[Here] \in 0..stack_top
  BY <1>1, RunsFacts
<1>5. d \in Nat /\ a \in Int /\ a <= ret_addr /\ a > sp[Here] /\ a \in 0..stack_top
  BY <1>2, <1>4, Sizes, ContextAssumption
<1>6. stack' = [stack EXCEPT ![Here] = words] /\ words = [w \in Words |-> words[w]]
  BY <1>2, <1>4 DEF ContextTypes
<1>7. ASSUME NEW w \in a..(stack_top - 1) PROVE words[w] = ExpectedWord(Here, w)
  <2>1. w \in Words /\ w \in Int /\ w \in sp[Here]..(stack_top - 1) /\ ~ (w < a)
    BY <1>4, <1>5, Sizes DEF Words
  <2> QED
    BY <1>4, <2>1 DEF OwnWords
<1>8. state[Here] # "ZOMBIE"
  BY <1>1, <1>4 DEF Life
<1> HIDE DEF words, a
<1> QED
  BY <1>1, <1>2, <1>3, <1>4, <1>5, <1>6, <1>7, <1>8, Moves, Zenon DEF a

\* The function returns: it finds the address that task_create_thread has left.
LEMMA Returns ==
    ASSUME CInv, ret
    PROVE  CInv'
<1>1. /\ Runs /\ Here # Idle /\ work[Here] \in {"even", "odd"} /\ sp[Here] = ret_addr
      /\ work' = [work EXCEPT ![Here] = "exit"]
      /\ sp' = [sp EXCEPT ![Here] = @ + 1]
      /\ cpu' = [r \in AllRegisters |-> CASE r = "rip" -> stack[Here][WordOf(cpu.rsp)]
                                          [] r = "rsp" -> Pointer(Here, WordOf(cpu.rsp) + 1)
                                          [] r \in Registers -> <<Here, r, "exit">>
                                          [] OTHER -> cpu[r]]
      /\ stack' = [stack EXCEPT ![Here][WordOf(cpu.rsp)] = Junk]
      /\ UNCHANGED <<present, context, thread_current, state, irq, rax, reset>>
  BY DEF ret
<1>2. /\ ~ reset /\ irq = "none" /\ work[Idle] # "boot" /\ Here \in AllThreads /\ ContextTypes
      /\ Life(Here) /\ OwnWords(Here) /\ state[Here] \in {"RUNNING", "ZOMBIE"} /\ Here' = Here
  BY <1>1, RunsFacts DEF Here
<1>3. /\ cpu["rsp"] = Pointer(Here, ret_addr) /\ cpu["rflags"] = IF_set
      /\ cpu["cs"] = kernel_cs /\ cpu["ss"] = kernel_ds
  BY <1>1, RunsFacts, ImageFacts
<1>4. WordOf(cpu.rsp) = ret_addr
  BY <1>3 DEF WordOf, Pointer
<1>5. stack[Here][ret_addr] = task_exit
  <2>1. ret_addr \in sp[Here]..(stack_top - 1) /\ ret_addr = stack_top - 1
    BY <1>1, Sizes
  <2>2. stack[Here][ret_addr] = ExpectedWord(Here, ret_addr)
    BY <1>2, <2>1 DEF OwnWords
  <2> QED
    BY <1>1, <2>1, <2>2 DEF ExpectedWord
<1>6. ret_addr + 1 = stack_top /\ ret_addr \in Int /\ stack_top \in Int /\ stack_top \in ret_addr..stack_top
  BY Sizes
<1>7. /\ sp'[Here] = stack_top /\ work'[Here] = "exit" /\ state'[Here] = "RUNNING"
      /\ \A t \in AllThreads \ {Here} : /\ stack'[t] = stack[t] /\ state'[t] = state[t]
                                        /\ work'[t] = work[t] /\ sp'[t] = sp[t]
      /\ work'[Idle] # "boot"
  <2>1. state[Here] = "RUNNING"
    BY <1>1, <1>2 DEF Life
  <2> QED
    BY <1>1, <1>2, <1>6, <2>1 DEF ContextTypes, AllThreads
<1>8. cpu' = Image(Here, "exit", stack_top)
  <2> DEFINE file == cpu'
  <2>1. /\ file = [r \in AllRegisters |-> file[r]]
        /\ file["rip"] = task_exit
        /\ file["rsp"] = Pointer(Here, stack_top)
        /\ file["rflags"] = IF_set
        /\ file["cs"] = kernel_cs /\ file["ss"] = kernel_ds
        /\ \A r \in Registers : file[r] = <<Here, r, "exit">>
    BY <1>1, <1>3, <1>4, <1>5, <1>6, RegisterList
  <2> HIDE DEF file
  <2>2. file = Image(Here, "exit", stack_top)
    BY ONLY <2>1, ImageIs
  <2> QED
    BY <2>2 DEF file
<1>9. cpu' = Expected(Here)'
  BY <1>2, <1>7, <1>8 DEF Expected
<1>10. Life(Here)'
  BY <1>1, <1>2, <1>6, <1>7 DEF Life
<1>11. OwnWords(Here)'
  BY <1>2, <1>6, <1>7 DEF OwnWords
<1>12. /\ work' \in [AllThreads -> {"boot", "new", "even", "odd", "exit"}]
       /\ sp' \in [AllThreads -> Int]
  BY <1>1, <1>2, <1>6 DEF ContextTypes
<1>13. stack' = [t \in AllThreads |-> [a \in Words |-> stack'[t][a]]]
  <2>1. stack' = [t \in AllThreads |-> stack'[t]]
    BY <1>1, <1>2, Zenon DEF ContextTypes
  <2>2. stack'[Here] = [stack[Here] EXCEPT ![ret_addr] = Junk]
    BY <1>1, <1>2, <1>4, Zenon DEF ContextTypes
  <2>3. ASSUME NEW t \in AllThreads PROVE stack'[t] = [a \in Words |-> stack'[t][a]]
    BY <1>2, <1>7, <2>2 DEF ContextTypes
  <2> QED
    BY <2>1, <2>3
<1> QED
  BY <1>1, <1>2, <1>7, <1>9, <1>10, <1>11, <1>12, <1>13, OwnStep DEF ContextTypes

\* The thread is a zombie from here on, with nothing left to do but to yield.
LEMMA Exits ==
    ASSUME CInv, task_current_thread_exit
    PROVE  CInv'
<1>1. /\ Runs /\ work[Here] = "exit" /\ sp[Here] < stack_top
      /\ state[Here] = "RUNNING" /\ state' = [state EXCEPT ![Here] = "ZOMBIE"]
      /\ UNCHANGED <<cpu, stack, present, context, thread_current, irq, rax, reset, work, sp>>
  BY DEF task_current_thread_exit
<1>2. /\ ~ reset /\ irq = "none" /\ work[Idle] # "boot" /\ Here \in AllThreads /\ ContextTypes
      /\ Life(Here) /\ OwnWords(Here) /\ cpu = Image(Here, work[Here], sp[Here]) /\ Here' = Here
  BY <1>1, RunsFacts DEF Here
<1>3. /\ state'[Here] = "ZOMBIE" /\ \A t \in AllThreads \ {Here} : state'[t] = state[t]
      /\ state' \in [AllThreads -> {"NONE", "READY", "RUNNING", "ZOMBIE", "REAPED"}]
  BY <1>1, <1>2 DEF ContextTypes
<1>4. Here # Idle
  BY <1>1, <1>2 DEF Life
<1>5. Life(Here)'
  BY <1>1, <1>2, <1>3, <1>4, Sizes, SMTT(120) DEF Life
<1>6. OwnWords(Here)' /\ cpu' = Expected(Here)'
  BY <1>1, <1>2 DEF OwnWords, ExpectedWord, Expected
<1> QED
  BY <1>1, <1>2, <1>3, <1>4, <1>5, <1>6, OwnStep DEF ContextTypes

-----------------------------------------------------------------------------
(* Interrupts. *)

\* The processor skips at most one word.
LEMMA AlignedFacts ==
    ASSUME NEW a \in Int
    PROVE  Aligned(a) \in Int /\ Aligned(a) <= a /\ a <= Aligned(a) + 1
BY DEF Aligned

\* An interrupt saves the registers of the thread below what it has pushed.
LEMMA Interrupts ==
    ASSUME CInv, Runs, NEW vector, NEW error, Interrupt(vector, error)
    PROVE  CInv'
<1> DEFINE top == Aligned(sp[Here])
           low == top - 23
<1>1. /\ ~ reset /\ irq = "none" /\ work[Idle] # "boot" /\ Here \in AllThreads /\ ContextTypes /\ SInv
      /\ Alive(Here) /\ PagesOf(Here) /\ sp[Here] \in 0..stack_top /\ sp[Here] \in Int
      /\ cpu = Image(Here, work[Here], sp[Here])
      /\ state[Here] \in {"RUNNING", "ZOMBIE"}
  BY RunsFacts, PointerRange
<1>2. cpu.rsp = Pointer(Here, sp[Here]) /\ WordOf(cpu.rsp) = sp[Here]
  BY <1>1, ImageFacts DEF WordOf, Pointer
<1>3. /\ top \in Int /\ low \in Int /\ top <= sp[Here] /\ sp[Here] <= top + 1 /\ top <= stack_top
      /\ low = top - 23
      /\ sp[Here] \in Int /\ stack_top \in Nat
  <2>1. top \in Int /\ top <= sp[Here] /\ sp[Here] <= top + 1
    BY <1>1, AlignedFacts
  <2> QED
    BY <1>1, <2>1, Sizes, SMTT(120)
<1>6. Aligned(WordOf(cpu.rsp)) = top /\ Aligned(sp[Here]) = top /\ Aligned(WordOf(cpu.rsp)) - Len(Pushed) = low
  BY <1>2, <1>3, PlaceFacts
<1> HIDE DEF top, low
<1> DEFINE words == [a \in Words |-> IF a \in low..(top - 1) THEN SavedWord(Pushed[top - a], vector, error)
                                     ELSE stack[Here][a]]
<1>4. CASE Mapped(Here, top - 1, low)
  <2>1. /\ stack' = [stack EXCEPT ![Here] = words]
        /\ cpu' = [cpu EXCEPT !.rsp = Pointer(Here, low), !.rip = Value("interrupt_handler"), !.rflags = Zero]
        /\ irq' = "handler"
        /\ UNCHANGED <<present, context, thread_current, state, rax, reset, work, sp>>
    <3>1. stack' = [stack EXCEPT ![Here] = [a \in Words |->
                       IF a \in low..(top - 1) THEN SavedWord(Pushed[top - a], vector, error) ELSE @[a]]]
      BY <1>4, <1>6 DEF Interrupt
    <3>2. stack' = [stack EXCEPT ![Here] = words]
      BY <1>1, <3>1 DEF ContextTypes
    <3> QED
      BY <1>4, <1>6, <3>2, Zenon DEF Interrupt
  <2>2. low >= 0
    <3>1. top - 1 \in Int /\ top - 1 < stack_top /\ low <= top - 1
      BY <1>3
    <3> QED
      BY <1>1, <1>3, <1>4, <3>1, MappedFacts
  <2>3. Here' = Here /\ stack'[Here] = words /\ \A t \in AllThreads \ {Here} : stack'[t] = stack[t]
    BY <1>1, <2>1 DEF Here, ContextTypes
  <2>4. cpu'.rsp = Pointer(Here, low) /\ WordOf(cpu'.rsp) = low /\ cpu' = [r \in AllRegisters |-> cpu'[r]]
    BY <1>1, <2>1, RegisterList, Zenon DEF ContextTypes, WordOf, Pointer
  <2>5. ASSUME NEW r \in AllRegisters PROVE words[low + Place(r) - 1] = cpu[r]
    <3>1. Place(r) \in 1..23 /\ Pushed[24 - Place(r)] = r
      BY PlaceFacts
    <3>2. low + Place(r) - 1 \in Words /\ low + Place(r) - 1 \in low..(top - 1)
          /\ top - (low + Place(r) - 1) = 24 - Place(r)
      BY <1>3, <2>2, <3>1 DEF Words
    <3>3. words[low + Place(r) - 1] = SavedWord(Pushed[24 - Place(r)], vector, error)
      BY <3>2
    <3>4. r \notin {"vector_number", "error_code", "stub_rsp"}
      BY RegisterList
    <3> QED
      BY <3>1, <3>3, <3>4 DEF SavedWord
  <2>6. HasFrame(Here, cpu.rsp)'
    <3>1. Expected(Here)' = cpu
      BY <1>1, <2>1, <2>3 DEF Expected
    <3>2. InFrame(Here, cpu'.rsp, words, cpu, sp[Here])
      <4>1. low \in Nat /\ low + 23 <= sp[Here]
        BY <1>3, <2>2
      <4> HIDE DEF words
      <4> QED
        BY <2>4, <2>5, <4>1 DEF InFrame
    <3> QED
      BY <2>1, <2>3, <3>1, <3>2 DEF HasFrame
  <2>7. OnProcessor'
    <3>1. WordOf(cpu'.rsp) = Aligned(sp'[Here']) - 23
      BY <1>3, <1>6, <2>1, <2>3, <2>4
    <3> QED
      BY <1>1, <2>1, <2>3, <2>6, <3>1 DEF OnProcessor
  <2>8. OwnWords(Here)'
    <3>1. \A a \in sp[Here]..(stack_top - 1) : a \in Words /\ a \notin low..(top - 1)
      <4>1. sp[Here] >= 0
        BY <1>1
      <4> QED
        BY <1>3, <4>1 DEF Words
    <3>2. OwnWords(Here)
      BY <1>1 DEF SInv
    <3> QED
      BY <2>1, <2>3, <3>1, <3>2 DEF OwnWords, ExpectedWord
  <2>9. \A t \in AllThreads : Life(t)'
    BY <1>1, <2>1 DEF SInv, Life
  <2>10. ASSUME NEW t \in AllThreads \ {Here} PROVE Off(t)' /\ (Alive(t) => OwnWords(t))'
    BY <1>1, <2>1, <2>3 DEF SInv, Off, Alive, HasFrame, Expected, OwnWords, ExpectedWord
  <2>11. SInv'
    BY <2>3, <2>7, <2>8, <2>9, <2>10 DEF SInv
  <2>12. ContextTypes'
    <3>1. words = [a \in Words |-> words[a]]
      OBVIOUS
    <3> HIDE DEF words
    <3>2. stack' = [t \in AllThreads |-> stack'[t]]
      BY <1>1, <2>1 DEF ContextTypes
    <3>3. ASSUME NEW t \in AllThreads PROVE stack'[t] = [a \in Words |-> stack'[t][a]]
      BY <1>1, <2>3, <3>1, Zenon DEF ContextTypes
    <3>4. stack' = [t \in AllThreads |-> [a \in Words |-> stack'[t][a]]]
      BY <3>2, <3>3
    <3> QED
      BY <1>1, <2>1, <2>4, <3>4 DEF ContextTypes
  <2>13. \A t \in AllThreads : PagesOf(t)'
    BY <2>1, Zenon DEF CInv, PagesOf, Alive
  <2> QED
    BY <1>1, <2>1, <2>11, <2>12, <2>13 DEF CInv, Booting
<1>5. CASE ~ Mapped(Here, top - 1, low)
  <2>1. Reset /\ sp' = sp
    BY <1>5, <1>6 DEF Interrupt
  <2>2. low < Base
    <3>1. top - 1 \in Int /\ top - 1 < stack_top
      BY <1>3
    <3> QED
      BY <1>1, <1>3, <1>5, <3>1, MappedFacts
  <2>3. sp[Here] - Base < 24 + HandlerWords
    BY <1>3, <2>2, Sizes
  <2>4. sp' = [sp EXCEPT ![Here] = sp[Here]]
    BY <1>1, <2>1 DEF ContextTypes
  <2> QED
    BY <1>1, <2>1, <2>3, <2>4, Resets, Zenon
<1> QED
  BY <1>4, <1>5

\* What the handlers of interrupt_handler return.
LEMMA HandlerChoice ==
    ASSUME NEW f, NEW vector,
           CASE vector = LAPIC_TIMER_VECTOR -> Same(f) \/ scheduler_schedule(f)
             [] vector = YIELD_VECTOR -> scheduler_schedule(f)
             [] OTHER -> Same(f)
    PROVE  Same(f) \/ scheduler_schedule(f)
OBVIOUS

\* The handler leaves the frames alone: it works below the one it was given, and
\* returns that one or the one of the thread it has chosen.
LEMMA Handles ==
    ASSUME CInv, interrupt_handler
    PROVE  CInv'
<1> DEFINE f == cpu.rsp
           word == WordOf(cpu.rsp)
           low == word - HandlerWords
<1>1. irq = "handler" /\ ~ reset
  BY DEF interrupt_handler
<1>2. /\ Here \in AllThreads /\ ContextTypes /\ SInv /\ work[Idle] # "boot"
      /\ HasFrame(Here, f) /\ word = Aligned(sp[Here]) - 23
      /\ state[Here] \in {"RUNNING", "ZOMBIE"} /\ Alive(Here) /\ PagesOf(Here)
  <2>1. Here \in AllThreads /\ ContextTypes /\ SInv /\ work[Idle] # "boot"
    BY <1>1 DEF CInv, ContextTypes, Here, Booting
  <2> QED
    BY <1>1, <2>1 DEF CInv, SInv, OnProcessor, Alive
<1>3. /\ word \in Nat /\ word + 23 <= sp[Here] /\ sp[Here] <= word + 24
      /\ sp[Here] \in Int /\ sp[Here] <= stack_top /\ low \in Int /\ low = word - HandlerWords
      /\ HandlerWords \in Nat /\ stack_top \in Nat /\ Base \in Nat
  <2>1. sp[Here] \in Int /\ sp[Here] \in 0..stack_top /\ sp[Here] <= Aligned(sp[Here]) + 1 /\ Aligned(sp[Here]) \in Int
    BY <1>1, <1>2, PointerRange, AlignedFacts
  <2>2. word \in Nat /\ word + 23 <= sp[Here]
    BY <1>2 DEF HasFrame, InFrame
  <2> QED
    BY <1>2, <2>1, <2>2, Sizes
<1> HIDE DEF word, low
<1>4. word - 1 \in Int /\ word - 1 < stack_top
  BY <1>3
<1> DEFINE words == [a \in Words |-> IF a \in low..(word - 1) THEN Junk ELSE stack[Here][a]]
<1>5. CASE ~ Mapped(Here, word - 1, low)
  <2>1. Reset /\ sp' = sp
    BY <1>5 DEF interrupt_handler, word, low
  <2>2. low < Base
    BY <1>2, <1>3, <1>4, <1>5, MappedFacts
  <2>3. sp[Here] - Base < 24 + HandlerWords
    BY <1>3, <2>2
  <2>4. sp' = [sp EXCEPT ![Here] = sp[Here]]
    BY <1>2, <2>1 DEF ContextTypes
  <2> QED
    BY <1>2, <1>3, <2>1, <2>3, <2>4, Resets, Zenon
<1>6. CASE Mapped(Here, word - 1, low)
  <2>1. /\ stack' = [stack EXCEPT ![Here] = words]
        /\ cpu' = [r \in AllRegisters |-> IF r \in Registers THEN Junk ELSE cpu[r]]
        /\ irq' = "return"
        /\ Same(f) \/ scheduler_schedule(f)
        /\ UNCHANGED <<present, reset, work, sp>>
    <3>1. /\ stack' = [stack EXCEPT ![Here] = [a \in Words |-> IF a \in low..(word - 1) THEN Junk ELSE @[a]]]
          /\ cpu' = [r \in AllRegisters |-> IF r \in Registers THEN Junk ELSE cpu[r]]
          /\ irq' = "return"
          /\ UNCHANGED <<present, reset, work, sp>>
      BY <1>6 DEF interrupt_handler, word, low
    <3>2. Same(f) \/ scheduler_schedule(f)
      BY <1>6, HandlerChoice DEF interrupt_handler, word, low
    <3>3. stack' = [stack EXCEPT ![Here] = words]
      BY <1>2, <3>1 DEF ContextTypes
    <3> QED
      BY <3>1, <3>2, <3>3
  <2>2. stack'[Here] = words /\ \A t \in AllThreads \ {Here} : stack'[t] = stack[t]
    BY <1>2, <2>1 DEF ContextTypes
  <2>3. \A a \in word..(stack_top - 1) : words[a] = stack[Here][a]
    BY <1>3 DEF Words
  <2>4. words = [a \in Words |-> words[a]]
    OBVIOUS
  <2> HIDE DEF words, f
  <2>5. ASSUME NEW t \in AllThreads, Alive(t) PROVE OwnWords(t)'
    <3>1. OwnWords(t)
      BY <1>2, <2>5 DEF SInv
    <3>2. CASE t = Here
      <4>1. \A a \in sp[t]..(stack_top - 1) : a \in word..(stack_top - 1)
        BY <1>3, <3>2
      <4> QED
        BY <2>1, <2>2, <2>3, <3>1, <3>2, <4>1 DEF OwnWords, ExpectedWord
    <3>3. CASE t # Here
      BY <2>1, <2>2, <3>1, <3>3 DEF OwnWords, ExpectedWord
    <3> QED
      BY <3>2, <3>3
  <2>6. ASSUME NEW t \in AllThreads, NEW g, HasFrame(t, g), t = Here => g = f
        PROVE  InFrame(t, g, stack'[t], Expected(t), sp[t])
    <3>1. InFrame(t, g, stack[t], Expected(t), sp[t]) /\ sp[t] \in Int
      BY <1>2, <2>6 DEF HasFrame, ContextTypes
    <3>2. CASE t = Here
      <4>1. \A w \in WordOf(g)..(WordOf(g) + 22) : words[w] = stack[t][w]
        <5>1. WordOf(g) = word
          BY <2>6, <3>2 DEF word, f
        <5> QED
          BY <1>3, <2>3, <3>2, <5>1
      <4>2. InFrame(t, g, words, Expected(t), sp[t])
        BY <3>1, <4>1, FrameStays
      <4> QED
        BY <2>2, <3>2, <4>2
    <3>3. CASE t # Here
      BY <2>2, <3>1, <3>3
    <3> QED
      BY <3>2, <3>3
  <2>7. \A t \in AllThreads : Expected(t)' = Expected(t) /\ sp'[t] = sp[t]
    BY <2>1 DEF Expected
  <2> DEFINE saved == [context EXCEPT ![Here] = f]
  <2>8. saved[Here] = f /\ \A t \in AllThreads \ {Here} : saved[t] = context[t]
    BY <1>2 DEF ContextTypes
  <2>9. \A t \in AllThreads : Alive(t) => InFrame(t, saved[t], stack'[t], Expected(t), sp[t])
    <3>1. ASSUME NEW t \in AllThreads, Alive(t) PROVE HasFrame(t, saved[t]) /\ (t = Here => saved[t] = f)
      BY <1>2, <2>8, <3>1 DEF SInv, Off, f
    <3> QED
      BY <2>6, <3>1
  <2>10. \A t \in AllThreads \ {Here} : state[t] # "RUNNING"
    BY <1>2 DEF SInv, Off
  <2>11. cpu' = [r \in AllRegisters |-> cpu'[r]] /\ stack' = [t \in AllThreads |-> [a \in Words |-> stack'[t][a]]]
    <3>1. stack' = [t \in AllThreads |-> stack'[t]]
      BY <1>2, <2>1 DEF ContextTypes
    <3>2. ASSUME NEW t \in AllThreads PROVE stack'[t] = [a \in Words |-> stack'[t][a]]
      BY <1>2, <2>2, <2>4, Zenon DEF ContextTypes
    <3>3. stack' = [t \in AllThreads |-> [a \in Words |-> stack'[t][a]]]
      BY <3>1, <3>2
    <3> QED
      BY <2>1, <3>3
  <2>12. CASE Same(f)
    <3>1. rax' = f /\ UNCHANGED <<context, thread_current, state>> /\ Here' = Here
      BY <2>12 DEF Same, Here
    <3>2. \A t \in AllThreads : Alive(t)' <=> Alive(t)
      BY <3>1 DEF Alive
    <3>3. ContextTypes'
      BY <1>2, <2>1, <2>11, <3>1, SMTT(20) DEF ContextTypes
    <3>4. OnProcessor'
      <4>1. HasFrame(Here, rax)'
        BY <1>2, <2>7, <2>8, <2>9, <3>1 DEF HasFrame
      <4> QED
        BY <1>2, <2>1, <3>1, <4>1 DEF OnProcessor
    <3>5. ASSUME NEW t \in AllThreads \ {Here} PROVE Off(t)'
      <4>1. context'[t] = saved[t]
        BY <2>8, <3>1
      <4>2. Alive(t)' => HasFrame(t, context[t])'
        BY <2>7, <2>9, <3>2, <4>1 DEF HasFrame
      <4> QED
        BY <2>10, <3>1, <4>2 DEF Off
    <3>6. \A t \in AllThreads : Life(t)' /\ PagesOf(t)'
      BY <1>2, <2>1, <3>1, Zenon DEF CInv, SInv, Life, PagesOf, Alive
    <3>7. SInv'
      BY <2>5, <3>1, <3>2, <3>4, <3>5, <3>6 DEF SInv
    <3> QED
      BY <1>1, <1>2, <2>1, <3>3, <3>6, <3>7 DEF CInv, Booting
  <2>13. CASE scheduler_schedule(f)
    <3> DEFINE paused == [state EXCEPT ![Here] = IF @ = "RUNNING" THEN "READY" ELSE @]
    <3>1. context' = saved
      BY <2>13 DEF scheduler_schedule
    <3>2. PICK next \in AllThreads : /\ paused[next] = "READY" /\ thread_current' = next
                                     /\ state' = [paused EXCEPT ![next] = "RUNNING"] /\ rax' = context'[next]
      BY <2>13, Zenon DEF scheduler_schedule
    <3>3. /\ paused \in [AllThreads -> {"NONE", "READY", "RUNNING", "ZOMBIE", "REAPED"}]
          /\ \A t \in AllThreads : paused[t] # "RUNNING" /\ (paused[t] = state[t] \/ (state[t] = "RUNNING" /\ paused[t] = "READY"))
      <4>1. /\ paused \in [AllThreads -> {"NONE", "READY", "RUNNING", "ZOMBIE", "REAPED"}]
            /\ paused[Here] = IF state[Here] = "RUNNING" THEN "READY" ELSE state[Here]
            /\ \A t \in AllThreads \ {Here} : paused[t] = state[t]
        BY <1>2 DEF ContextTypes
      <4> HIDE DEF paused
      <4> QED
        BY <1>2, <2>10, <4>1
    <3> HIDE DEF paused, saved
    <3>4. /\ state' \in [AllThreads -> {"NONE", "READY", "RUNNING", "ZOMBIE", "REAPED"}]
          /\ state'[next] = "RUNNING" /\ \A t \in AllThreads \ {next} : state'[t] = paused[t]
          /\ Here' = next
      BY <3>2, <3>3 DEF Here
    <3>5. \A t \in AllThreads : Alive(t)' <=> Alive(t)
      BY <3>2, <3>3, <3>4 DEF Alive
    <3>6. \A t \in AllThreads : \/ state'[t] = state[t]
                                \/ state'[t] \in {"READY", "RUNNING"} /\ state[t] \in {"READY", "RUNNING"}
      BY <3>2, <3>3, <3>4
    <3>7. \A t \in AllThreads : Life(t)' /\ PagesOf(t)'
      <4>1. \A t \in AllThreads : Life(t) /\ PagesOf(t)
        BY <1>2 DEF CInv, SInv
      <4>2. \A t \in AllThreads : Life(t)'
        BY <2>1, <3>6, <4>1 DEF Life
      <4>3. \A t \in AllThreads : PagesOf(t)'
        BY <2>1, <3>5, <3>6, <4>1, Zenon DEF PagesOf
      <4> QED
        BY <4>2, <4>3
    <3>8. ContextTypes'
      <4>1. context' = [t \in AllThreads |-> context'[t]]
        BY <1>2, <3>1, Zenon DEF ContextTypes, saved
      <4> QED
        BY <1>2, <2>1, <2>11, <3>2, <3>4, <4>1 DEF ContextTypes
    <3>9. ASSUME NEW t \in AllThreads, Alive(t)' PROVE HasFrame(t, context[t])'
      BY <2>7, <2>9, <3>1, <3>5, <3>9 DEF HasFrame
    <3>10. OnProcessor'
      <4>1. Alive(next)'
        BY <3>4 DEF Alive
      <4>2. HasFrame(next, context[next])'
        BY <3>9, <4>1
      <4>3. HasFrame(Here, rax)'
        BY <3>2, <3>4, <4>2 DEF HasFrame
      <4> QED
        BY <2>1, <3>4, <4>3 DEF OnProcessor
    <3>11. ASSUME NEW t \in AllThreads \ {next} PROVE Off(t)'
      BY <3>3, <3>4, <3>9 DEF Off
    <3>12. SInv'
      BY <2>5, <3>4, <3>5, <3>7, <3>10, <3>11 DEF SInv
    <3> QED
      BY <1>1, <1>2, <2>1, <3>7, <3>8, <3>12, Zenon DEF CInv, Booting
  <2> QED
    BY <2>1, <2>12, <2>13
<1> QED
  BY <1>5, <1>6

\* iretq gives the processor the registers of the frame.
LEMMA Irets ==
    ASSUME CInv, iretq
    PROVE  CInv'
<1>1. /\ irq = "return" /\ ~ reset /\ cpu' = Pop(rax) /\ irq' = "none"
      /\ stack' = [stack EXCEPT ![Here] = [a \in Words |-> IF a < sp[Here] THEN Junk ELSE @[a]]]
  BY DEF iretq
<1>r. /\ present' = present /\ context' = context /\ thread_current' = thread_current /\ state' = state
      /\ reset' = reset /\ work' = work /\ sp' = sp
  BY DEF iretq
<1>2. /\ Here \in AllThreads /\ Here' = Here /\ ContextTypes /\ SInv /\ work[Idle] # "boot"
      /\ HasFrame(Here, rax) /\ state[Here] \in {"RUNNING", "ZOMBIE"} /\ sp[Here] \in Int
  BY <1>1, <1>r DEF CInv, SInv, OnProcessor, ContextTypes, Here, Booting
<1>3. cpu' = Expected(Here)'
  <2>1. StackOf(rax) = Here
    BY <1>2 DEF HasFrame, InFrame, Pointer, StackOf
  <2>2. \A r \in AllRegisters : PoppedWord(rax, r) = Expected(Here)[r]
    BY <1>2, <2>1 DEF HasFrame, InFrame, PoppedWord
  <2>3. Expected(Here) = [r \in AllRegisters |-> Expected(Here)[r]]
    BY ImageFacts DEF Expected
  <2>4. Pop(rax) = Expected(Here)
    BY <2>2, <2>3 DEF Pop
  <2> QED
    BY <1>1, <1>r, <1>2, <2>4 DEF Expected
<1> DEFINE words == [a \in Words |-> IF a < sp[Here] THEN Junk ELSE stack[Here][a]]
<1>4. stack'[Here] = words /\ \A t \in AllThreads \ {Here} : stack'[t] = stack[t]
  BY <1>1, <1>2 DEF ContextTypes
<1>5. stack' = [t \in AllThreads |-> [a \in Words |-> stack'[t][a]]]
  <2>1. stack' = [t \in AllThreads |-> stack'[t]]
    BY <1>1, <1>2, Zenon DEF ContextTypes
  <2>2. words = [a \in Words |-> words[a]]
    OBVIOUS
  <2> HIDE DEF words
  <2>3. ASSUME NEW t \in AllThreads PROVE stack'[t] = [a \in Words |-> stack'[t][a]]
    BY <1>2, <1>4, <2>2, Zenon DEF ContextTypes
  <2> QED
    BY <2>1, <2>3
<1>6. ContextTypes'
  <2>1. cpu' = [r \in AllRegisters |-> cpu'[r]]
    BY <1>1 DEF Pop
  <2> QED
    BY <1>1, <1>r, <1>2, <1>5, <2>1 DEF ContextTypes
<1>7. \A t \in AllThreads : Life(t)' /\ PagesOf(t)'
  BY <1>r, <1>2, Zenon DEF CInv, SInv, Life, PagesOf, Alive
<1>8. ASSUME NEW t \in AllThreads, Alive(t)' PROVE OwnWords(t)'
  <2>1. OwnWords(t)
    BY <1>r, <1>2, <1>8, SMTT(120) DEF SInv, Alive
  <2>2. CASE t = Here
    <3>1. \A a \in sp[t]..(stack_top - 1) : a \in Words /\ ~ (a < sp[t])
      <4>1. sp[t] \in 0..stack_top
        BY <1>1, PointerRange
      <4> QED
        BY <4>1, Sizes DEF Words
    <3>2. \A a \in sp[t]..(stack_top - 1) : words[a] = stack[t][a]
      BY <2>2, <3>1, SMTT(20)
    <3> QED
      BY <1>r, <1>4, <2>1, <2>2, <3>2 DEF OwnWords, ExpectedWord
  <2>3. CASE t # Here
    BY <1>r, <1>4, <2>1, <2>3 DEF OwnWords, ExpectedWord
  <2> QED
    BY <2>2, <2>3
<1>9. ASSUME NEW t \in AllThreads \ {Here} PROVE Off(t)'
  BY <1>r, <1>2, <1>4 DEF SInv, Off, Alive, HasFrame, Expected
<1>10. OnProcessor'
  BY <1>1, <1>r, <1>2, <1>3, SMTT(120) DEF OnProcessor
<1>11. SInv'
  BY <1>2, <1>7, <1>8, <1>9, <1>10, SMTT(120) DEF SInv
<1> QED
  BY <1>1, <1>r, <1>2, <1>6, <1>7, <1>11 DEF CInv, Booting

\* The idle thread finds the stack of a zombie through the frame of its context.
LEMMA Reaps ==
    ASSUME CInv, NEW t \in Threads, reap(t)
    PROVE  CInv'
<1>0. Runs /\ Here = Idle /\ t # Idle /\ state[t] = "ZOMBIE"
  BY Zenon DEF reap
<1>1. /\ present' = [u \in AllThreads |-> IF u \in Area(Field(context[t], "rsp")) THEN {} ELSE present[u]]
      /\ stack' = [stack EXCEPT ![t] = [a \in Words |-> Junk]]
      /\ state' = [state EXCEPT ![t] = "REAPED"]
  BY Zenon DEF reap
<1> DEFINE Rest == /\ cpu' = cpu /\ context' = context /\ thread_current' = thread_current /\ irq' = irq
                   /\ rax' = rax /\ reset' = reset /\ work' = work /\ sp' = sp
<1>r. Rest
  BY Zenon DEF reap
<1>2. /\ ~ reset /\ irq = "none" /\ work[Idle] # "boot" /\ Here \in AllThreads /\ SInv /\ ContextTypes
      /\ t \in AllThreads /\ Here' = Here /\ t # Here
  BY <1>0, <1>r, RunsFacts DEF AllThreads, Here
<1>3. HasFrame(t, context[t]) /\ Alive(t) /\ Life(t)
  BY <1>0, <1>2 DEF SInv, Off, Alive
<1>4. sp[t] = ret_addr
  BY <1>0, <1>3 DEF Life
<1>5. Area(Field(context[t], "rsp")) = {t}
  <2>1. StackOf(context[t]) = t /\ WordOf(context[t]) \in Nat
    BY <1>3 DEF HasFrame, InFrame, Pointer, StackOf
  <2>2. stack[t][WordOf(context[t]) + 22 - 1] = Expected(t)["rsp"]
    BY <1>3, PlaceFacts, RegisterList DEF HasFrame, InFrame
  <2>3. WordOf(context[t]) + 22 - 1 = WordOf(context[t]) + 21
    BY <2>1
  <2>4. Offset["rsp"] = 21
    BY DEF Offset
  <2>5. Field(context[t], "rsp") = Pointer(t, ret_addr)
    BY <1>4, <2>1, <2>2, <2>3, <2>4, ImageFacts DEF Field, Expected
  <2>6. ret_addr \in Words
    BY Sizes DEF Words
  <2> QED
    BY <2>5, <2>6 DEF Area, Pointer, WordOf, StackOf
<1>6. /\ state'[t] = "REAPED" /\ \A u \in AllThreads \ {t} : state'[u] = state[u] /\ stack'[u] = stack[u]
      /\ present'[t] = {} /\ \A u \in AllThreads \ {t} : present'[u] = present[u]
  BY <1>1, <1>2, <1>5 DEF ContextTypes
<1>7. ContextTypes'
  <2>1. stack' = [u \in AllThreads |-> stack'[u]] /\ stack'[t] = [a \in Words |-> Junk]
    BY <1>1, <1>2, Zenon DEF ContextTypes
  <2>2. ASSUME NEW u \in AllThreads PROVE stack'[u] = [a \in Words |-> stack'[u][a]]
    BY <1>2, <1>6, <2>1 DEF ContextTypes
  <2>3. stack' = [u \in AllThreads |-> [a \in Words |-> stack'[u][a]]]
    BY <2>1, <2>2
  <2>4. present' = [u \in AllThreads |-> present'[u]]
    BY <1>1
  <2>5. state' \in [AllThreads -> {"NONE", "READY", "RUNNING", "ZOMBIE", "REAPED"}]
    BY <1>1, <1>2 DEF ContextTypes
  <2> QED
    BY <1>r, <1>2, <2>3, <2>4, <2>5 DEF ContextTypes
<1>8. \A u \in AllThreads : PagesOf(u)'
  BY <1>0, <1>6, Zenon DEF CInv, PagesOf, Alive
<1>9. \A u \in AllThreads : Life(u)'
  <2>1. Life(t)'
    BY <1>0, <1>r, <1>3, <1>6, Zenon DEF Life
  <2>2. \A u \in AllThreads \ {t} : Life(u)'
    BY <1>r, <1>2, <1>6, Zenon DEF SInv, Life
  <2> QED
    BY <2>1, <2>2
<1>10. ASSUME NEW u \in AllThreads, Alive(u)' PROVE OwnWords(u)'
  <2>1. u # t /\ Alive(u) /\ stack'[u] = stack[u]
    BY <1>6, <1>10, SMTT(120) DEF Alive
  <2>2. OwnWords(u)
    BY <1>2, <2>1 DEF SInv
  <2> QED
    BY <1>r, <2>1, <2>2 DEF OwnWords, ExpectedWord
<1>11. OnProcessor'
  BY <1>r, <1>2, <1>6, Zenon DEF SInv, OnProcessor, Expected
<1>12. ASSUME NEW u \in AllThreads \ {Here} PROVE Off(u)'
  <2>1. CASE u = t
    BY <1>6, <2>1 DEF Off, Alive
  <2>2. CASE u # t
    BY <1>r, <1>2, <1>6, <2>2, Zenon DEF SInv, Off, Alive, HasFrame, Expected
  <2> QED
    BY <2>1, <2>2, SMTT(20)
<1>13. SInv'
  BY <1>2, <1>9, <1>10, <1>11, <1>12 DEF SInv
<1> QED
  BY <1>r, <1>2, <1>7, <1>8, <1>13 DEF CInv, Booting

-----------------------------------------------------------------------------
(* kmain. *)

\* With sti the idle thread begins.
LEMMA StiStep ==
    ASSUME CInv, sti
    PROVE  CInv'
<1>1. /\ work[Idle] = "boot" /\ work' = [work EXCEPT ![Idle] = "even"]
      /\ cpu' = [r \in AllRegisters |-> CASE r = "rflags" -> IF_set
                                          [] r \in Registers -> <<Idle, r, "even">>
                                          [] OTHER -> cpu[r]]
      /\ UNCHANGED <<stack, present, context, thread_current, state, irq, rax, reset, sp>>
  BY DEF sti
<1>2. ~ reset /\ Here = Idle /\ Here' = Here /\ irq = "none" /\ Idle \in AllThreads /\ SInv /\ ContextTypes
  BY <1>1 DEF CInv, Booting, Here, AllThreads
<1>3. /\ work'[Idle] = "even" /\ \A t \in AllThreads \ {Idle} : work'[t] = work[t]
      /\ work' \in [AllThreads -> {"boot", "new", "even", "odd", "exit"}]
  BY <1>1, <1>2 DEF ContextTypes
<1>4. cpu = Image(Idle, "boot", sp[Idle])
  BY <1>1, <1>2 DEF SInv, OnProcessor, Expected
<1>5. cpu' = Image(Idle, "even", sp[Idle])
  <2> DEFINE file == cpu'
  <2>1. cpu["rip"] = Code /\ cpu["rsp"] = Pointer(Idle, sp[Idle]) /\ cpu["cs"] = kernel_cs /\ cpu["ss"] = kernel_ds
    BY <1>4, ImageFacts
  <2>2. /\ file = [r \in AllRegisters |-> file[r]]
        /\ file["rip"] = Code
        /\ file["rsp"] = Pointer(Idle, sp[Idle])
        /\ file["rflags"] = IF_set
        /\ file["cs"] = kernel_cs /\ file["ss"] = kernel_ds
        /\ \A r \in Registers : file[r] = <<Idle, r, "even">>
    BY <1>1, <2>1, RegisterList
  <2> HIDE DEF file
  <2>3. file = Image(Idle, "even", sp[Idle])
    BY ONLY <2>2, ImageIs
  <2> QED
    BY <2>3 DEF file
<1>6. cpu' = Expected(Here)'
  BY <1>1, <1>2, <1>3, <1>5 DEF Expected
<1>7. Life(Here)' /\ OwnWords(Here)' /\ state[Here] = "RUNNING"
  <2>1. Life(Idle) /\ PagesOf(Idle) /\ state[Idle] \in {"RUNNING", "ZOMBIE"}
    BY <1>2 DEF CInv, SInv, OnProcessor
  <2>2. Alive(Idle)
    BY <2>1 DEF Alive
  <2>3. OwnWords(Idle)
    BY <1>2, <2>2 DEF SInv
  <2> QED
    BY <1>1, <1>2, <1>3, <2>1, <2>3 DEF Life, PagesOf, OwnWords, ExpectedWord
<1> QED
  BY <1>1, <1>2, <1>3, <1>6, <1>7, OwnStep DEF ContextTypes

\* The words that task_create_thread writes are the frame of a thread that was
\* interrupted before its first instruction.
LEMMA NewFrame ==
    ASSUME NEW t
    PROVE  /\ NewStack(t) = [a \in Words |-> NewStack(t)[a]]
           /\ NewStack(t)[ret_addr] = task_exit
           /\ InFrame(t, Pointer(t, status), NewStack(t), Image(t, "new", ret_addr), ret_addr)
<1> DEFINE new == NewStack(t)
           image == Image(t, "new", ret_addr)
<1>1. /\ status \in Nat /\ ret_addr = status + 23 /\ ret_addr \in Nat
      /\ \A n \in 0..23 : status + n \in Words
  BY Sizes DEF Words
<1>2. /\ Offset["rip"] = 18 /\ Offset["cs"] = 19 /\ Offset["rflags"] = 20 /\ Offset["rsp"] = 21 /\ Offset["ss"] = 22
      /\ Offset["vector_number"] = 16 /\ Offset["error_code"] = 17
  BY DEF Offset
<1>3. DOMAIN status_Field = {"vector_number", "error_code", "rip", "cs", "rflags", "ss"}
  BY DEF status_Field
<1>4. /\ status_Field["rip"] = entry_point /\ status_Field["cs"] = kernel_cs
      /\ status_Field["rflags"] = IF_set /\ status_Field["ss"] = kernel_ds
  BY DEF status_Field
<1>5. new[ret_addr] = task_exit
  <2>1. ret_addr \in Words
    BY <1>1
  <2>2. /\ ret_addr # status + Offset.rsp /\ ret_addr - status \notin general_purpose_registers
        /\ ~ \E f \in DOMAIN status_Field : ret_addr = status + Offset[f]
    BY <1>1, <1>2, <1>3 DEF general_purpose_registers
  <2> QED
    BY <2>1, <2>2 DEF NewStack
<1>6. ASSUME NEW n \in 0..15 PROVE new[status + n] = Zero
  <2>1. /\ status + n \in Words /\ status + n # ret_addr /\ status + n # status + Offset.rsp
        /\ (status + n) - status \in general_purpose_registers
        /\ ~ \E f \in DOMAIN status_Field : status + n = status + Offset[f]
    BY <1>1, <1>2, <1>3 DEF general_purpose_registers
  <2> QED
    BY <2>1 DEF NewStack
<1>7. new[status + 21] = Pointer(t, ret_addr)
  <2>1. /\ status + 21 \in Words /\ status + 21 # ret_addr /\ status + 21 = status + Offset.rsp
        /\ (status + 21) - status \notin general_purpose_registers
        /\ ~ \E f \in DOMAIN status_Field : status + 21 = status + Offset[f]
    BY <1>1, <1>2, <1>3 DEF general_purpose_registers
  <2> QED
    BY <2>1 DEF NewStack
<1>8. ASSUME NEW f \in {"rip", "cs", "rflags", "ss"} PROVE new[status + Offset[f]] = status_Field[f]
  <2> DEFINE a == status + Offset[f]
  <2>1. /\ a \in Words /\ a # ret_addr /\ a # status + Offset.rsp
        /\ a - status \notin general_purpose_registers
        /\ f \in DOMAIN status_Field /\ a = status + Offset[f]
    BY <1>1, <1>2, <1>3 DEF general_purpose_registers
  <2>2. \A g \in DOMAIN status_Field : a = status + Offset[g] => g = f
    BY <1>1, <1>2, <1>3
  <2> HIDE DEF a
  <2>3. (CHOOSE g \in DOMAIN status_Field : a = status + Offset[g]) = f
    BY <2>1, <2>2
  <2>4. new[a] = status_Field[CHOOSE g \in DOMAIN status_Field : a = status + Offset[g]]
    BY <2>1 DEF NewStack
  <2> QED
    BY <2>3, <2>4, Zenon DEF a
<1>9. ASSUME NEW r \in AllRegisters PROVE new[status + Place(r) - 1] = image[r]
  <2>1. CASE r \in Registers
    <3>1. Place(r) \in 1..16
      BY <2>1, PopPlace, RegisterList DEF Places
    <3>2. status + Place(r) - 1 = status + (Place(r) - 1) /\ Place(r) - 1 \in 0..15
      BY <1>1, <3>1
    <3>3. image[r] = Zero
      <4>1. r \in AllRegisters /\ r \notin {"rip", "rsp", "rflags", "cs", "ss"}
        BY <2>1 DEF Registers
      <4> QED
        BY <2>1, <4>1 DEF Image
    <3> HIDE DEF new, image
    <3> QED
      BY <1>6, <3>2, <3>3
  <2>2. CASE r \in {"rip", "cs", "rflags", "ss"}
    <3>1. Place(r) - 1 = Offset[r] /\ Place(r) \in Int /\ Offset[r] \in Int
      BY <1>2, <2>2, PopPlace, RegisterList DEF Places
    <3>2. status + Place(r) - 1 = status + Offset[r]
      BY <1>1, <3>1
    <3>3. image[r] = status_Field[r]
      BY <1>4, <2>2, ImageFacts
    <3> HIDE DEF new, image
    <3> QED
      BY <1>8, <2>2, <3>2, <3>3
  <2>3. CASE r = "rsp"
    <3>1. status + Place(r) - 1 = status + 21
      BY <1>1, <2>3, PlaceFacts
    <3>2. image[r] = Pointer(t, ret_addr)
      BY <2>3, ImageFacts
    <3> HIDE DEF new, image
    <3> QED
      BY <1>7, <3>1, <3>2
  <2> QED
    BY <2>1, <2>2, <2>3, RegisterList
<1>10. InFrame(t, Pointer(t, status), new, image, ret_addr)
  <2>1. WordOf(Pointer(t, status)) = status
    BY DEF WordOf, Pointer
  <2> HIDE DEF new, image
  <2> QED
    BY <1>1, <1>9, <2>1 DEF InFrame
<1>11. new = [a \in Words |-> new[a]]
  BY DEF NewStack
<1> QED
  BY <1>5, <1>10, <1>11

\* A new thread has a stack with one page, on which it finds its first registers.
LEMMA Creates ==
    ASSUME CInv, work[Idle] = "boot", NEW t \in Threads, task_create_thread(t)
    PROVE  CInv'
<1>0. state[t] = "NONE"
  BY DEF task_create_thread
<1>1. /\ stack' = [stack EXCEPT ![t] = NewStack(t)]
      /\ present' = [present EXCEPT ![t] = {PageOf(a) : a \in status..ret_addr}]
      /\ context' = [context EXCEPT ![t] = Pointer(t, status)]
      /\ state' = [state EXCEPT ![t] = "READY"]
  BY DEF task_create_thread
<1>r. /\ cpu' = cpu /\ thread_current' = thread_current /\ irq' = irq /\ rax' = rax /\ reset' = reset
      /\ work' = work /\ sp' = sp
  BY DEF task_create_thread
<1>2. /\ ~ reset /\ Here = Idle /\ Here' = Here /\ irq = "none" /\ Idle \in AllThreads /\ SInv /\ ContextTypes
      /\ t \in AllThreads /\ t # Here /\ t # Idle
  <2>1. Idle # t
    BY ContextAssumption
  <2> QED
    BY <1>r, <2>1 DEF CInv, Booting, Here, AllThreads
<1>3. work[t] = "new" /\ sp[t] = ret_addr /\ Life(t)
  BY <1>0, <1>2 DEF SInv, Life
<1>4. /\ state'[t] = "READY" /\ stack'[t] = NewStack(t) /\ context'[t] = Pointer(t, status)
      /\ present'[t] = {PageOf(a) : a \in status..ret_addr}
      /\ \A u \in AllThreads \ {t} : /\ state'[u] = state[u] /\ stack'[u] = stack[u]
                                     /\ context'[u] = context[u] /\ present'[u] = present[u]
  BY <1>1, <1>2, SMTT(20) DEF ContextTypes
<1>5. present'[t] = {StackPages - 1}
  <2>1. \A a \in status..ret_addr : a \in Int /\ a \in Base..(stack_top - 1)
    BY Sizes
  <2>2. \A a \in status..ret_addr : PageOf(a) = StackPages - 1
    BY <2>1, Pages_
  <2>3. status \in status..ret_addr
    BY Sizes
  <2> QED
    BY <1>4, <2>2, <2>3
<1>6. ContextTypes'
  <2>1. stack' = [u \in AllThreads |-> stack'[u]]
    BY <1>1, <1>2 DEF ContextTypes
  <2>2. ASSUME NEW u \in AllThreads PROVE stack'[u] = [a \in Words |-> stack'[u][a]]
    BY <1>2, <1>4, NewFrame DEF ContextTypes
  <2>3. stack' = [u \in AllThreads |-> [a \in Words |-> stack'[u][a]]]
    BY <2>1, <2>2
  <2>4. present' = [u \in AllThreads |-> present'[u]] /\ context' = [u \in AllThreads |-> context'[u]]
    BY <1>1, <1>2, Zenon DEF ContextTypes
  <2>5. state' \in [AllThreads -> {"NONE", "READY", "RUNNING", "ZOMBIE", "REAPED"}]
    BY <1>1, <1>2 DEF ContextTypes
  <2> QED
    BY <1>r, <1>2, <2>3, <2>4, <2>5 DEF ContextTypes
<1>7. \A u \in AllThreads : PagesOf(u)'
  BY <1>2, <1>4, <1>5, Zenon DEF CInv, PagesOf, Alive
<1>8. \A u \in AllThreads : Life(u)'
  <2>1. Life(t)'
    BY <1>r, <1>2, <1>3, <1>4, Zenon DEF Life
  <2>2. \A u \in AllThreads \ {t} : Life(u)'
    BY <1>r, <1>2, <1>4, Zenon DEF SInv, Life
  <2> QED
    BY <2>1, <2>2
<1>9. \A u \in AllThreads : (Alive(u) => OwnWords(u))'
  <2>1. OwnWords(t)'
    <3>1. \A a \in ret_addr..(stack_top - 1) : a = ret_addr /\ a = stack_top - 1
      BY Sizes
    <3>2. ExpectedWord(t, ret_addr)' = task_exit
      BY <1>r, <1>2, <1>3, Sizes DEF ExpectedWord
    <3> QED
      BY <1>r, <1>3, <1>4, <3>1, <3>2, NewFrame DEF OwnWords
  <2>2. \A u \in AllThreads \ {t} : (Alive(u) => OwnWords(u))'
    BY <1>r, <1>2, <1>4 DEF SInv, Alive, OwnWords, ExpectedWord
  <2> QED
    BY <2>1, <2>2
<1>10. OnProcessor'
  BY <1>r, <1>2, <1>4, Zenon DEF SInv, OnProcessor, Expected
<1>11. ASSUME NEW u \in AllThreads \ {Here} PROVE Off(u)'
  <2>1. CASE u = t
    <3>1. Expected(t)' = Image(t, "new", ret_addr) /\ sp'[t] = ret_addr
      BY <1>r, <1>3 DEF Expected
    <3>2. HasFrame(t, context[t])'
      BY <1>4, <3>1, NewFrame DEF HasFrame
    <3> QED
      BY <1>4, <2>1, <3>2, Zenon DEF Off
  <2>2. CASE u # t
    BY <1>r, <1>2, <1>4, <2>2, Zenon DEF SInv, Off, Alive, HasFrame, Expected
  <2> QED
    BY <2>1, <2>2
<1>12. SInv'
  BY <1>2, <1>8, <1>9, <1>10, <1>11 DEF SInv
<1> QED
  BY <1>r, <1>2, <1>6, <1>7, <1>12 DEF CInv, Booting

\* kmain begins alone, with all pages of its stack.
LEMMA ContextInits == ContextInit => CInv
<1> SUFFICES ASSUME ContextInit PROVE CInv
  OBVIOUS
<1>1. /\ thread_current = Idle /\ Idle \in AllThreads /\ Here = Idle /\ irq = "none" /\ reset = FALSE
      /\ state = [t \in AllThreads |-> IF t = Idle THEN "RUNNING" ELSE "NONE"]
      /\ work = [t \in AllThreads |-> IF t = Idle THEN "boot" ELSE "new"]
      /\ sp = [t \in AllThreads |-> IF t = Idle THEN stack_top ELSE stack_top - 1]
      /\ present = [t \in AllThreads |-> IF t = Idle THEN 0..(StackPages - 1) ELSE {}]
      /\ cpu = Expected(Idle)
  BY DEF ContextInit, AllThreads, Here
<1>2. ContextTypes
  <2>1. cpu = [r \in AllRegisters |-> cpu[r]]
    BY <1>1, ImageFacts DEF Expected
  <2>2. stack = [t \in AllThreads |-> [a \in Words |-> Junk]] /\ context = [t \in AllThreads |-> Pointer(t, stack_top)]
    BY DEF ContextInit
  <2>3. stack = [t \in AllThreads |-> [a \in Words |-> stack[t][a]]]
    BY <2>2
  <2>4. sp \in [AllThreads -> Int]
    BY <1>1, Sizes
  <2>5. context = [t \in AllThreads |-> context[t]] /\ present = [t \in AllThreads |-> present[t]]
    BY <1>1, <2>2
  <2> QED
    BY <1>1, <2>1, <2>3, <2>4, <2>5, Zenon DEF ContextTypes
<1>3. \A t \in AllThreads : PagesOf(t)
  BY <1>1 DEF PagesOf, Alive
<1>4. \A t \in AllThreads : Life(t)
  BY <1>1, Sizes DEF Life
<1>5. \A t \in AllThreads : Alive(t) => OwnWords(t)
  <2> SUFFICES ASSUME NEW t \in AllThreads, Alive(t), NEW a \in sp[t]..(stack_top - 1) PROVE FALSE
    BY Zenon DEF OwnWords
  <2>1. sp[t] = stack_top
    BY <1>1 DEF Alive
  <2>2. stack_top \in Int
    BY Sizes
  <2> QED
    BY <2>1, <2>2
<1>6. OnProcessor /\ \A t \in AllThreads \ {Here} : Off(t)
  BY <1>1 DEF OnProcessor, Off, Alive
<1> QED
  BY <1>1, <1>2, <1>3, <1>4, <1>5, <1>6 DEF CInv, SInv, Booting

\* Every step after sti keeps the invariant.
LEMMA RunStep == CInv /\ Run => CInv'
<1> SUFFICES ASSUME CInv, Run PROVE CInv'
  OBVIOUS
<1>1. ASSUME NEW vector, NEW error, Runs, Interrupt(vector, error) PROVE CInv'
  BY <1>1, Interrupts
<1>2. CASE timer_interrupt \/ spurious_interrupt
  BY <1>1, <1>2 DEF timer_interrupt, spurious_interrupt
<1>3. CASE scheduler_yield \/ page_fault
  BY <1>1, <1>3 DEF scheduler_yield, page_fault
<1>4. CASE compute \/ push \/ pop \/ ret \/ exit_push \/ task_current_thread_exit
  BY <1>4, Computes, PushStep, PopStep, Returns, ExitPushes, Exits
<1>5. CASE interrupt_handler \/ iretq
  BY <1>5, Handles, Irets
<1>6. ASSUME NEW t \in Threads, reap(t) PROVE CInv'
  BY <1>6, Reaps
<1> QED
  BY <1>2, <1>3, <1>4, <1>5, <1>6 DEF Run

----------------------------------------------------------------------------
(* The timer.                                                              *)

\* The delays have bounds, and so has the calibration.
LEMMA Delays ==
    /\ Max(ReadDelays) \in Nat /\ \A d \in ReadDelays : d \in Nat /\ d <= Max(ReadDelays)
    /\ Max(PollDelays) \in Nat /\ \A d \in PollDelays : d \in Nat /\ d > 0 /\ d <= Max(PollDelays)
    /\ ticks_to_wait \in Nat /\ ticks_to_wait > 0
    /\ Longest \in Nat /\ Longest = ticks_to_wait - 1 + Max(PollDelays) + 4 * Max(ReadDelays)
    /\ Longest >= ticks_to_wait
<1>1. Max(ReadDelays) \in ReadDelays /\ \A d \in ReadDelays : Max(ReadDelays) >= d
  BY TimerAssumption, Zenon DEF Max
<1>2. Max(PollDelays) \in PollDelays /\ \A d \in PollDelays : Max(PollDelays) >= d
  BY TimerAssumption, Zenon DEF Max
<1>3. ticks_to_wait \in Nat /\ ticks_to_wait > 0
  BY TimerAssumption
<1>4. Max(ReadDelays) \in Nat /\ Max(PollDelays) \in Nat \ {0}
  BY <1>1, <1>2, TimerAssumption, Zenon
<1> QED
  BY <1>1, <1>2, <1>3, <1>4, TimerAssumption DEF Longest

\* A difference of two 16-bit counts is the time between them, if that is
\* shorter than a turn of the counter.
LEMMA Wraps ==
    ASSUME NEW W \in Nat, NEW p \in Int, NEW s \in Int, NEW n \in Int, 0 <= n - s, n - s < W
    PROVE  (((p - s) % W) - ((p - n) % W)) % W = n - s
<1> DEFINE u == (p - s) \div W
           v == (p - n) \div W
<1>1. /\ u \in Int /\ v \in Int /\ W > 0
      /\ (p - s) % W = p - s - W * u
      /\ (p - n) % W = p - n - W * v
  OBVIOUS
<1> HIDE DEF u, v
<1>2. PICK k \in Int : k = n - s
  OBVIOUS
<1>3. ((p - s) % W) - ((p - n) % W) = k + W * (v - u)
  BY <1>1, <1>2
<1>4. PICK q \in Int : q = v - u
  BY <1>1
<1>5. (k + W * q) % W = k
  BY <1>1, <1>2
<1> QED
  BY <1>2, <1>3, <1>4, <1>5

\* The loop waits for as long as it means to.
LEMMA DeltaIs ==
    ASSUME NEW s \in Nat, NEW n \in Nat, 0 <= n - s, n - s < PitWrap, start.pit = pit_read_count(s)
    PROVE  Delta(pit_read_count(n)) = n - s
<1>1. PitWrap \in Nat /\ PitWrap > 0 /\ pit_prepare_sleep \in Int
  BY TimerAssumption DEF pit_prepare_sleep
<1>2. (((pit_prepare_sleep - s) % PitWrap) - ((pit_prepare_sleep - n) % PitWrap)) % PitWrap = n - s
  <2>1. s \in Int /\ n \in Int
    OBVIOUS
  <2> QED
    BY ONLY <1>1, <2>1, Wraps, 0 <= n - s, n - s < PitWrap, ZenonT(40)
<1> QED
  BY <1>2 DEF Delta, pit_read_count

\* The snapshots that timer_init has taken, and how much later it is now.
Snapshot(a, b, c) == start = [lapic |-> lapic_current(a), tsc |-> rdtsc(a + b), pit |-> pit_read_count(a + b + c)]

Elapsed == IF calibration = "poll" THEN 0..(ticks_to_wait - 1)
           ELSE ticks_to_wait..(ticks_to_wait - 1 + Max(PollDelays))

TInv ==
    /\ calibration \in {"off", "poll", "end", "done"}
    /\ now \in Nat
    /\ calibration \in {"poll", "end"} =>
          \E a, b, c \in ReadDelays : Snapshot(a, b, c) /\ now - (a + b + c) \in Elapsed
    /\ calibration = "done" =>
          /\ \E e \in ticks_to_wait..Longest : lapic_ticks_per_ms = (LapicRate * e) \div 10
          /\ \E e \in ticks_to_wait..Longest : tsc_freq_hz = TscRate * e * 100
          /\ tsc_boot_time \in Nat

\* The timer is not calibrated yet.
LEMMA TimerInits == TimerInit => TInv
BY DEF TimerInit, TInv

\* The first snapshot begins the measurement.
LEMMA TimerStarts ==
    ASSUME TInv, timer_start
    PROVE  TInv'
<1>1. PICK a \in ReadDelays, b \in ReadDelays, c \in ReadDelays :
          /\ start' = [lapic |-> lapic_current(a), tsc |-> rdtsc(a + b), pit |-> pit_read_count(a + b + c)]
          /\ now' = a + b + c
  BY DEF timer_start
<1>2. a \in Nat /\ b \in Nat /\ c \in Nat /\ now' - (a + b + c) = 0 /\ now' \in Nat
  BY <1>1, Delays
<1>3. calibration' = "poll"
  BY DEF timer_start
<1>4. 0 \in Elapsed'
  BY <1>3, Delays DEF Elapsed
<1> QED
  BY <1>1, <1>2, <1>3, <1>4 DEF TInv, Snapshot

\* A read of the loop is late by less than the longest delay.
LEMMA TimerPolls ==
    ASSUME TInv, timer_poll
    PROVE  TInv'
<1>1. PICK a \in ReadDelays, b \in ReadDelays, c \in ReadDelays :
          Snapshot(a, b, c) /\ now - (a + b + c) \in 0..(ticks_to_wait - 1)
  BY DEF TInv, timer_poll, Elapsed
<1>2. PICK d \in PollDelays : now' = now + d
  BY DEF timer_poll
<1> DEFINE s == a + b + c
<1>3. now \in Nat /\ s \in Nat /\ now - s \in 0..(ticks_to_wait - 1)
  BY <1>1, Delays DEF TInv
<1> HIDE DEF s
<1>4. now' \in Nat /\ 0 <= now' - s /\ now' - s < PitWrap
  <2>1. ticks_to_wait + Max(PollDelays) < PitWrap /\ PitWrap \in Nat
    BY TimerAssumption
  <2> QED
    BY <1>2, <1>3, <2>1, Delays
<1>5. 0 <= now' - s /\ now' - s <= ticks_to_wait - 1 + Max(PollDelays)
  BY <1>2, <1>3, Delays
<1>6. start.pit = pit_read_count(s) /\ start' = start
  BY <1>1 DEF Snapshot, s, timer_poll
<1>7. Delta(pit_read_count(now')) = now' - s
  <2>1. \A n \in Nat : 0 <= n - s /\ n - s < PitWrap => Delta(pit_read_count(n)) = n - s
    BY <1>3, <1>6, DeltaIs
  <2> QED
    BY <1>4, <2>1
<1>8. calibration' = IF now' - s >= ticks_to_wait THEN "end" ELSE "poll"
  BY <1>7 DEF timer_poll
<1>9. now' - s \in Elapsed'
  <2>1. ticks_to_wait \in Nat /\ Max(PollDelays) \in Nat /\ now' - s \in Int
    BY <1>4, <1>3, Delays
  <2>2. CASE now' - s >= ticks_to_wait
    BY <1>5, <1>8, <2>1, <2>2 DEF Elapsed
  <2>3. CASE ~ (now' - s >= ticks_to_wait)
    BY <1>5, <1>8, <2>1, <2>3 DEF Elapsed
  <2> QED
    BY <2>2, <2>3
<1>10. Snapshot(a, b, c)' /\ now' - (a + b + c) \in Elapsed'
  BY <1>1, <1>6, <1>9 DEF Snapshot, s, timer_poll
<1> QED
  BY <1>4, <1>8, <1>10 DEF TInv

\* The second snapshot: the LAPIC timer has counted down, and the TSC up,
\* between their two reads.
LEMMA TimerEnds ==
    ASSUME TInv, timer_end
    PROVE  TInv'
<1>1. PICK a \in ReadDelays, b \in ReadDelays, c \in ReadDelays :
          Snapshot(a, b, c) /\ now - (a + b + c) \in ticks_to_wait..(ticks_to_wait - 1 + Max(PollDelays))
  BY DEF TInv, timer_end, Elapsed
<1>2. PICK x \in ReadDelays, y \in ReadDelays :
          /\ lapic_ticks_per_ms' = ((start.lapic - lapic_current(now + x)) % LapicWrap) \div 10
          /\ tsc_freq_hz' = (rdtsc(now + x + y) - start.tsc) * 100
          /\ tsc_boot_time' = rdtsc(now + x + y)
  BY DEF timer_end
<1>3. calibration' = "done" /\ now' = 0
  BY DEF timer_end
<1>4. now \in Nat /\ a \in Nat /\ b \in Nat /\ c \in Nat /\ x \in Nat /\ y \in Nat
  BY Delays DEF TInv
<1> DEFINE e == now + x - a
           g == now + x + y - (a + b)
<1>5. e \in ticks_to_wait..Longest /\ g \in ticks_to_wait..Longest /\ now + x <= Longest /\ a <= now + x
  BY <1>1, <1>4, Delays
<1>6. \A n \in Nat : n <= Longest => lapic_current(n) = LapicWrap - 1 - LapicRate * n
  <2> SUFFICES ASSUME NEW n \in Nat, n <= Longest PROVE lapic_current(n) = LapicWrap - 1 - LapicRate * n
    OBVIOUS
  <2>1. LapicRate * n <= LapicRate * Longest
    BY TimerAssumption, Delays
  <2>2. LapicWrap - 1 - LapicRate * n \in Nat
    BY <2>1, TimerAssumption, Delays
  <2> QED
    BY <2>2 DEF lapic_current, Max
<1>7. lapic_ticks_per_ms' = (LapicRate * e) \div 10
  <2>1. start.lapic = LapicWrap - 1 - LapicRate * a /\ lapic_current(now + x) = LapicWrap - 1 - LapicRate * (now + x)
    BY <1>1, <1>4, <1>5, <1>6, Delays DEF Snapshot
  <2>2. LapicRate \in Nat /\ LapicWrap \in Nat /\ LapicRate * Longest < LapicWrap
    BY TimerAssumption
  <2>3. start.lapic - lapic_current(now + x) = LapicRate * e
    BY <1>4, <2>1, <2>2
  <2>4. e \in Nat /\ e <= Longest /\ Longest \in Nat
    BY <1>5, Delays
  <2> HIDE DEF e
  <2>5. LapicRate * e \in Nat /\ LapicRate * e < LapicWrap
    BY <2>2, <2>4
  <2>6. (LapicRate * e) % LapicWrap = LapicRate * e
    BY <2>2, <2>5
  <2> QED
    BY <1>2, <2>3, <2>6
<1>8. tsc_freq_hz' = TscRate * g * 100
  BY <1>1, <1>2, <1>4, TimerAssumption DEF Snapshot, rdtsc
<1>9. tsc_boot_time' \in Nat
  BY <1>2, <1>4, TimerAssumption DEF rdtsc
<1> HIDE DEF e, g
<1> QED
  BY <1>3, <1>5, <1>7, <1>8, <1>9 DEF TInv

\* Every step of timer_init keeps the invariant.
LEMMA TimerStep == TInv /\ timer_init => TInv'
BY TimerStarts, TimerPolls, TimerEnds DEF timer_init

\* A clock that counts too slowly by a factor of at most longest / wait, and
\* is read in whole milliseconds.
LEMMA Uptime ==
    ASSUME NEW r \in Nat, r > 0, NEW wait \in Nat, NEW longest \in Nat, r * wait >= 10,
           NEW e \in wait..longest, NEW t \in Nat, NEW hz \in Int, hz = r * e * 100,
           NEW ms \in Int, ms = (r * t) \div (hz \div 1000)
    PROVE  /\ hz >= 1000
           /\ ms * (r * wait - 9) <= 10 * r * t
           /\ (ms + 1) * longest > 10 * t
<1> DEFINE D == (r * e) \div 10
<1>1. PICK n \in Nat : n = r * e
  OBVIOUS
<1>2. n >= r * wait /\ n <= r * longest /\ n >= 10
  <2>1. e \in Nat /\ e >= wait /\ e <= longest
    OBVIOUS
  <2>2. r * e >= r * wait /\ r * e <= r * longest
    BY <2>1
  <2> QED
    BY <1>1, <2>2
<1>3. hz = n * 100 /\ hz >= 1000
  BY <1>1, <1>2
<1>4. hz \div 1000 = n \div 10
  BY <1>3
<1>5. PICK d \in Nat : d = n \div 10 /\ d > 0 /\ 10 * d >= n - 9 /\ 10 * d <= n
  BY <1>2
<1>6. PICK x \in Nat : x = r * t
  OBVIOUS
<1>7. ms = x \div d
  BY <1>4, <1>5, <1>6
<1>8. ms \in Nat /\ ms * d <= x /\ (ms + 1) * d > x
  BY <1>5, <1>7
<1>9. ms * (r * wait - 9) <= 10 * r * t
  <2>1. PICK w \in Nat : w = r * wait
    OBVIOUS
  <2>2. w - 9 <= 10 * d
    BY <1>2, <1>5, <2>1
  <2>3. ms * (w - 9) <= ms * (10 * d)
    BY <1>8, <2>2
  <2>4. ms * (10 * d) = 10 * (ms * d)
    BY <1>8
  <2>5. 10 * r * t = 10 * x
    BY <1>6
  <2>6. 10 * (ms * d) <= 10 * x
    BY <1>8
  <2> QED
    BY ONLY <1>8, <2>1, <2>3, <2>4, <2>5, <2>6
<1>10. (ms + 1) * longest > 10 * t
  <2>1. 10 * d <= r * longest
    BY <1>2, <1>5
  <2>2. (ms + 1) * (10 * d) <= (ms + 1) * (r * longest)
    BY <1>8, <2>1
  <2>3. (ms + 1) * (10 * d) = 10 * ((ms + 1) * d)
    BY <1>8
  <2>4. 10 * ((ms + 1) * d) > 10 * x
    BY <1>8
  <2>5. (ms + 1) * (r * longest) = r * ((ms + 1) * longest) /\ 10 * x = r * (10 * t)
    BY <1>6, <1>8
  <2>6. PICK p \in Nat, q \in Nat : p = (ms + 1) * longest /\ q = 10 * t
    BY <1>8
  <2>7. r * p > r * q
    BY ONLY <1>8, <2>2, <2>3, <2>4, <2>5, <2>6
  <2>8. p > q
    BY <2>7
  <2> QED
    BY <2>6, <2>8
<1> QED
  BY <1>3, <1>9, <1>10

\* What the calibration has measured makes the clock right.
LEMMA ClockFromTInv == TInv => ClockIsRight
<1> SUFFICES ASSUME TInv, calibration = "done" PROVE ClockIsRight
  BY DEF ClockIsRight
<1>1. PICK e \in ticks_to_wait..Longest : lapic_ticks_per_ms = (LapicRate * e) \div 10
  BY DEF TInv
<1>2. PICK g \in ticks_to_wait..Longest : tsc_freq_hz = TscRate * g * 100
  BY DEF TInv
<1>3. /\ e \in Nat /\ g \in Nat /\ ticks_to_wait \in Nat /\ Longest \in Nat /\ tsc_boot_time \in Nat
      /\ e >= ticks_to_wait /\ e <= Longest
  BY Delays DEF TInv
<1>4. /\ LapicRate \in Nat /\ LapicWrap \in Nat /\ LapicRate * Longest < LapicWrap
      /\ TscRate \in Nat /\ TscRate > 0 /\ TscRate * ticks_to_wait >= 10
  BY TimerAssumption
<1>5. LapicPeriod > LapicRate * ticks_to_wait - 10 /\ LapicPeriod <= LapicRate * Longest
  <2>1. LapicRate * e >= LapicRate * ticks_to_wait /\ LapicRate * e <= LapicRate * Longest
    BY <1>3, <1>4
  <2>2. PICK n \in Nat : n = LapicRate * e
    BY <1>3, <1>4
  <2>3. PICK m \in Nat : m = LapicRate * Longest
    BY <1>3, <1>4
  <2>4. PICK w \in Nat : w = LapicRate * ticks_to_wait
    BY <1>3, <1>4
  <2>5. LapicPeriod = ((n \div 10) * 10) % LapicWrap
    BY <1>1, <2>2 DEF LapicPeriod, TIMER_FREQUENCY_HZ
  <2>6. w <= n /\ n <= m /\ m < LapicWrap
    BY <1>4, <2>1, <2>2, <2>3, <2>4
  <2>7. (n \div 10) * 10 \in Nat /\ (n \div 10) * 10 <= n /\ (n \div 10) * 10 > n - 10
    BY <2>2
  <2>8. LapicPeriod = (n \div 10) * 10
    BY <1>4, <2>5, <2>6, <2>7
  <2> QED
    BY <2>3, <2>4, <2>6, <2>7, <2>8
<1>6. ASSUME NEW t \in Nat
      PROVE  /\ tsc_freq_hz >= 1000
             /\ LET ms == timer_get_uptime_ms(tsc_boot_time + rdtsc(t)) IN
                /\ ms * (TscRate * ticks_to_wait - 9) <= 10 * TscRate * t
                /\ (ms + 1) * Longest > 10 * t
  <2> DEFINE ms == (TscRate * t) \div (tsc_freq_hz \div 1000)
  <2>1. tsc_freq_hz \in Int /\ TscRate * t \in Nat
    BY <1>2, <1>3, <1>4
  <2>2. timer_get_uptime_ms(tsc_boot_time + rdtsc(t)) = ms
    <3>1. \A x \in Nat : timer_get_uptime_ms(tsc_boot_time + x) = x \div (tsc_freq_hz \div 1000)
      <4> SUFFICES ASSUME NEW x \in Nat
                   PROVE  timer_get_uptime_ms(tsc_boot_time + x) = x \div (tsc_freq_hz \div 1000)
        OBVIOUS
      <4>1. (tsc_boot_time + x) - tsc_boot_time = x
        BY <1>3
      <4> QED
        BY <4>1, Zenon DEF timer_get_uptime_ms
    <3> QED
      BY <2>1, <3>1 DEF rdtsc
  <2>3. ms \in Int
    <3>1. tsc_freq_hz >= 1000
      <4>1. TscRate * g >= TscRate * ticks_to_wait
        BY <1>2, <1>3, <1>4
      <4>2. PICK n \in Nat : n = TscRate * g
        BY <1>3, <1>4
      <4> QED
        BY <1>2, <1>3, <1>4, <4>1, <4>2
    <3> QED
      BY <2>1, <3>1
  <2> HIDE DEF ms
  <2>4. /\ tsc_freq_hz >= 1000
        /\ ms * (TscRate * ticks_to_wait - 9) <= 10 * TscRate * t
        /\ (ms + 1) * Longest > 10 * t
    BY ONLY <1>2, <1>3, <1>4, <2>1, <2>3, Uptime, ms = (TscRate * t) \div (tsc_freq_hz \div 1000), t \in Nat DEF ms
  <2> QED
    BY <2>2, <2>4
<1>7. ticks_to_wait \in Nat
  BY Delays
<1> QED
  <2>1. tsc_freq_hz >= 1000
    <3>1. 0 \in Nat
      OBVIOUS
    <3> QED
      BY <1>6, <3>1
  <2>2. \A t \in 0..(4 * ticks_to_wait) : t \in Nat
    BY <1>7
  <2> QED
    BY <1>5, <1>6, <2>1, <2>2 DEF ClockIsRight

----------------------------------------------------------------------------
(* kmain.                                                                  *)

\* What kmain has initialized for certain when it begins a stage.
Given == [hcf              |-> {},
          limine_verify_requests |-> {},
          gdt_init         |-> {"limine"},
          idt_init         |-> {"limine", "gdt"},
          pmm_init         |-> {"limine", "gdt", "idt"},
          paging_init      |-> {"limine", "gdt", "idt", "pmm"},
          kheap_init       |-> {"limine", "gdt", "idt", "pmm", "paging"},
          vmm_init         |-> {"limine", "gdt", "idt", "pmm", "paging", "kheap"},
          console_init     |-> {"limine", "gdt", "idt", "kheap", "vmm"},
          acpi_init        |-> {"limine", "gdt", "idt", "kheap", "vmm"},
          lapic_initialize |-> {"gdt", "idt", "kheap", "vmm"},
          timer_init       |-> {"gdt", "idt", "kheap", "vmm", "lapic"},
          scheduler_init   |-> {"gdt", "idt", "kheap", "vmm", "lapic", "timer"},
          create           |-> {"kheap"} \cup InterruptUses,
          sti              |-> InterruptUses,
          idle             |-> InterruptUses]

BInv ==
    /\ CInv /\ TInv
    /\ stage \in DOMAIN Given /\ Given[stage] \subseteq initialized
    /\ stage # "idle" => work[Idle] = "boot"
    /\ stage \in {"scheduler_init", "create", "sti", "idle"} => calibration = "done"

\* One field after the other.
LEMMA GivenFacts ==
    /\ DOMAIN Given = {"hcf", "limine_verify_requests", "gdt_init", "idt_init", "pmm_init", "paging_init", "kheap_init",
                       "vmm_init", "console_init", "acpi_init", "lapic_initialize", "timer_init", "scheduler_init",
                       "create", "sti", "idle"}
    /\ Given["hcf"] = {} /\ Given["limine_verify_requests"] = {}
    /\ Given["gdt_init"] = {"limine"} /\ Given["idt_init"] = {"limine", "gdt"}
    /\ Given["pmm_init"] = {"limine", "gdt", "idt"} /\ Given["paging_init"] = {"limine", "gdt", "idt", "pmm"}
    /\ Given["kheap_init"] = {"limine", "gdt", "idt", "pmm", "paging"}
    /\ Given["vmm_init"] = {"limine", "gdt", "idt", "pmm", "paging", "kheap"}
    /\ Given["console_init"] = {"limine", "gdt", "idt", "kheap", "vmm"}
    /\ Given["acpi_init"] = {"limine", "gdt", "idt", "kheap", "vmm"}
    /\ Given["lapic_initialize"] = {"gdt", "idt", "kheap", "vmm"}
    /\ Given["timer_init"] = {"gdt", "idt", "kheap", "vmm", "lapic"}
    /\ Given["scheduler_init"] = {"gdt", "idt", "kheap", "vmm", "lapic", "timer"}
    /\ Given["create"] = {"kheap"} \cup InterruptUses
    /\ Given["sti"] = InterruptUses /\ Given["idle"] = InterruptUses
BY Zenon DEF Given

\* The order of kmain.
LEMMA StageOrder ==
    /\ After("limine_verify_requests") = "gdt_init" /\ After("gdt_init") = "idt_init"
    /\ After("idt_init") = "pmm_init" /\ After("pmm_init") = "paging_init"
    /\ After("paging_init") = "kheap_init" /\ After("kheap_init") = "vmm_init"
    /\ After("vmm_init") = "console_init" /\ After("console_init") = "acpi_init"
    /\ After("acpi_init") = "lapic_initialize" /\ After("lapic_initialize") = "timer_init"
    /\ After("timer_init") = "scheduler_init" /\ After("scheduler_init") = "create"
    /\ After("create") = "sti" /\ After("sti") = "idle"
<1>1. DOMAIN kmain = 1..15
  BY DEF kmain
<1>2. /\ kmain[1] = "limine_verify_requests" /\ kmain[2] = "gdt_init" /\ kmain[3] = "idt_init"
      /\ kmain[4] = "pmm_init" /\ kmain[5] = "paging_init" /\ kmain[6] = "kheap_init"
      /\ kmain[7] = "vmm_init" /\ kmain[8] = "console_init" /\ kmain[9] = "acpi_init"
      /\ kmain[10] = "lapic_initialize" /\ kmain[11] = "timer_init" /\ kmain[12] = "scheduler_init"
      /\ kmain[13] = "create" /\ kmain[14] = "sti" /\ kmain[15] = "idle"
  BY DEF kmain
<1>3. ASSUME NEW n \in 1..14, NEW m, m = n + 1 PROVE After(kmain[n]) = kmain[m]
  <2>1. \A i \in 1..15 : kmain[i] = kmain[n] => i = n
    BY <1>2
  <2>2. (CHOOSE i \in DOMAIN kmain : kmain[i] = kmain[n]) = n
    BY <1>1, <2>1
  <2> QED
    BY <1>3, <2>2, Zenon DEF After
<1>4. /\ After(kmain[1]) = kmain[2] /\ After(kmain[2]) = kmain[3] /\ After(kmain[3]) = kmain[4]
      /\ After(kmain[4]) = kmain[5] /\ After(kmain[5]) = kmain[6] /\ After(kmain[6]) = kmain[7]
      /\ After(kmain[7]) = kmain[8] /\ After(kmain[8]) = kmain[9] /\ After(kmain[9]) = kmain[10]
      /\ After(kmain[10]) = kmain[11] /\ After(kmain[11]) = kmain[12] /\ After(kmain[12]) = kmain[13]
      /\ After(kmain[13]) = kmain[14] /\ After(kmain[14]) = kmain[15]
  BY <1>3
<1> QED
  BY <1>2, <1>4, Zenon

\* A step of another component changes nothing that the threads see.
LEMMA ContextStays == CInv /\ UNCHANGED context_vars => CInv'
<1> SUFFICES ASSUME CInv, UNCHANGED <<cpu, stack, present, context, thread_current, state, irq, rax, reset, work, sp>>
             PROVE  CInv'
  BY DEF context_vars
<1>1. /\ cpu' = cpu /\ stack' = stack /\ present' = present /\ context' = context
      /\ thread_current' = thread_current /\ state' = state /\ irq' = irq /\ rax' = rax
      /\ reset' = reset /\ work' = work /\ sp' = sp
  OBVIOUS
<1>2. ContextTypes' /\ Booting' /\ Here' = Here
  BY <1>1 DEF CInv, ContextTypes, Booting, Here
<1>3. \A t \in AllThreads : PagesOf(t)'
  BY <1>1, Zenon DEF CInv, PagesOf, Alive
<1>4. ASSUME ~ reset PROVE SInv'
  <2>1. SInv
    BY <1>4 DEF CInv
  <2>2. \A t \in AllThreads : Life(t)'
    BY <1>1, <2>1, SMTT(120) DEF SInv, Life
  <2>3. \A t \in AllThreads : (Alive(t) => OwnWords(t))'
    BY <1>1, <2>1 DEF SInv, Alive, OwnWords, ExpectedWord
  <2>4. OnProcessor'
    BY <1>1, <1>2, <2>1, Zenon DEF SInv, OnProcessor, HasFrame, Expected
  <2>5. \A t \in AllThreads \ {Here} : Off(t)'
    BY <1>1, <2>1, Zenon DEF SInv, Off, Alive, HasFrame, Expected
  <2> QED
    BY <1>2, <2>2, <2>3, <2>4, <2>5 DEF SInv
<1> QED
  BY <1>1, <1>2, <1>3, <1>4 DEF CInv

\* No step of the timer, no change of it.
LEMMA TimerStays == TInv /\ UNCHANGED timer_vars => TInv'
BY DEF TInv, timer_vars, Snapshot, Elapsed

\* Nothing runs beside kmain before sti.
LEMMA RunsAfterSti == CInv /\ Run => work[Idle] # "boot"
BY DEF Run, CInv, Booting, compute, push, pop, ret, exit_push, task_current_thread_exit, timer_interrupt,
       spurious_interrupt, scheduler_yield, page_fault, interrupt_handler, iretq, reap, Runs

\* Interrupts are disabled before sti.
LEMMA DisabledBeforeSti == CInv /\ work[Idle] = "boot" => cpu.rflags # IF_set
<1> SUFFICES ASSUME CInv, work[Idle] = "boot" PROVE cpu.rflags # IF_set
  OBVIOUS
<1>1. cpu = Image(Idle, "boot", sp[Idle])
  BY Zenon DEF CInv, SInv, Booting, OnProcessor, Expected
<1>2. cpu.rflags = Zero
  BY <1>1, ImageFacts
<1> QED
  BY <1>2 DEF Zero, IF_set, Value

\* kmain starts with nothing.
LEMMA BootInits == BootInit => BInv
<1> SUFFICES ASSUME BootInit PROVE BInv
  OBVIOUS
<1>1. CInv /\ TInv
  BY ContextInits, TimerInits DEF BootInit
<1>2. stage = "limine_verify_requests" /\ initialized = {}
  BY DEF BootInit, kmain
<1>3. work[Idle] = "boot"
  BY DEF BootInit, ContextInit, AllThreads
<1> QED
  BY <1>1, <1>2, <1>3, GivenFacts DEF BInv

\* One stage: what it sets is what the next one is given.
LEMMA StageDone ==
    ASSUME BInv, NEW s, s # "idle", stage = s, NEW set, Done(s, set), After(s) # "idle",
           After(s) \in DOMAIN Given, Given[After(s)] \subseteq Given[s] \cup set,
           CInv', TInv', UNCHANGED work,
           After(s) \in {"scheduler_init", "create", "sti"} => calibration' = "done"
    PROVE  BInv'
BY DEF BInv, Done

\* A stage that stops the machine.
LEMMA StageStops ==
    ASSUME BInv, stage # "idle", hcf, UNCHANGED <<context_vars, timer_vars>>
    PROVE  BInv'
<1>1. CInv' /\ TInv' /\ work' = work
  BY ContextStays, TimerStays DEF BInv, context_vars
<1>2. stage' = "hcf" /\ "hcf" \in DOMAIN Given /\ Given["hcf"] = {}
  BY GivenFacts DEF hcf
<1> QED
  BY <1>1, <1>2 DEF BInv

\* A stage that only sets its component.
LEMMA StageEnds ==
    ASSUME BInv, NEW s, s \notin {"idle", "timer_init"}, stage = s, NEW set, Done(s, set), After(s) # "idle",
           After(s) \in DOMAIN Given, Given[After(s)] \subseteq Given[s] \cup set,
           UNCHANGED <<context_vars, timer_vars>>,
           After(s) \in {"create", "sti"} => s \in {"scheduler_init", "create"},
           After(s) # "scheduler_init"
    PROVE  BInv'
<1>1. CInv' /\ TInv' /\ work' = work /\ calibration' = calibration
  BY ContextStays, TimerStays DEF BInv, context_vars, timer_vars
<1>2. After(s) \in {"scheduler_init", "create", "sti"} => calibration' = "done"
  BY <1>1 DEF BInv
<1> QED
  BY <1>1, <1>2, StageDone

\* Every stage of kmain, and every step after it, keeps the invariant.
LEMMA BootStep == BInv /\ [Next]_vars => BInv'
<1> SUFFICES ASSUME BInv, [Next]_vars PROVE BInv'
  OBVIOUS
<1> DEFINE Still == UNCHANGED <<context_vars, timer_vars>>
<1>1. CASE limine_verify_requests
  <2>1. Given[After("limine_verify_requests")] = {"limine"} /\ After("limine_verify_requests") \in DOMAIN Given
    BY StageOrder, GivenFacts
  <2> QED
    BY <1>1, <2>1, StageOrder, StageEnds, StageStops DEF limine_verify_requests, OrHcf, Enter
<1>2. CASE gdt_init
  <2>1. Given[After("gdt_init")] = Given["gdt_init"] \cup {"gdt"} /\ After("gdt_init") \in DOMAIN Given
    BY StageOrder, GivenFacts
  <2> QED
    BY <1>2, <2>1, StageOrder, StageEnds DEF gdt_init, Always, Enter
<1>3. CASE idt_init
  <2>1. Given[After("idt_init")] = Given["idt_init"] \cup {"idt"} /\ After("idt_init") \in DOMAIN Given
    BY StageOrder, GivenFacts
  <2> QED
    BY <1>3, <2>1, StageOrder, StageEnds DEF idt_init, Always, Enter
<1>4. CASE pmm_init
  <2>1. Given[After("pmm_init")] = Given["pmm_init"] \cup {"pmm"} /\ After("pmm_init") \in DOMAIN Given
    BY StageOrder, GivenFacts
  <2> QED
    BY <1>4, <2>1, StageOrder, StageEnds, StageStops DEF pmm_init, OrHcf, Enter
<1>5. CASE boot_paging
  <2>1. Given[After("paging_init")] = Given["paging_init"] \cup {"paging"} /\ After("paging_init") \in DOMAIN Given
    BY StageOrder, GivenFacts
  <2> QED
    BY <1>5, <2>1, StageOrder, StageEnds, StageStops DEF boot_paging, OrHcf, Enter
<1>6. CASE kheap_init
  <2>1. Given[After("kheap_init")] = Given["kheap_init"] \cup {"kheap"} /\ After("kheap_init") \in DOMAIN Given
    BY StageOrder, GivenFacts
  <2> QED
    BY <1>6, <2>1, StageOrder, StageEnds, StageStops DEF kheap_init, OrHcf, Enter
<1>7. CASE vmm_init
  <2>1. Given[After("vmm_init")] \subseteq Given["vmm_init"] \cup {"vmm"} /\ After("vmm_init") \in DOMAIN Given
    BY StageOrder, GivenFacts
  <2> QED
    BY <1>7, <2>1, StageOrder, StageEnds, StageStops DEF vmm_init, OrHcf, Enter
<1>8. CASE console_init
  <2>1. Given[After("console_init")] = Given["console_init"] /\ After("console_init") \in DOMAIN Given
    BY StageOrder, GivenFacts
  <2>2. ASSUME NEW set, Done("console_init", set) PROVE BInv'
    BY <1>8, <2>1, <2>2, StageOrder, StageEnds DEF console_init, Enter
  <2> QED
    BY <1>8, <2>2, StageOrder, StageStops DEF console_init, Enter
<1>9. ASSUME NEW signature, NEW v1, NEW revision, NEW address, NEW v2,
             acpi_init(signature, v1, revision, address, v2)
      PROVE  BInv'
  <2>1. Given[After("acpi_init")] \subseteq Given["acpi_init"] \cup {"acpi"} /\ After("acpi_init") \in DOMAIN Given
    BY StageOrder, GivenFacts
  <2>2. stage = "acpi_init" /\ (hcf \/ Done("acpi_init", {"acpi"})) /\ Still
    BY <1>9 DEF acpi_init, Enter
  <2> QED
    BY <2>1, <2>2, StageOrder, StageEnds, StageStops
<1>10. CASE lapic_initialize
  <2>1. /\ Given[After("lapic_initialize")] = Given["lapic_initialize"] \cup {"lapic"}
        /\ After("lapic_initialize") \in DOMAIN Given
    BY StageOrder, GivenFacts
  <2> QED
    BY <1>10, <2>1, StageOrder, StageEnds, StageStops DEF lapic_initialize, OrHcf, Enter
<1>11. CASE boot_timer
  <2>1. Given[After("timer_init")] = Given["timer_init"] \cup {"timer"} /\ After("timer_init") \in DOMAIN Given
    BY StageOrder, GivenFacts
  <2>2. stage = "timer_init" /\ UNCHANGED context_vars /\ timer_init
    BY <1>11 DEF boot_timer, Enter
  <2>3. CInv' /\ TInv' /\ work' = work
    BY <2>2, ContextStays, TimerStep DEF BInv, context_vars
  <2>4. CASE calibration' = "done"
    <3>1. Done("timer_init", {"timer"})
      BY <1>11, <2>4 DEF boot_timer
    <3> QED
      BY <2>1, <2>2, <2>3, <2>4, <3>1, StageOrder, StageDone
  <2>5. CASE calibration' # "done"
    <3>1. UNCHANGED <<stage, initialized>>
      BY <1>11, <2>5 DEF boot_timer
    <3> QED
      BY <2>2, <2>3, <3>1 DEF BInv
  <2> QED
    BY <2>4, <2>5
<1>12. CASE scheduler_init
  <2>1. /\ Given[After("scheduler_init")] \subseteq Given["scheduler_init"] \cup {"scheduler"}
        /\ After("scheduler_init") \in DOMAIN Given
    BY StageOrder, GivenFacts DEF InterruptUses
  <2> QED
    BY <1>12, <2>1, StageOrder, StageEnds, StageStops DEF scheduler_init, OrHcf, Enter
<1>13. CASE create
  <2>1. Given[After("create")] \subseteq Given["create"] /\ After("create") \in DOMAIN Given
    BY StageOrder, GivenFacts
  <2>2. stage = "create" /\ work[Idle] = "boot" /\ TInv' /\ calibration' = calibration /\ UNCHANGED timer_vars
    BY <1>13, TimerStays, Zenon DEF create, Enter, BInv, timer_vars
  <2>3. ASSUME NEW t \in Threads, task_create_thread(t), UNCHANGED <<stage, initialized>> PROVE BInv'
    <3>1. CInv' /\ work' = work
      BY <2>2, <2>3, Creates, Zenon DEF BInv, task_create_thread
    <3> QED
      BY <2>2, <2>3, <3>1 DEF BInv
  <2>4. ASSUME Done("create", {}), UNCHANGED context_vars PROVE BInv'
    BY <2>1, <2>2, <2>4, StageOrder, StageEnds
  <2> QED
    BY <1>13, <2>3, <2>4 DEF create
<1>14. CASE boot_sti
  <2>1. Given[After("sti")] = Given["sti"] /\ After("sti") \in DOMAIN Given /\ After("sti") = "idle"
    BY StageOrder, GivenFacts
  <2>2. stage = "sti" /\ sti /\ Done("sti", {}) /\ TInv' /\ calibration' = calibration
    BY <1>14, TimerStays DEF boot_sti, Enter, BInv, timer_vars
  <2>3. CInv'
    BY <2>2, StiStep DEF BInv
  <2> QED
    BY <2>1, <2>2, <2>3 DEF BInv, Done
<1>15. CASE run
  <2>1. Run /\ UNCHANGED <<stage, initialized>> /\ TInv' /\ calibration' = calibration
    BY <1>15, TimerStays DEF run, BInv, timer_vars
  <2>2. CInv' /\ work[Idle] # "boot"
    BY <2>1, RunStep, RunsAfterSti DEF BInv
  <2> QED
    BY <2>1, <2>2 DEF BInv
<1>16. CASE UNCHANGED vars
  <2>1. CInv' /\ TInv' /\ work' = work /\ calibration' = calibration /\ stage' = stage /\ initialized' = initialized
    BY <1>16, ContextStays, TimerStays DEF BInv, vars, context_vars, timer_vars
  <2> QED
    BY <2>1 DEF BInv
<1> QED
  BY <1>1, <1>2, <1>3, <1>4, <1>5, <1>6, <1>7, <1>8, <1>9, <1>10, <1>11, <1>12, <1>13, <1>14, <1>15, <1>16 DEF Next

\* Whenever kmain begins a stage it is given what the stage uses, and an
\* interrupt finds everything its handler uses.
LEMMA FindsFromBInv == BInv => InterruptsFindKernel
<1> SUFFICES ASSUME BInv PROVE InterruptsFindKernel
  OBVIOUS
<1>1. ASSUME stage \in DOMAIN Uses PROVE Uses[stage] \subseteq initialized
  <2>1. /\ Uses["limine_verify_requests"] \subseteq Given["limine_verify_requests"]
        /\ Uses["gdt_init"] \subseteq Given["gdt_init"] /\ Uses["idt_init"] \subseteq Given["idt_init"]
        /\ Uses["pmm_init"] \subseteq Given["pmm_init"] /\ Uses["paging_init"] \subseteq Given["paging_init"]
        /\ Uses["kheap_init"] \subseteq Given["kheap_init"] /\ Uses["vmm_init"] \subseteq Given["vmm_init"]
    BY GivenFacts, Zenon DEF Uses
  <2>2. /\ Uses["console_init"] \subseteq Given["console_init"] /\ Uses["acpi_init"] \subseteq Given["acpi_init"]
        /\ Uses["lapic_initialize"] \subseteq Given["lapic_initialize"]
        /\ Uses["timer_init"] \subseteq Given["timer_init"]
        /\ Uses["scheduler_init"] \subseteq Given["scheduler_init"]
        /\ Uses["create"] \subseteq Given["create"] /\ Uses["sti"] \subseteq Given["sti"]
    BY GivenFacts, Zenon DEF Uses, InterruptUses
  <2>3. stage \in {"limine_verify_requests", "gdt_init", "idt_init", "pmm_init", "paging_init", "kheap_init",
                   "vmm_init", "console_init", "acpi_init", "lapic_initialize", "timer_init", "scheduler_init",
                   "create", "sti"}
    BY <1>1 DEF Uses
  <2>4. Uses[stage] \subseteq Given[stage]
    BY <2>1, <2>2, <2>3
  <2> QED
    BY <2>4 DEF BInv
<1>2. stage # "idle" => cpu.rflags # IF_set
  BY DisabledBeforeSti DEF BInv
<1>3. stage = "idle" => InterruptUses \subseteq initialized /\ calibration = "done"
  BY GivenFacts DEF BInv
<1>4. calibration = "done" => lapic_ticks_per_ms > 0
  <2> SUFFICES ASSUME calibration = "done" PROVE lapic_ticks_per_ms > 0
    OBVIOUS
  <2>1. PICK e \in ticks_to_wait..Longest : lapic_ticks_per_ms = (LapicRate * e) \div 10
    BY DEF BInv, TInv
  <2>2. LapicRate \in Nat /\ LapicRate * ticks_to_wait >= 10
    BY TimerAssumption
  <2>3. e \in Nat /\ e >= ticks_to_wait /\ ticks_to_wait \in Nat
    BY Delays
  <2>4. LapicRate * e >= LapicRate * ticks_to_wait
    BY <2>2, <2>3
  <2>5. PICK n \in Nat : n = LapicRate * e /\ n >= 10
    BY <2>2, <2>3, <2>4
  <2> QED
    BY <2>1, <2>5
<1> QED
  BY <1>1, <1>2, <1>3, <1>4 DEF InterruptsFindKernel

\* The invariant holds in every state of the kernel.
LEMMA BootSafe == Spec => []BInv
BY BootInits, BootStep, PTL DEF Spec

\* However the threads are interrupted, and whichever threads the scheduler
\* chooses, each finds its own registers and its own words again
\* (interrupts.S, task_create_thread, scheduler_schedule).
THEOREM ContextsAreKept == Spec => []ContextIntact
<1>1. BInv => ContextIntact
  BY IntactFromCInv DEF BInv
<1> QED
  BY <1>1, BootSafe, PTL

\* No stack that is still in use is given back, that of a reaped thread is given
\* back as a whole (kernel_idle_thread), and the processor does not reset while the
\* current thread leaves room for an interrupt in the page that is mapped.
THEOREM StacksAreSafe == Spec => []StackSafe
<1>1. BInv => StackSafe
  BY IntactFromCInv DEF BInv
<1> QED
  BY <1>1, BootSafe, PTL

\* kmain uses nothing before it is there, and enables interrupts only when
\* their handlers have all they use.
THEOREM KernelIsReady == Spec => []InterruptsFindKernel
<1>1. BInv => InterruptsFindKernel
  BY FindsFromBInv
<1> QED
  BY <1>1, BootSafe, PTL

\* For every rate of the counters, and every delay of the reads that does
\* not miss a turn of a counter, the calibrated clock is right.
THEOREM ClockIsCalibrated == Spec => []ClockIsRight
<1>1. BInv => ClockIsRight
  BY ClockFromTInv DEF BInv
<1> QED
  BY <1>1, BootSafe, PTL

=============================================================================
