------------------------------ MODULE Context ------------------------------
(***************************************************************************)
(* interrupts/isr.asm, interrupts/isr.c and the stack that                 *)
(* task_create_thread prepares: how the registers of a thread get into     *)
(* memory at an interrupt and come back, perhaps much later, when          *)
(* scheduler_schedule returns the frame of another thread.                 *)
(*                                                                         *)
(* A stack is an array of 64-bit words.  A word, and a register, holds a   *)
(* value that names what was put there.  The frame of an interrupt is on   *)
(* the stack of the interrupted thread, since no IST is used, and a stack  *)
(* is mapped lazily: a push into a page that is not mapped faults, the     *)
(* fault cannot be delivered on the same stack, and the processor resets.  *)
(***************************************************************************)
EXTENDS Integers, Sequences, Functions

CONSTANTS
    Threads,
    Idle,          \* the idle thread, on the stack the boot loader gave kmain
    PageWords,     \* words in a page
    StackPages,    \* pages in a stack
    HandlerWords,  \* words of stack the C code of a handler uses
    Depths         \* how many words the code of a thread may have on its stack

ASSUME ContextAssumption ==
    /\ Idle \notin Threads
    /\ PageWords \in Nat /\ PageWords % 2 = 0 /\ PageWords > 24 + HandlerWords
    /\ StackPages \in Nat \ {0} /\ HandlerWords \in Nat /\ Depths \subseteq Nat

VARIABLES
    cpu,             \* the registers of the processor
    stack,           \* the words of each stack
    present,         \* the pages of each stack that are mapped
    context,         \* thread->context: where the frame of a thread is
    thread_current,
    state,           \* thread->state
    irq,             \* "none", "handler" (in interrupt_handler) or "return"
    rax,             \* the frame that interrupt_handler has returned
    reset,           \* the processor has reset
    work, sp         \* of each thread, what it believes: its progress, its stack pointer

context_vars == <<cpu, stack, present, context, thread_current, state, irq, rax, reset, work, sp>>

AllThreads == Threads \cup {Idle}
stack_top == PageWords * StackPages
Words == 0..(stack_top - 1)
PageOf(a) == a \div PageWords
\* Values: every one is a tuple, so that any two can be compared.
Value(x) == <<x>>
Pointer(t, a) == <<"pointer", t, a>>
StackOf(p) == p[2]
WordOf(p) == p[3]
Junk == Value("junk")
Zero == Value("zero")
task_exit == Value("task_current_thread_exit")
IF_set == Value("IF")
kernel_cs == Value("GDT_KERNEL_CS")
kernel_ds == Value("GDT_KERNEL_DS")
entry_point == Value("entry_point")
Code == Value("code")
Here == thread_current

----------------------------------------------------------------------------
(* The order of the words of a frame.                                      *)

\* What is pushed by the processor, by the stub of a vector, and by
\* common_interrupt_handler.
Pushed == <<"ss", "rsp", "rflags", "cs", "rip",
            "error_code", "vector_number",
            "r15", "r14", "r13", "r12", "r11", "r10", "r9", "r8", "rbp", "stub_rsp",
            "rdi", "rsi", "rdx", "rcx", "rbx", "rax">>

\* Mutant: the word of rsp is not skipped.
Popped_NoSkip == <<"rax", "rbx", "rcx", "rdx", "rsi", "rdi", "rbp",
                   "r8", "r9", "r10", "r11", "r12", "r13", "r14", "r15", "skip", "skip", "skip",
                   "rip", "cs", "rflags", "rsp", "ss">>

\* What common_interrupt_handler and iretq pop; "skip" is 8 of an add to rsp.
Popped == <<"rax", "rbx", "rcx", "rdx", "rsi", "rdi", "skip", "rbp",
            "r8", "r9", "r10", "r11", "r12", "r13", "r14", "r15", "skip", "skip",
            "rip", "cs", "rflags", "rsp", "ss">>

\* struct cpu_status, from its lowest address.
general_purpose_registers == 0..15
Offset == [vector_number |-> 16, error_code |-> 17, rip |-> 18, cs |-> 19, rflags |-> 20,
           rsp |-> 21, ss |-> 22]
FrameWords == 23

AllRegisters == Range(Popped) \ {"skip"}
Registers == AllRegisters \ {"rip", "cs", "rflags", "rsp", "ss"}

\* A field of a frame, read through a struct cpu_status pointer.
Field(f, name) == stack[StackOf(f)][WordOf(f) + Offset[name]]

----------------------------------------------------------------------------
(* What a thread believes its registers and its part of the stack hold.    *)

Image(t, progress, a) == [r \in AllRegisters |->
    CASE r = "rip" -> CASE progress = "new"  -> entry_point
                        [] progress = "exit" -> task_exit
                        [] OTHER             -> Code
      [] r = "rsp"      -> Pointer(t, a)
      [] r = "rflags"   -> IF progress = "boot" THEN Zero ELSE IF_set
      [] r = "cs"       -> kernel_cs
      [] r = "ss"       -> kernel_ds
      [] r \in Registers -> IF progress = "new" THEN Zero ELSE <<t, r, progress>>]

Expected(t) == Image(t, work[t], sp[t])

\* The words from the stack pointer up: what the thread has pushed, and the
\* return address that task_create_thread has left, until it is used.
ExpectedWord(t, a) ==
    IF a = stack_top - 1 /\ t # Idle /\ work[t] # "exit" THEN task_exit ELSE <<t, a>>

ContextInit ==
    /\ thread_current = Idle
    /\ state = [t \in AllThreads |-> IF t = Idle THEN "RUNNING" ELSE "NONE"]
    /\ work = [t \in AllThreads |-> IF t = Idle THEN "boot" ELSE "new"]
    /\ sp = [t \in AllThreads |-> IF t = Idle THEN stack_top ELSE stack_top - 1]
    /\ cpu = Expected(Idle)
    /\ stack = [t \in AllThreads |-> [a \in Words |-> Junk]]
    /\ present = [t \in AllThreads |-> IF t = Idle THEN 0..(StackPages - 1) ELSE {}]
    /\ context = [t \in AllThreads |-> Pointer(t, stack_top)]
    /\ irq = "none" /\ rax = Junk /\ reset = FALSE

\* Whether the words from a down to b can be written.
Mapped(t, a, b) == \A w \in b..a : PageOf(w) \in present[t]

\* A push that faults cannot be saved: the fault is a double and a triple one.
Reset ==
    /\ reset' = TRUE
    /\ UNCHANGED <<cpu, stack, present, context, thread_current, state, irq, rax, work>>

----------------------------------------------------------------------------
(* task_create_thread: the stack of a new thread, as if the thread had     *)
(* been interrupted before its first instruction.  Writing the words maps  *)
(* their pages, by page faults that are taken on the stack of the creator. *)

ret_addr == stack_top - 1
status == ret_addr - FrameWords

status_Field == [vector_number |-> Zero, error_code |-> Zero, rip |-> entry_point, cs |-> kernel_cs,
                 rflags |-> IF_set, ss |-> kernel_ds]

NewStack(t) == [a \in Words |->
    CASE a = ret_addr -> task_exit
      [] a = status + Offset.rsp -> Pointer(t, ret_addr)
      [] a - status \in general_purpose_registers -> Zero
      [] \E f \in DOMAIN status_Field : a = status + Offset[f] ->
             status_Field[CHOOSE f \in DOMAIN status_Field : a = status + Offset[f]]
      [] OTHER -> Junk]

task_create_thread(t) ==
    /\ state[t] = "NONE"
    /\ stack' = [stack EXCEPT ![t] = NewStack(t)]
    /\ present' = [present EXCEPT ![t] = {PageOf(a) : a \in status..ret_addr}]
    /\ context' = [context EXCEPT ![t] = Pointer(t, status)]
    /\ state' = [state EXCEPT ![t] = "READY"]
    /\ UNCHANGED <<cpu, thread_current, irq, rax, reset, work, sp>>

----------------------------------------------------------------------------
(* What the threads themselves do.                                         *)

Runs == irq = "none" /\ ~reset /\ work[Idle] # "boot"

\* The last step of kmain, from which on it is the idle thread.
sti ==
    /\ work[Idle] = "boot"
    /\ work' = [work EXCEPT ![Idle] = "even"]
    /\ cpu' = [r \in AllRegisters |-> CASE r = "rflags" -> IF_set
                                        [] r \in Registers -> <<Idle, r, "even">>
                                        [] OTHER -> cpu[r]]
    /\ UNCHANGED <<stack, present, context, thread_current, state, irq, rax, reset, sp>>

\* A thread computes: it changes its registers.
compute ==
    /\ Runs /\ work[Here] \in {"new", "even", "odd"} /\ state[Here] = "RUNNING"
    /\ work' = [work EXCEPT ![Here] = IF @ = "even" THEN "odd" ELSE "even"]
    /\ cpu' = [r \in AllRegisters |-> CASE r = "rip" -> Code
                                        [] r \in Registers -> <<Here, r, work'[Here]>>
                                        [] OTHER -> cpu[r]]
    /\ UNCHANGED <<stack, present, context, thread_current, state, irq, rax, reset, sp>>

\* The stack pointer moves down to a, over words that are written.
PushTo(a) ==
    /\ stack' = [stack EXCEPT ![Here] = [w \in Words |-> IF w \in a..(sp[Here] - 1) THEN <<Here, w>> ELSE @[w]]]
    /\ cpu' = [cpu EXCEPT !.rsp = Pointer(Here, a)]
    /\ sp' = [sp EXCEPT ![Here] = a]
    /\ UNCHANGED <<present, context, thread_current, state, irq, rax, reset, work>>

push ==
    /\ Runs /\ Here # Idle /\ work[Here] \in {"even", "odd"}
    /\ \E d \in Depths :
          /\ ret_addr - d < sp[Here]
          /\ IF Mapped(Here, sp[Here] - 1, ret_addr - d)
             THEN PushTo(ret_addr - d)
             ELSE Reset /\ sp' = [sp EXCEPT ![Here] = ret_addr - d]

pop ==
    /\ Runs /\ Here # Idle /\ work[Here] \in {"even", "odd"}
    /\ \E d \in Depths :
          /\ ret_addr - d > sp[Here]
          /\ cpu' = [cpu EXCEPT !.rsp = Pointer(Here, ret_addr - d)]
          /\ sp' = [sp EXCEPT ![Here] = ret_addr - d]
          /\ stack' = [stack EXCEPT ![Here] = [w \in Words |-> IF w < ret_addr - d THEN Junk ELSE @[w]]]
    /\ UNCHANGED <<present, context, thread_current, state, irq, rax, reset, work>>

\* The function of the thread returns, to the address on top of its stack.
ret ==
    /\ Runs /\ Here # Idle /\ work[Here] \in {"even", "odd"} /\ sp[Here] = ret_addr
    /\ work' = [work EXCEPT ![Here] = "exit"]
    /\ sp' = [sp EXCEPT ![Here] = @ + 1]
    /\ cpu' = [r \in AllRegisters |-> CASE r = "rip" -> stack[Here][WordOf(cpu.rsp)]
                                        [] r = "rsp" -> Pointer(Here, WordOf(cpu.rsp) + 1)
                                        [] r \in Registers -> <<Here, r, "exit">>
                                        [] OTHER -> cpu[r]]
    /\ stack' = [stack EXCEPT ![Here][WordOf(cpu.rsp)] = Junk]
    /\ UNCHANGED <<present, context, thread_current, state, irq, rax, reset>>

\* task_current_thread_exit keeps irq_flags on the stack, then gives up.
exit_push ==
    /\ Runs /\ work[Here] = "exit" /\ sp[Here] = stack_top
    /\ PushTo(stack_top - 1)

task_current_thread_exit ==
    /\ Runs /\ work[Here] = "exit" /\ sp[Here] < stack_top
    /\ state[Here] = "RUNNING"
    /\ state' = [state EXCEPT ![Here] = "ZOMBIE"]
    /\ UNCHANGED <<cpu, stack, present, context, thread_current, irq, rax, reset, work, sp>>

----------------------------------------------------------------------------
(* An interrupt: the processor aligns the stack pointer to 16 bytes and    *)
(* pushes its words; the stub and common_interrupt_handler push theirs.    *)

PAGE_FAULT_VECTOR == Value("14")
LAPIC_TIMER_VECTOR == Value("32")
YIELD_VECTOR == Value("50")
SPURIOUS_VECTOR == Value("255")

Aligned(a) == a - (a % 2)

SavedWord(name, vector, error) ==
    CASE name = "vector_number" -> vector
      [] name = "error_code"    -> error
      [] name = "stub_rsp"      -> Junk
      [] OTHER                  -> cpu[name]

Interrupt(vector, error) ==
    LET top == Aligned(WordOf(cpu.rsp))
        low == top - Len(Pushed)
    IN IF Mapped(Here, top - 1, low)
       THEN /\ stack' = [stack EXCEPT ![Here] = [a \in Words |->
                            IF a \in low..(top - 1) THEN SavedWord(Pushed[top - a], vector, error)
                            ELSE @[a]]]
            /\ cpu' = [cpu EXCEPT !.rsp = Pointer(Here, low), !.rip = Value("interrupt_handler"),
                                  !.rflags = Zero]
            /\ irq' = "handler"
            /\ UNCHANGED <<present, context, thread_current, state, rax, reset, work, sp>>
       ELSE Reset /\ UNCHANGED sp

\* The LAPIC interrupts any thread; a thread yields, or touches a page of
\* some area for the first time.  A zombie only yields.
timer_interrupt == Runs /\ cpu.rflags = IF_set /\ Interrupt(LAPIC_TIMER_VECTOR, Zero)
spurious_interrupt == Runs /\ cpu.rflags = IF_set /\ Interrupt(SPURIOUS_VECTOR, Zero)
scheduler_yield == Runs /\ (work[Here] \in {"even", "odd"} \/ state[Here] = "ZOMBIE") /\ Interrupt(YIELD_VECTOR, Zero)
page_fault == Runs /\ work[Here] \in {"even", "odd"} /\ Interrupt(PAGE_FAULT_VECTOR, Value("error"))

----------------------------------------------------------------------------
(* interrupt_handler and what it calls use registers and stack freely.     *)

\* scheduler_schedule: any READY thread may be next (see Sched for which).
scheduler_schedule(f) ==
    LET paused == [state EXCEPT ![Here] = IF @ = "RUNNING" THEN "READY" ELSE @] IN
    /\ context' = [context EXCEPT ![Here] = f]
    /\ \E next \in {t \in AllThreads : paused[t] = "READY"} :
          /\ thread_current' = next
          /\ state' = [paused EXCEPT ![next] = "RUNNING"]
          /\ rax' = context'[next]

Same(f) == rax' = f /\ UNCHANGED <<context, thread_current, state>>

interrupt_handler ==
    LET f == cpu.rsp
        low == WordOf(f) - HandlerWords
        vector == Field(f, "vector_number")
    IN /\ irq = "handler" /\ ~reset
       /\ IF Mapped(Here, WordOf(f) - 1, low)
          THEN /\ stack' = [stack EXCEPT ![Here] = [a \in Words |-> IF a \in low..(WordOf(f) - 1) THEN Junk ELSE @[a]]]
               /\ cpu' = [r \in AllRegisters |-> IF r \in Registers THEN Junk ELSE cpu[r]]
               /\ irq' = "return"
               /\ CASE vector = LAPIC_TIMER_VECTOR -> Same(f) \/ scheduler_schedule(f)
                    [] vector = YIELD_VECTOR -> scheduler_schedule(f)
                    [] OTHER       -> Same(f)
               /\ UNCHANGED <<present, reset, work, sp>>
          ELSE Reset /\ UNCHANGED sp

\* The word of a register in a frame, as it is popped.
Place(r) == CHOOSE i \in DOMAIN Popped : Popped[i] = r
PoppedWord(f, r) == stack[StackOf(f)][WordOf(f) + Place(r) - 1]
Pop(f) == [r \in AllRegisters |-> PoppedWord(f, r)]

\* The rest of common_interrupt_handler, on the stack of rax.  What is left
\* below the new stack pointer is no longer anything.
iretq ==
    /\ irq = "return" /\ ~reset
    /\ cpu' = Pop(rax)
    /\ irq' = "none"
    /\ rax' = Junk
    /\ stack' = [stack EXCEPT ![Here] = [a \in Words |-> IF a < sp[Here] THEN Junk ELSE @[a]]]
    /\ UNCHANGED <<present, context, thread_current, state, reset, work, sp>>

----------------------------------------------------------------------------
(* kernel_idle_thread frees the area that contains the stack pointer in    *)
(* the frame of a zombie, with vmm_free.                                   *)

\* Mutant: the stack is looked up by the address where it ends, which is in
\* no area.
Area_Top(rsp) == {}

\* vmm_get_vm_area: the stack whose area contains an address.
Area(rsp) == IF WordOf(rsp) \in Words THEN {StackOf(rsp)} ELSE {}

reap(t) ==
    LET freed == Area(Field(context[t], "rsp")) IN
    /\ Runs /\ Here = Idle /\ t # Idle /\ state[t] = "ZOMBIE"
    /\ present' = [u \in AllThreads |-> IF u \in freed THEN {} ELSE present[u]]
    /\ stack' = [stack EXCEPT ![t] = [a \in Words |-> Junk]]
    /\ state' = [state EXCEPT ![t] = "REAPED"]
    /\ UNCHANGED <<cpu, context, thread_current, irq, rax, reset, work, sp>>

Run ==
    \/ compute \/ push \/ pop \/ ret \/ exit_push \/ task_current_thread_exit
    \/ timer_interrupt \/ spurious_interrupt \/ scheduler_yield \/ page_fault
    \/ interrupt_handler \/ iretq
    \/ \E t \in Threads : reap(t)

----------------------------------------------------------------------------

\* A thread that does not run has its registers in a frame, and the frame
\* is where it will be looked for.
Frame(t) == IF t # Here THEN context[t] ELSE IF irq = "handler" THEN cpu.rsp ELSE rax

\* Every thread gets back every register as it was when it was interrupted,
\* or as task_create_thread has set it, and every word it has on its stack,
\* whatever the handler and the other threads did in between; one that
\* returns finds itself in task_current_thread_exit.  The order of the pops
\* in isr.asm, that of the pushes and struct cpu_status must agree for that.
ContextIntact ==
    ~reset =>
        \A t \in AllThreads : state[t] \in {"READY", "RUNNING", "ZOMBIE"} =>
            /\ \A a \in sp[t]..(stack_top - 1) : stack[t][a] = ExpectedWord(t, a)
            /\ Expected(t) = IF t = Here /\ irq = "none" THEN cpu ELSE Pop(Frame(t))

\* The stack of a thread keeps its first page as long as the thread lives,
\* and loses all pages when it is reaped, through the stack pointer in the
\* frame of the zombie.  A thread that leaves room for a frame, its alignment
\* and the handler's words in that page, the only one task_create_thread
\* maps, never makes the processor reset.
StackSafe ==
    /\ \A t \in AllThreads :
          /\ state[t] \in {"READY", "RUNNING", "ZOMBIE"} => StackPages - 1 \in present[t]
          /\ state[t] = "REAPED" => present[t] = {}
    /\ sp[Here] - (StackPages - 1) * PageWords >= FrameWords + 1 + HandlerWords => ~reset

\* "the page fault handler will load the page as soon as the prcess accesses
\* those addresses" (vmm_alloc): a thread may use all pages of its stack,
\* THREAD_INITIAL_STACK_SIZE bytes, and the processor never resets.
NeverResets == ~reset

=============================================================================
