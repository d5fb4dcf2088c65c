---------------------------- MODULE LocksProofs ----------------------------
(***************************************************************************)
(* The ticket spinlock never spins on one processor and gives interrupts   *)
(* back, for any number of threads and any width of its counters.          *)
(*                                                                         *)
(* The inductive invariant says who can hold a ticket: nobody while        *)
(* interrupts are enabled, and otherwise at most one user, which is the    *)
(* thread on the processor or the handler.  It also says which flags are   *)
(* saved: those of a thread in vmm_alloc or vmm_free were enabled before   *)
(* the call and are disabled in the sections and frames within.            *)
(***************************************************************************)
EXTENDS MutexFifo, FiniteSetTheorems, NaturalsInduction, TLAPS

InSection(t) == pc[t] \in DOMAIN Sections
Idle_(l) == ticket[l] = turn[l]
Held(u, l) == turn[l] = myticket[u] /\ ticket[l] = Inc(turn[l])

Types ==
    /\ ticket \in [Locked -> 0..(Wrap - 1)]
    /\ turn \in [Locked -> 0..(Wrap - 1)]
    /\ IF_ \in BOOLEAN
    /\ irq \in {"none", "wake", "schedule"}
    /\ thread_current \in AllThreads
    /\ frame \in [AllThreads -> BOOLEAN]
    /\ flags \in [Users -> BOOLEAN]
    /\ myticket \in [Users -> 0..(Wrap - 1)]
    /\ pc \in [Threads -> Outside \cup DOMAIN Sections]
    /\ vas_lock \in Threads \cup {NULL}
    /\ vas_flags \in [Threads -> BOOLEAN]

\* The handler is at work: it has the only ticket, and no thread is in a section.
HandlerWorks ==
    /\ ~ IF_ /\ ~ flags[Handler]
    /\ Held(Handler, "scheduler_lock")
    /\ Idle_("internal_lock")
    /\ \A t \in Threads : ~ InSection(t)

\* The thread on the processor is in a section: it has the only ticket.
ThreadWorks(t) ==
    /\ t = thread_current
    /\ ~ IF_ /\ (flags[t] <=> vas_lock # t)
    /\ InSection(t)
    /\ \A l \in Locked : IF l = Sections[pc[t]] THEN Held(t, l) ELSE Idle_(l)
    /\ \A u \in Threads \ {t} : ~ InSection(u)

NobodyWorks ==
    /\ IF_ <=> ~ InVmm(thread_current)
    /\ \A l \in Locked : Idle_(l)
    /\ \A t \in Threads : ~ InSection(t)

\* Where the holder of the lock of the address space can be, and what it has saved.
\* Whoever waits for that lock does not leave the processor.
VasInv ==
    /\ \A t \in Threads : pc[t] \in {"vmm", "unlock"} => vas_lock = t
    /\ \A t \in Threads : vas_lock = t => pc[t] \notin {"out", "vas", "sleep", "asleep", "drowsy"}
    /\ \A t \in Threads : pc[t] = "vas" => t = thread_current /\ irq = "none"
    /\ \A t \in Threads : InVmm(t) => vas_flags[t]

Frames == \A t \in AllThreads : t # thread_current \/ irq # "none" => (frame[t] <=> vas_lock # t)

LInv ==
    /\ Types
    /\ VasInv
    /\ Frames
    /\ irq # "none" => HandlerWorks
    /\ irq = "none" => NobodyWorks \/ \E t \in Threads : ThreadWorks(t)

-----------------------------------------------------------------------------
(* Facts about the constants. *)

\* A counter stays in its width, and changes.
LEMMA IncFacts ==
    ASSUME NEW n \in 0..(Wrap - 1)
    PROVE  Inc(n) \in 0..(Wrap - 1) /\ Inc(n) # n
BY LocksAssumption DEF Inc

\* Which lock each section is under.
LEMMA SectionFacts ==
    /\ DOMAIN Sections = {"acquire", "taken", "queued", "release", "passed", "sleep", "asleep"}
    /\ \A place \in {"acquire", "taken", "queued", "release", "passed"} : Sections[place] = "internal_lock"
    /\ \A place \in {"sleep", "asleep"} : Sections[place] = "scheduler_lock"
    /\ \A place \in DOMAIN Sections : Sections[place] \in Locked
    /\ \A place \in Outside : place \notin DOMAIN Sections
BY DEF Sections, Outside, Locked

\* The handler and the idle thread are none of the threads.
LEMMA UserFacts == /\ Handler \notin Threads /\ Handler \in Users /\ Threads \subseteq Users
                   /\ Idle \notin Threads /\ Threads \subseteq AllThreads /\ Idle \in AllThreads
BY LocksAssumption DEF Handler, Users, AllThreads

-----------------------------------------------------------------------------
(* The address space. *)

\* A thread that keeps the lock of the address space, or does without, moves on.
LEMMA VasMove ==
    ASSUME LInv, NEW t \in Threads, irq = "none", thread_current = t, thread_current' = t, NEW place,
           pc' = [pc EXCEPT ![t] = place], UNCHANGED vas_vars, pc[t] # "vas", place # "vas",
           place \in {"vmm", "unlock"} => vas_lock = t,
           vas_lock = t => place \notin {"out", "sleep", "asleep", "drowsy"}
    PROVE  VasInv'
<1>1. pc'[t] = place /\ \A u \in Threads \ {t} : pc'[u] = pc[u]
  BY DEF LInv, Types
<1>2. \A u \in Threads : pc[u] # "vas" /\ pc'[u] # "vas"
  BY <1>1 DEF LInv, VasInv
<1>3. \A u \in Threads : InVmm(u)' => vas_flags'[u]
  BY <1>2 DEF LInv, VasInv, InVmm, vas_vars
<1> QED
  BY <1>1, <1>2, <1>3 DEF LInv, VasInv, vas_vars

\* A step that moves no thread while none waits for that lock.
LEMMA VasStill ==
    ASSUME LInv, pc' = pc, UNCHANGED vas_vars, \A t \in Threads : pc[t] # "vas"
    PROVE  VasInv'
<1>1. \A u \in Threads : InVmm(u)' => vas_flags'[u]
  BY DEF LInv, VasInv, InVmm, vas_vars
<1> QED
  BY <1>1 DEF LInv, VasInv, vas_vars

-----------------------------------------------------------------------------
(* The steps of the threads. *)

\* A thread takes a ticket: it was outside the sections, so that nobody else has
\* one, and saves the flags it found, which are disabled if it is in vmm_alloc.
LEMMA EnterSection ==
    ASSUME LInv, NEW t \in Threads, enter_section(t)
    PROVE  LInv'
<1>1. PICK move \in {<<"out", "acquire">>, <<"vmm", "acquire">>, <<"inside", "release">>, <<"out", "sleep">>} :
          At(t, move[1]) /\ Goto(t, move[2]) /\ take_ticket(t, Sections[move[2]])
  BY DEF enter_section
<1> DEFINE place == move[2]
           l == Sections[place]
<1>2. /\ pc[t] \in Outside /\ place \in DOMAIN Sections /\ l \in Locked
      /\ irq = "none" /\ thread_current = t /\ pc' = [pc EXCEPT ![t] = place]
      /\ pc[t] # "vas" /\ place \notin {"vas", "vmm", "unlock", "out", "asleep", "drowsy"}
      /\ place = "sleep" => pc[t] = "out"
  BY <1>1, SectionFacts DEF At, Goto, Outside
<1>3. NobodyWorks
  BY <1>2, SectionFacts DEF LInv, ThreadWorks, InSection
<1>4. /\ flags' = [flags EXCEPT ![t] = IF_]
      /\ IF_' = FALSE
      /\ ticket' = [ticket EXCEPT ![l] = Inc(@)]
      /\ myticket' = [myticket EXCEPT ![t] = ticket[l]]
      /\ turn' = turn
      /\ irq' = irq /\ thread_current' = thread_current /\ frame' = frame
      /\ UNCHANGED vas_vars
  BY <1>1 DEF take_ticket, enter_section, cpu_vars
<1>5. Types'
  BY <1>2, <1>4, IncFacts, UserFacts DEF LInv, Types, vas_vars
<1>7. VasInv'
  <2>1. vas_lock = t => place # "sleep"
    BY <1>2 DEF LInv, VasInv
  <2> QED
    BY <1>2, <1>4, <2>1, VasMove
<1>8. Frames'
  BY <1>4 DEF LInv, Frames, vas_vars
<1>6. ThreadWorks(t)'
  <2>1. \A k \in Locked : IF k = l THEN Held(t, k)' ELSE Idle_(k)'
    BY <1>2, <1>3, <1>4, UserFacts DEF LInv, Types, NobodyWorks, Held, Idle_
  <2>2. pc'[t] = place /\ InSection(t)'
    BY <1>2 DEF LInv, Types, InSection
  <2>3. \A u \in Threads \ {t} : ~ InSection(u)'
    BY <1>2, <1>3 DEF LInv, Types, InSection, NobodyWorks
  <2>4. flags'[t] <=> vas_lock' # t
    BY <1>2, <1>3, <1>4, UserFacts DEF LInv, Types, NobodyWorks, InVmm, vas_vars
  <2> QED
    BY <1>2, <1>4, <2>1, <2>2, <2>3, <2>4 DEF ThreadWorks
<1> QED
  BY <1>2, <1>4, <1>5, <1>6, <1>7, <1>8 DEF LInv

\* A thread that is in a section goes on to another place of the same section.
LEMMA InsideSection ==
    ASSUME LInv, NEW t \in Threads, irq = "none", thread_current = t,
           NEW place \in DOMAIN Sections, pc[t] \in DOMAIN Sections, Sections[place] = Sections[pc[t]],
           pc' = [pc EXCEPT ![t] = place], UNCHANGED lock_vars, UNCHANGED cpu_vars, UNCHANGED vas_vars
    PROVE  LInv'
<1>1. ThreadWorks(t)
  BY DEF LInv, NobodyWorks, ThreadWorks, InSection
<1>2. Types'
  BY DEF LInv, Types, lock_vars, cpu_vars, vas_vars
<1>3. pc'[t] = place /\ \A u \in Threads \ {t} : pc'[u] = pc[u]
  BY DEF LInv, Types
<1>4. ThreadWorks(t)'
  BY <1>1, <1>3 DEF ThreadWorks, InSection, Held, Idle_, lock_vars, cpu_vars, vas_vars
<1>5. VasInv'
  <2>1. pc[t] \notin Outside /\ place \notin Outside
    BY SectionFacts
  <2>2. place \in {"sleep", "asleep"} => pc[t] \in {"sleep", "asleep"}
    BY SectionFacts
  <2>3. vas_lock = t => place \notin {"out", "sleep", "asleep", "drowsy"}
    BY <2>1, <2>2 DEF LInv, VasInv, Outside
  <2>4. pc[t] # "vas" /\ place \notin {"vas", "vmm", "unlock"}
    BY <2>1 DEF Outside
  <2> QED
    BY <2>3, <2>4, VasMove DEF cpu_vars
<1>6. Frames'
  BY DEF LInv, Frames, cpu_vars, vas_vars
<1> QED
  BY <1>2, <1>4, <1>5, <1>6 DEF LInv, lock_vars, cpu_vars

\* A thread passes its turn on and restores its flags: nobody has a ticket.
LEMMA LeaveSection ==
    ASSUME LInv, NEW t \in Threads, leave_section(t)
    PROVE  LInv'
<1>1. PICK move \in {<<"taken", "inside">>, <<"queued", "yield">>, <<"asleep", "drowsy">>,
                     <<"passed", IF vas_lock = t THEN "unlock" ELSE "out">>} :
          At(t, move[1]) /\ Goto(t, move[2]) /\ spinlock_irq_release(t, Sections[move[1]])
  BY DEF leave_section
<1> DEFINE l == Sections[move[1]]
<1>2. /\ pc[t] = move[1] /\ move[1] \in DOMAIN Sections /\ move[2] \in Outside /\ l \in Locked
      /\ irq = "none" /\ thread_current = t /\ pc' = [pc EXCEPT ![t] = move[2]]
      /\ pc[t] # "vas" /\ move[2] \notin {"vas", "vmm", "sleep", "asleep"}
      /\ move[2] = "unlock" => vas_lock = t
      /\ move[2] = "out" => vas_lock # t
      /\ move[2] = "drowsy" => pc[t] = "asleep"
  BY <1>1, SectionFacts DEF At, Goto, Outside
<1>3. ThreadWorks(t)
  BY <1>2 DEF LInv, NobodyWorks, ThreadWorks, InSection
<1>4. /\ turn' = [turn EXCEPT ![l] = Inc(@)]
      /\ IF_' = flags[t]
      /\ ticket' = ticket
      /\ myticket' = [myticket EXCEPT ![t] = 0]
      /\ flags' = [flags EXCEPT ![t] = FALSE]
      /\ irq' = irq /\ thread_current' = thread_current /\ frame' = frame
      /\ UNCHANGED vas_vars
  BY <1>1 DEF spinlock_irq_release, Forget, leave_section, cpu_vars
<1>5. Types'
  BY <1>2, <1>4, IncFacts, UserFacts, LocksAssumption DEF LInv, Types, vas_vars
<1>7. VasInv'
  <2>1. vas_lock = t => move[2] # "drowsy"
    BY <1>2 DEF LInv, VasInv
  <2> QED
    BY <1>2, <1>4, <2>1, VasMove
<1>8. Frames'
  BY <1>4 DEF LInv, Frames, vas_vars
<1>6. NobodyWorks'
  <2>1. \A k \in Locked : Idle_(k)'
    BY <1>2, <1>3, <1>4 DEF LInv, Types, ThreadWorks, Held, Idle_
  <2>2. \A u \in Threads : ~ InSection(u)'
    BY <1>2, <1>3, SectionFacts DEF LInv, Types, InSection, ThreadWorks
  <2>3. IF_' <=> ~ InVmm(thread_current)'
    <3>1. pc'[t] # "vas"
      BY <1>2 DEF LInv, Types
    <3> QED
      BY <1>2, <1>3, <1>4, <3>1 DEF ThreadWorks, InVmm, vas_vars
  <2> QED
    BY <2>1, <2>2, <2>3 DEF NobodyWorks
<1> QED
  BY <1>2, <1>4, <1>5, <1>6, <1>7, <1>8 DEF LInv

-----------------------------------------------------------------------------
(* The interrupts. *)

\* An interrupt is accepted while nobody has a ticket.
LEMMA Interrupt ==
    ASSUME LInv, NobodyWorks, NEW stage \in {"wake", "schedule"}, interrupt(stage),
           IF_ <=> vas_lock # thread_current, VasInv',
           pc' \in [Threads -> Outside \cup DOMAIN Sections], \A t \in Threads : ~ InSection(t)'
    PROVE  LInv'
<1>1. /\ frame' = [frame EXCEPT ![thread_current] = IF_]
      /\ IF_' = FALSE /\ irq' = stage
      /\ flags' = [flags EXCEPT ![Handler] = FALSE]
      /\ ticket' = [ticket EXCEPT !["scheduler_lock"] = Inc(@)]
      /\ myticket' = [myticket EXCEPT ![Handler] = ticket["scheduler_lock"]]
      /\ turn' = turn /\ thread_current' = thread_current /\ UNCHANGED vas_vars
  BY DEF interrupt, handler_takes_ticket
<1>2. "scheduler_lock" \in Locked /\ "internal_lock" \in Locked
  BY DEF Locked
<1>3. Types'
  BY <1>1, <1>2, IncFacts, UserFacts DEF LInv, Types, vas_vars
<1>4. Frames'
  BY <1>1 DEF LInv, Types, Frames, vas_vars
<1>5. Held(Handler, "scheduler_lock")' /\ Idle_("internal_lock")'
  BY <1>1, <1>2, UserFacts DEF LInv, Types, NobodyWorks, Held, Idle_
<1>6. ~ IF_' /\ ~ flags'[Handler]
  BY <1>1, UserFacts DEF LInv, Types
<1> QED
  BY <1>1, <1>3, <1>4, <1>5, <1>6 DEF LInv, HandlerWorks

\* A thread yields outside the sections: the handler gets the only ticket.
LEMMA Yield ==
    ASSUME LInv, NEW t \in Threads, scheduler_yield(t)
    PROVE  LInv'
<1>1. PICK move \in {<<"yield", "wait">>, <<"drowsy", "out">>} : At(t, move[1]) /\ Goto(t, move[2])
  BY DEF scheduler_yield
<1>2. /\ pc[t] \in Outside /\ move[2] \in Outside /\ irq = "none" /\ thread_current = t
      /\ pc' = [pc EXCEPT ![t] = move[2]]
      /\ pc[t] # "vas" /\ move[2] \notin {"vas", "vmm", "unlock", "sleep", "asleep", "drowsy"}
      /\ move[2] = "out" => pc[t] = "drowsy"
  BY <1>1 DEF At, Goto, Outside
<1>3. NobodyWorks
  BY <1>2, SectionFacts DEF LInv, ThreadWorks, InSection
<1>4. /\ pc' \in [Threads -> Outside \cup DOMAIN Sections]
      /\ \A u \in Threads : ~ InSection(u)'
  BY <1>2, <1>3, SectionFacts DEF LInv, Types, InSection, NobodyWorks
<1>5. thread_current' = t /\ UNCHANGED vas_vars /\ interrupt("schedule")
  BY <1>2 DEF scheduler_yield, interrupt
<1>6. VasInv'
  <2>1. vas_lock = t => move[2] # "out"
    BY <1>2 DEF LInv, VasInv
  <2> QED
    BY <1>2, <1>5, <2>1, VasMove
<1>7. IF_ <=> vas_lock # thread_current
  BY <1>2, <1>3 DEF NobodyWorks, InVmm
<1> QED
  BY <1>3, <1>4, <1>5, <1>6, <1>7, Interrupt

\* The timer is accepted only while nobody has a ticket.
LEMMA Timer ==
    ASSUME LInv, timer_interrupt
    PROVE  LInv'
<1>1. NobodyWorks
  BY DEF LInv, timer_interrupt, ThreadWorks
<1>2. pc' = pc /\ UNCHANGED vas_vars /\ IF_ /\ interrupt("wake")
  BY DEF timer_interrupt, interrupt
<1>3. /\ pc' \in [Threads -> Outside \cup DOMAIN Sections]
      /\ \A u \in Threads : ~ InSection(u)'
  BY <1>1, <1>2 DEF LInv, Types, InSection, NobodyWorks
<1>4. ~ InVmm(thread_current)
  BY <1>1, <1>2 DEF NobodyWorks
<1>5. VasInv'
  <2>1. \A t \in Threads : pc[t] # "vas"
    BY <1>4 DEF LInv, VasInv, InVmm
  <2> QED
    BY <1>2, <2>1, VasStill
<1>6. IF_ <=> vas_lock # thread_current
  BY <1>2, <1>4 DEF InVmm
<1> QED
  BY <1>1, <1>2, <1>3, <1>5, <1>6, Interrupt

\* scheduler_wake_sleeping_threads gives its ticket back, and the handler ends or
\* takes the next ticket.
LEMMA Wake ==
    ASSUME LInv, wake
    PROVE  LInv'
<1>1. HandlerWorks
  BY DEF LInv, wake
<1>2. "scheduler_lock" \in Locked /\ "internal_lock" \in Locked /\ Locked = {"internal_lock", "scheduler_lock"}
  BY DEF Locked
<1>3. /\ turn' = [turn EXCEPT !["scheduler_lock"] = Inc(@)]
      /\ thread_current' = thread_current /\ frame' = frame /\ pc' = pc /\ UNCHANGED vas_vars
      /\ irq # "none"
  BY DEF wake
<1>4. \A t \in Threads : ~ InSection(t)'
  BY <1>1, <1>3 DEF HandlerWorks, InSection
<1>7. \A t \in Threads : pc[t] # "vas"
  BY <1>3 DEF LInv, VasInv
<1>8. VasInv'
  BY <1>3, <1>7, VasStill
<1>9. Frames'
  BY <1>3 DEF LInv, Frames, vas_vars
<1>5. CASE /\ irq' = "none" /\ IF_' = frame[thread_current] /\ Forget(Handler) /\ UNCHANGED ticket
  <2>1. Types'
    BY <1>2, <1>3, <1>5, IncFacts, UserFacts, LocksAssumption DEF LInv, Types, Forget, vas_vars
  <2>2. \A l \in Locked : Idle_(l)'
    BY <1>1, <1>2, <1>3, <1>5 DEF LInv, Types, HandlerWorks, Held, Idle_
  <2>3. IF_' <=> ~ InVmm(thread_current)'
    BY <1>3, <1>5, <1>7 DEF LInv, Types, Frames, InVmm, vas_vars
  <2> QED
    BY <1>3, <1>4, <1>5, <1>8, <1>9, <2>1, <2>2, <2>3 DEF LInv, NobodyWorks
<1>6. CASE /\ irq' = "schedule" /\ IF_' = flags[Handler] /\ handler_takes_ticket /\ UNCHANGED flags
  <2>1. /\ ticket' = [ticket EXCEPT !["scheduler_lock"] = Inc(@)]
        /\ myticket' = [myticket EXCEPT ![Handler] = ticket["scheduler_lock"]]
    BY <1>6 DEF handler_takes_ticket
  <2>2. Types'
    BY <1>2, <1>3, <1>6, <2>1, IncFacts, UserFacts DEF LInv, Types, vas_vars
  <2>3. Held(Handler, "scheduler_lock")' /\ Idle_("internal_lock")'
    BY <1>1, <1>2, <1>3, <2>1, UserFacts DEF LInv, Types, HandlerWorks, Held, Idle_
  <2>4. ~ IF_' /\ ~ flags'[Handler]
    BY <1>1, <1>6 DEF HandlerWorks
  <2> QED
    BY <1>3, <1>4, <1>6, <1>8, <1>9, <2>2, <2>3, <2>4 DEF LInv, HandlerWorks
<1> QED
  BY <1>5, <1>6 DEF wake

\* scheduler_schedule gives its ticket back and goes on in a thread with the flags
\* of its frame.
LEMMA Schedule ==
    ASSUME LInv, NEW t \in AllThreads, scheduler_schedule(t)
    PROVE  LInv'
<1>1. HandlerWorks
  BY DEF LInv, scheduler_schedule
<1>2. "scheduler_lock" \in Locked /\ Locked = {"internal_lock", "scheduler_lock"}
  BY DEF Locked
<1>3. /\ turn' = [turn EXCEPT !["scheduler_lock"] = Inc(@)]
      /\ irq' = "none" /\ thread_current' = t /\ IF_' = frame[t]
      /\ myticket' = [myticket EXCEPT ![Handler] = 0] /\ flags' = [flags EXCEPT ![Handler] = FALSE]
      /\ ticket' = ticket /\ frame' = frame /\ pc' = pc /\ UNCHANGED vas_vars /\ irq # "none"
  BY DEF scheduler_schedule, Forget
<1>4. Types'
  BY <1>2, <1>3, IncFacts, UserFacts, LocksAssumption DEF LInv, Types, vas_vars
<1>5. \A l \in Locked : Idle_(l)'
  BY <1>1, <1>2, <1>3 DEF LInv, Types, HandlerWorks, Held, Idle_
<1>6. \A u \in Threads : ~ InSection(u)'
  BY <1>1, <1>3 DEF HandlerWorks, InSection
<1>8. \A u \in Threads : pc[u] # "vas"
  BY <1>3 DEF LInv, VasInv
<1>7. IF_' <=> ~ InVmm(thread_current)'
  BY <1>3, <1>8 DEF LInv, Types, Frames, InVmm, vas_vars
<1>9. VasInv'
  BY <1>3, <1>8, VasStill
<1>10. Frames'
  BY <1>3 DEF LInv, Frames, vas_vars
<1> QED
  BY <1>3, <1>4, <1>5, <1>6, <1>7, <1>9, <1>10 DEF LInv, NobodyWorks

-----------------------------------------------------------------------------

\* A thread moves on outside the sections.
LEMMA OutsideSection ==
    ASSUME LInv, NEW t \in Threads, irq = "none", thread_current = t, pc[t] \in Outside,
           NEW place \in Outside, pc' = [pc EXCEPT ![t] = place],
           UNCHANGED <<ticket, turn, flags, myticket, cpu_vars>>, IF_' \in BOOLEAN,
           vas_lock' \in Threads \cup {NULL}, vas_flags' \in [Threads -> BOOLEAN],
           IF_' <=> ~ InVmm(t)', VasInv', \A u \in Threads \ {t} : vas_lock = u <=> vas_lock' = u
    PROVE  LInv'
<1>1. NobodyWorks
  BY SectionFacts DEF LInv, ThreadWorks, InSection
<1>2. Types'
  BY DEF LInv, Types, cpu_vars
<1>3. Frames'
  <2> SUFFICES ASSUME NEW u \in AllThreads, u # t PROVE frame'[u] <=> vas_lock' # u
    BY DEF Frames, cpu_vars
  <2>1. frame[u] <=> vas_lock # u
    BY DEF LInv, Frames
  <2>2. vas_lock = u <=> vas_lock' = u
    BY UserFacts, LocksAssumption DEF LInv, Types, AllThreads
  <2> QED
    BY <2>1, <2>2 DEF cpu_vars
<1>4. \A u \in Threads : ~ InSection(u)'
  BY <1>1, SectionFacts DEF LInv, Types, NobodyWorks, InSection
<1>5. NobodyWorks'
  BY <1>1, <1>4 DEF NobodyWorks, Idle_, cpu_vars
<1> QED
  BY <1>2, <1>3, <1>5 DEF LInv, cpu_vars

\* vmm_alloc and vmm_free disable interrupts and wait for the lock.
LEMMA VmmCall ==
    ASSUME LInv, NEW t \in Threads, vmm_call(t)
    PROVE  LInv'
<1>1. /\ pc[t] = "out" /\ irq = "none" /\ thread_current = t /\ pc' = [pc EXCEPT ![t] = "vas"]
      /\ UNCHANGED <<ticket, turn, flags, myticket, cpu_vars>> /\ ~ IF_' /\ IF_' \in BOOLEAN
      /\ vas_lock' = vas_lock /\ vas_flags' = [vas_flags EXCEPT ![t] = IF_]
  BY DEF vmm_call, At, Goto
<1>2. pc'[t] = "vas" /\ \A u \in Threads \ {t} : pc'[u] = pc[u] /\ vas_flags'[u] = vas_flags[u]
  BY <1>1 DEF LInv, Types
<1>3. NobodyWorks
  BY <1>1, SectionFacts DEF LInv, ThreadWorks, InSection, Outside
<1>4. IF_ /\ vas_flags'[t]
  BY <1>1, <1>3 DEF LInv, Types, NobodyWorks, InVmm, VasInv
<1>5. VasInv'
  BY <1>1, <1>2, <1>4 DEF LInv, VasInv, InVmm, cpu_vars
<1>6. InVmm(t)'
  BY <1>2 DEF InVmm
<1>7. pc[t] \in Outside /\ "vas" \in Outside
  BY <1>1 DEF Outside
<1>8. vas_lock' \in Threads \cup {NULL} /\ vas_flags' \in [Threads -> BOOLEAN]
  BY <1>1 DEF LInv, Types
<1> QED
  BY <1>1, <1>5, <1>6, <1>7, <1>8, OutsideSection

\* The lock is free: the thread holds it.
LEMMA VmmLock ==
    ASSUME LInv, NEW t \in Threads, vmm_lock(t)
    PROVE  LInv'
<1>1. /\ pc[t] = "vas" /\ irq = "none" /\ thread_current = t /\ pc' = [pc EXCEPT ![t] = "vmm"]
      /\ UNCHANGED <<ticket, turn, flags, myticket, cpu_vars>> /\ IF_' = IF_
      /\ vas_lock = NULL /\ vas_lock' = t /\ vas_flags' = vas_flags
  BY DEF vmm_lock, At, Goto, lock_vars
<1>2. pc'[t] = "vmm" /\ \A u \in Threads \ {t} : pc'[u] = pc[u]
  BY <1>1 DEF LInv, Types
<1>3. NobodyWorks
  BY <1>1, SectionFacts DEF LInv, ThreadWorks, InSection, Outside
<1>4. ~ IF_ /\ IF_ \in BOOLEAN /\ InVmm(t)'
  BY <1>1, <1>3 DEF LInv, Types, NobodyWorks, InVmm
<1>5. VasInv'
  BY <1>1, <1>2, LocksAssumption DEF LInv, VasInv, InVmm, cpu_vars
<1>6. pc[t] \in Outside /\ "vmm" \in Outside
  BY <1>1 DEF Outside
<1>7. vas_lock' \in Threads \cup {NULL} /\ vas_flags' \in [Threads -> BOOLEAN]
  BY <1>1 DEF LInv, Types
<1>8. \A u \in Threads \ {t} : vas_lock = u <=> vas_lock' = u
  BY <1>1, LocksAssumption
<1> QED
  BY <1>1, <1>4, <1>5, <1>6, <1>7, <1>8, OutsideSection

\* The lock is released and interrupts are enabled, as they were before the call.
LEMMA VmmUnlock ==
    ASSUME LInv, NEW t \in Threads, vmm_unlock(t)
    PROVE  LInv'
<1>1. /\ pc[t] \in {"vmm", "unlock"} /\ irq = "none" /\ thread_current = t /\ pc' = [pc EXCEPT ![t] = "out"]
      /\ UNCHANGED <<ticket, turn, flags, myticket, cpu_vars>> /\ IF_' = vas_flags[t]
      /\ vas_lock' = NULL /\ vas_flags' = [vas_flags EXCEPT ![t] = FALSE]
  BY DEF vmm_unlock, At, Goto
<1>2. pc'[t] = "out" /\ \A u \in Threads \ {t} : pc'[u] = pc[u] /\ vas_flags'[u] = vas_flags[u]
  BY <1>1 DEF LInv, Types
<1>3. vas_lock = t /\ vas_flags[t]
  BY <1>1 DEF LInv, VasInv, InVmm
<1>4. IF_' /\ IF_' \in BOOLEAN
  BY <1>1, <1>3 DEF LInv, Types
<1>5. ~ InVmm(t)'
  BY <1>1, <1>2, LocksAssumption DEF InVmm
<1>6. \A u \in Threads : pc[u] # "vas" /\ pc'[u] # "vas"
  BY <1>1, <1>2 DEF LInv, VasInv
<1>7. VasInv'
  BY <1>1, <1>2, <1>3, <1>6, LocksAssumption DEF LInv, VasInv, InVmm
<1>8. pc[t] \in Outside /\ "out" \in Outside
  BY <1>1 DEF Outside
<1>9. vas_lock' \in Threads \cup {NULL} /\ vas_flags' \in [Threads -> BOOLEAN]
  BY <1>1 DEF LInv, Types
<1>10. \A u \in Threads \ {t} : vas_lock = u <=> vas_lock' = u
  BY <1>1, <1>3, LocksAssumption
<1> QED
  BY <1>1, <1>4, <1>5, <1>7, <1>8, <1>9, <1>10, OutsideSection

\* A thread that returns from its yield takes no ticket.
LEMMA Resume ==
    ASSUME LInv, NEW t \in Threads, resume(t)
    PROVE  LInv'
<1>1. /\ pc[t] \in Outside /\ irq = "none" /\ thread_current = t /\ "inside" \in Outside
      /\ pc[t] = "wait" /\ pc' = [pc EXCEPT ![t] = "inside"]
      /\ UNCHANGED <<ticket, turn, flags, myticket, cpu_vars>> /\ IF_' = IF_ /\ UNCHANGED vas_vars
  BY DEF resume, At, Goto, Outside, lock_vars
<1>2. NobodyWorks
  BY <1>1, SectionFacts DEF LInv, ThreadWorks, InSection
<1>3. VasInv'
  BY <1>1, VasMove DEF cpu_vars
<1>4. pc'[t] = "inside"
  BY <1>1 DEF LInv, Types
<1>5. IF_' \in BOOLEAN /\ (IF_' <=> ~ InVmm(t)')
  BY <1>1, <1>2, <1>4 DEF LInv, Types, NobodyWorks, InVmm, vas_vars
<1>6. vas_lock' = vas_lock /\ vas_lock' \in Threads \cup {NULL} /\ vas_flags' \in [Threads -> BOOLEAN]
  BY <1>1 DEF LInv, Types, vas_vars
<1> QED
  BY <1>1, <1>3, <1>5, <1>6, OutsideSection

\* Nobody has a ticket at first.
LEMMA LInvInit == Init => LInv
<1> SUFFICES ASSUME Init PROVE LInv
  OBVIOUS
<1>1. Types
  BY LocksAssumption, UserFacts DEF Init, Types, Outside
<1>2. VasInv /\ Frames /\ ~ InVmm(Idle)
  BY UserFacts, LocksAssumption DEF Init, VasInv, Frames, InVmm, AllThreads
<1>3. NobodyWorks
  BY <1>2, SectionFacts DEF Init, NobodyWorks, Idle_, InSection, Outside
<1> QED
  BY <1>1, <1>2, <1>3 DEF LInv, Init

\* Every step of a thread or of a handler keeps the invariant.
LEMMA LInvNext == LInv /\ [Next]_vars => LInv'
<1> SUFFICES ASSUME LInv, [Next]_vars PROVE LInv'
  OBVIOUS
<1>1. ASSUME NEW t \in Threads, step(t) PROVE LInv'
  <2>1. CASE enter_section(t)
    BY <2>1, EnterSection
  <2>2. CASE take(t)
    BY <2>2, InsideSection, SectionFacts DEF take, At, Goto
  <2>3. CASE enqueue(t)
    BY <2>3, InsideSection, SectionFacts DEF enqueue, At, Goto
  <2>4. CASE pass_on(t)
    BY <2>4, InsideSection, SectionFacts DEF pass_on, At, Goto
  <2>5. CASE thread_sleep(t)
    BY <2>5, InsideSection, SectionFacts DEF thread_sleep, At, Goto
  <2>6. CASE leave_section(t)
    BY <2>6, LeaveSection
  <2>7. CASE scheduler_yield(t)
    BY <2>7, Yield
  <2>8. CASE resume(t)
    BY <2>8, Resume
  <2> QED
    BY <1>1, <2>1, <2>2, <2>3, <2>4, <2>5, <2>6, <2>7, <2>8, VmmCall, VmmLock, VmmUnlock DEF step
<1>2. CASE UNCHANGED vars
  BY <1>2 DEF vars, lock_vars, cpu_vars, vas_vars, LInv, Types, HandlerWorks, ThreadWorks, NobodyWorks,
              InSection, Held, Idle_, VasInv, Frames, InVmm
<1> QED
  BY <1>1, <1>2, Timer, Wake, Schedule DEF Next

\* The variables keep their types: what the spinlock and its users store in the
\* counters, the saved flags, the thread states and the queue of the mutex.
THEOREM LocksTypeCorrect == Spec => []TypeOK
<1>1. Init => TypeOK
  <2> SUFFICES ASSUME Init PROVE TypeOK
    OBVIOUS
  <2>1. 0 \in 0..(Wrap - 1)
    BY LocksAssumption
  <2>2. /\ ticket \in [Locked -> 0..(Wrap - 1)] /\ turn \in [Locked -> 0..(Wrap - 1)]
        /\ myticket \in [Users -> 0..(Wrap - 1)]
    BY <2>1 DEF Init
  <2>3. state \in [AllThreads -> {"READY", "RUNNING", "SLEEPING", "BLOCKED"}]
    BY DEF Init
  <2>4. pc \in [Threads -> Outside \cup DOMAIN Sections]
    BY DEF Init, Outside
  <2> QED
    BY <2>2, <2>3, <2>4, UserFacts DEF Init, TypeOK
<1>2. TypeOK /\ [Next]_vars => TypeOK'
  <2> SUFFICES ASSUME TypeOK, [Next]_vars PROVE TypeOK'
    OBVIOUS
  <2>1. ASSUME NEW t \in Threads, enter_section(t) PROVE TypeOK'
    <3>1. PICK place \in DOMAIN Sections : Goto(t, place) /\ take_ticket(t, Sections[place])
      BY <2>1, SectionFacts DEF enter_section
    <3>2. Sections[place] \in Locked
      BY SectionFacts
    <3>3. /\ ticket' \in [Locked -> 0..(Wrap - 1)] /\ turn' = turn
          /\ myticket' \in [Users -> 0..(Wrap - 1)] /\ flags' \in [Users -> BOOLEAN] /\ IF_' \in BOOLEAN
          /\ pc' \in [Threads -> Outside \cup DOMAIN Sections]
      BY <3>1, <3>2, IncFacts, UserFacts DEF TypeOK, take_ticket, Goto
    <3> QED
      BY <2>1, <3>3 DEF TypeOK, enter_section, mutex_vars, queue_vars, cpu_vars, vas_vars
  <2>2. ASSUME NEW t \in Threads, take(t) PROVE TypeOK'
    BY <2>2, SectionFacts DEF TypeOK, take, Goto, lock_vars, queue_vars, cpu_vars, vas_vars
  <2>3. ASSUME NEW t \in Threads, enqueue(t) PROVE TypeOK'
    <3>1. state' \in [AllThreads -> {"READY", "RUNNING", "SLEEPING", "BLOCKED"}]
      BY <2>3 DEF TypeOK, enqueue
    <3>2. /\ waiting_queue_head' \in Threads \cup {NULL} /\ waiting_queue_tail' \in Threads \cup {NULL}
          /\ next_waiter' \in [Threads -> Threads \cup {NULL}]
      BY <2>3 DEF TypeOK, enqueue
    <3>3. pc' \in [Threads -> Outside \cup DOMAIN Sections]
      BY <2>3, SectionFacts DEF TypeOK, enqueue, Goto
    <3> QED
      BY <2>3, <3>1, <3>2, <3>3 DEF TypeOK, enqueue, lock_vars, cpu_vars, vas_vars
  <2>4. ASSUME NEW t \in Threads, pass_on(t) PROVE TypeOK'
    <3>1. /\ state' \in [AllThreads -> {"READY", "RUNNING", "SLEEPING", "BLOCKED"}] /\ is_locked' \in BOOLEAN
          /\ waiting_queue_head' \in Threads \cup {NULL} /\ waiting_queue_tail' \in Threads \cup {NULL}
      BY <2>4 DEF TypeOK, pass_on, Woken, TailAfter
    <3>2. pc' \in [Threads -> Outside \cup DOMAIN Sections]
      BY <2>4, SectionFacts DEF TypeOK, pass_on, Goto
    <3> QED
      BY <2>4, <3>1, <3>2 DEF TypeOK, pass_on, lock_vars, cpu_vars, vas_vars
  <2>5. ASSUME NEW t \in Threads, thread_sleep(t) PROVE TypeOK'
    BY <2>5, SectionFacts DEF TypeOK, thread_sleep, Goto, lock_vars, mutex_vars, queue_vars, cpu_vars, vas_vars
  <2>6. ASSUME NEW t \in Threads, leave_section(t) PROVE TypeOK'
    <3>1. PICK place \in DOMAIN Sections : spinlock_irq_release(t, Sections[place])
      BY <2>6, SectionFacts DEF leave_section
    <3>2. Sections[place] \in Locked
      BY SectionFacts
    <3>3. /\ turn' \in [Locked -> 0..(Wrap - 1)] /\ ticket' = ticket
          /\ myticket' \in [Users -> 0..(Wrap - 1)] /\ flags' \in [Users -> BOOLEAN] /\ IF_' \in BOOLEAN
      BY <3>1, <3>2, IncFacts, UserFacts, LocksAssumption DEF TypeOK, spinlock_irq_release, Forget
    <3>4. pc' \in [Threads -> Outside \cup DOMAIN Sections]
      BY <2>6 DEF TypeOK, leave_section, Goto, Outside
    <3> QED
      BY <2>6, <3>3, <3>4 DEF TypeOK, leave_section, mutex_vars, queue_vars, cpu_vars, vas_vars
  <2>7. ASSUME NEW t \in Threads, scheduler_yield(t) PROVE TypeOK'
    <3>1. pc' \in [Threads -> Outside \cup DOMAIN Sections]
      BY <2>7 DEF TypeOK, scheduler_yield, Goto, Outside
    <3> QED
      BY <2>7, <3>1, IncFacts, UserFacts
         DEF TypeOK, scheduler_yield, interrupt, handler_takes_ticket, Locked, mutex_vars, queue_vars, vas_vars
  <2>8. ASSUME NEW t \in Threads, resume(t) PROVE TypeOK'
    BY <2>8 DEF TypeOK, resume, Goto, Outside, lock_vars, mutex_vars, queue_vars, cpu_vars, vas_vars
  <2>9. CASE timer_interrupt
    BY <2>9, IncFacts, UserFacts
       DEF TypeOK, timer_interrupt, interrupt, handler_takes_ticket, Locked, mutex_vars, queue_vars, vas_vars
  <2>10. CASE wake
    <3>1. state' \in [AllThreads -> {"READY", "RUNNING", "SLEEPING", "BLOCKED"}]
      BY <2>10 DEF TypeOK, wake
    <3>2. /\ ticket' \in [Locked -> 0..(Wrap - 1)] /\ turn' \in [Locked -> 0..(Wrap - 1)]
          /\ myticket' \in [Users -> 0..(Wrap - 1)]
      BY <2>10, IncFacts, UserFacts, LocksAssumption DEF TypeOK, wake, handler_takes_ticket, Forget, Locked
    <3>3. /\ flags' \in [Users -> BOOLEAN] /\ IF_' \in BOOLEAN /\ irq' \in {"none", "wake", "schedule"}
      BY <2>10, UserFacts DEF TypeOK, wake, Forget
    <3> QED
      BY <2>10, <3>1, <3>2, <3>3 DEF TypeOK, wake, mutex_vars, queue_vars, vas_vars
  <2>11. ASSUME NEW t \in AllThreads, scheduler_schedule(t) PROVE TypeOK'
    BY <2>11, IncFacts, UserFacts, LocksAssumption
       DEF TypeOK, scheduler_schedule, Paused, Forget, Locked, mutex_vars, queue_vars, vas_vars
  <2>13. ASSUME NEW t \in Threads, vmm_call(t) \/ vmm_lock(t) \/ vmm_unlock(t) PROVE TypeOK'
    <3>1. /\ pc' \in [Threads -> Outside \cup DOMAIN Sections] /\ IF_' \in BOOLEAN
          /\ vas_lock' \in Threads \cup {NULL} /\ vas_flags' \in [Threads -> BOOLEAN]
      BY <2>13 DEF TypeOK, vmm_call, vmm_lock, vmm_unlock, Goto, Outside, lock_vars
    <3>2. UNCHANGED <<ticket, turn, flags, myticket, cpu_vars, state, mutex_vars>>
      BY <2>13 DEF vmm_call, vmm_lock, vmm_unlock, lock_vars
    <3> QED
      BY <3>1, <3>2 DEF TypeOK, mutex_vars, queue_vars, cpu_vars
  <2>12. CASE UNCHANGED vars
    BY <2>12 DEF TypeOK, vars, lock_vars, cpu_vars, mutex_vars, queue_vars, vas_vars
  <2> QED
    BY <2>1, <2>2, <2>3, <2>4, <2>5, <2>6, <2>7, <2>8, <2>9, <2>10, <2>11, <2>12, <2>13 DEF Next, step
<1> QED
  BY <1>1, <1>2, PTL DEF Spec

\* spinlock_irq_acquire never waits: a ticket is taken only when it is its turn,
\* in threads and in the interrupt handler, for any number of threads and any
\* width of the counters.
THEOREM SpinFree == Spec => []NeverSpins
<1>1. LInv => NeverSpins
  <2> SUFFICES ASSUME LInv, NEW l \in Locked, NEW u \in Users, Wants(u, l) PROVE MyTurn(u, l)
    BY DEF NeverSpins
  <2>1. CASE u = Handler
    BY <2>1 DEF Wants, LInv, HandlerWorks, Held, MyTurn
  <2>2. CASE u # Handler
    <3>1. u \in Threads /\ InSection(u) /\ l = Sections[pc[u]]
      BY <2>2 DEF Users, Wants, InSection
    <3>2. ThreadWorks(u)
      BY <3>1 DEF LInv, HandlerWorks, NobodyWorks, ThreadWorks, Types
    <3> QED
      BY <3>1, <3>2 DEF ThreadWorks, Held, MyTurn
  <2> QED
    BY <2>1, <2>2
<1> QED
  BY <1>1, LInvInit, LInvNext, PTL DEF Spec

\* spinlock_irq_release gives interrupts back when the outermost section ends and no
\* sooner: also in the mutex that vmm_alloc and vmm_free take with interrupts disabled,
\* and across the switch to another thread and back that may happen there.
THEOREM InterruptsComeBack == Spec => []InterruptsRestored
<1>1. LInv => InterruptsRestored
  <2> SUFFICES ASSUME LInv PROVE InterruptsRestored
    OBVIOUS
  <2>4. \A t \in AllThreads : t # thread_current \/ irq # "none" => (frame[t] <=> vas_lock # t)
    BY DEF LInv, Frames
  <2>1. CASE irq # "none"
    <3>1. Wants(Handler, "scheduler_lock") /\ Handler \in Users /\ "scheduler_lock" \in Locked
      BY <2>1, UserFacts DEF Wants, Locked
    <3> QED
      BY <2>1, <2>4, <3>1 DEF InterruptsRestored, LInv, HandlerWorks
  <2>2. CASE irq = "none" /\ NobodyWorks
    <3>1. \A l \in Locked : \A u \in Users : ~ Wants(u, l)
      BY <2>2 DEF Wants, Users, NobodyWorks, InSection
    <3> QED
      BY <2>2, <2>4, <3>1 DEF InterruptsRestored, LInv, NobodyWorks
  <2>3. ASSUME irq = "none", NEW t \in Threads, ThreadWorks(t) PROVE InterruptsRestored
    <3>1. Wants(t, Sections[pc[t]]) /\ t \in Users /\ Sections[pc[t]] \in Locked
      BY <2>3, UserFacts, SectionFacts DEF Wants, ThreadWorks, InSection
    <3> QED
      BY <2>3, <2>4, <3>1 DEF InterruptsRestored, LInv, ThreadWorks
  <2> QED
    BY <2>1, <2>2, <2>3 DEF LInv
<1> QED
  BY <1>1, LInvInit, LInvNext, PTL DEF Spec

-----------------------------------------------------------------------------
(* The queue of the mutex. *)

\* A set of natural numbers has a least element.
LEMMA Least ==
    ASSUME NEW T \in SUBSET Nat, T # {}
    PROVE  \E n \in T : \A m \in T : n <= m
<1> DEFINE R == OpToRel(<, Nat)
<1>1. IsWellFoundedOn(R, Nat)
  BY NatLessThanWellFounded
<1>2. \A x, y \in Nat : x < y => <<x, y>> \in R
  BY DEF OpToRel
<1> HIDE DEF R
<1>3. PICK x \in T : \A y \in T : ~ (<<y, x>> \in R)
  BY <1>1, WFMin
<1>4. ASSUME NEW y \in T PROVE x <= y
  <2>1. x \in Nat /\ y \in Nat /\ ~ (y < x)
    BY <1>2, <1>3
  <2> QED
    BY <2>1
<1> QED
  BY <1>4

\* Two ways from the head to the end have the same threads at the same places:
\* at the first place where they differed, the pointer before it would differ.
LEMMA OneWay ==
    ASSUME NEW p \in Seq(Threads), NEW q \in Seq(Threads), NEW head, NEW next,
           Linked(p, head, next), Linked(q, head, next)
    PROVE  \A n \in 1..Len(p) : n <= Len(q) /\ p[n] = q[n]
<1> DEFINE T == {n \in Nat : n \in 1..Len(p) /\ ~ (n <= Len(q) /\ p[n] = q[n])}
<1> SUFFICES ASSUME T # {} PROVE FALSE
  OBVIOUS
<1>1. PICK n \in T : \A m \in T : n <= m
  BY Least
<1>2. n \in Nat /\ n \in 1..Len(p) /\ ~ (n <= Len(q) /\ p[n] = q[n]) /\ Len(p) \in Nat /\ Len(q) \in Nat
  BY <1>1
<1>3. p[n] \in Threads /\ p[n] # NULL
  BY <1>2, LocksAssumption
<1>4. CASE n = 1
  <2>1. p # <<>> /\ head = p[1]
    BY <1>2, <1>4 DEF Linked
  <2>2. q # <<>> /\ head = q[1]
    BY <1>3, <1>4, <2>1 DEF Linked
  <2>3. Len(q) >= 1
    BY <1>2, <2>2
  <2> QED
    BY <1>2, <1>4, <2>1, <2>2, <2>3
<1>5. CASE n # 1
  <2>1. n - 1 \in Nat /\ n - 1 \in 1..Len(p) /\ n - 1 < Len(p) /\ (n - 1) + 1 = n /\ n - 1 < n
    BY <1>2, <1>5
  <2>2. n - 1 <= Len(q) /\ p[n - 1] = q[n - 1]
    BY <1>1, <1>2, <2>1
  <2>3. next[p[n - 1]] = p[n]
    BY <2>1 DEF Linked
  <2>4. n - 1 \in 1..Len(q)
    BY <1>2, <2>1, <2>2
  <2>5. next[q[n - 1]] = IF n - 1 < Len(q) THEN q[(n - 1) + 1] ELSE NULL
    BY <2>4 DEF Linked
  <2>6. n - 1 < Len(q) /\ q[n] = p[n]
    BY <1>3, <2>1, <2>2, <2>3, <2>5
  <2> QED
    BY <1>2, <2>6
<1> QED
  BY <1>4, <1>5

Distinct(q) == \A i, j \in 1..Len(q) : q[i] = q[j] => i = j

\* A queue without repetition is what the pointers lead along.
LEMMA QueueIs ==
    ASSUME NEW q \in Seq(Threads), Distinct(q), NEW head, NEW next, Linked(q, head, next)
    PROVE  (CHOOSE r \in Queues : Linked(r, head, next)) = q
<1> DEFINE r == CHOOSE s \in Queues : Linked(s, head, next)
<1>1. q \in Queues
  <2>1. q \in [1..Len(q) -> Threads] /\ Len(q) \in Nat
    OBVIOUS
  <2>2. q \in Injection(1..Len(q), Threads)
    BY <2>1 DEF Injection, IsInjective, Distinct
  <2>3. Cardinality(1..Len(q)) <= Cardinality(Threads) /\ Cardinality(Threads) \in Nat
    BY <2>2, FS_Injection, FS_CardinalityType, LocksAssumption
  <2>4. Cardinality(1..Len(q)) = IF 1 > Len(q) THEN 0 ELSE Len(q) - 1 + 1
    BY <2>1, 1 \in Int, Len(q) \in Int, FS_Interval
  <2>5. Len(q) \in 0..Cardinality(Threads)
    BY <2>1, <2>3, <2>4
  <2> QED
    BY <2>1, <2>5 DEF Queues
<1>2. r \in Queues /\ Linked(r, head, next)
  BY <1>1
<1>3. r \in Seq(Threads)
  BY <1>2, FS_CardinalityType, LocksAssumption DEF Queues
<1> HIDE DEF r
<1>4. /\ \A n \in 1..Len(q) : n <= Len(r) /\ q[n] = r[n]
      /\ \A n \in 1..Len(r) : n <= Len(q) /\ r[n] = q[n]
  BY <1>2, <1>3, OneWay
<1>5. Len(q) \in Nat /\ Len(r) \in Nat
  BY <1>3
<1>6. Len(q) = Len(r)
  BY <1>4, <1>5
<1>7. r = q
  BY <1>3, <1>4, <1>6
<1> QED
  BY <1>7 DEF r

-----------------------------------------------------------------------------
(* The mutex. *)

Blocked(t) == state[t] = "BLOCKED"

\* The waiters in the order of the pointers: each waits once, and they are the
\* threads that are BLOCKED.
Waiters(q) ==
    /\ Distinct(q)
    /\ Linked(q, waiting_queue_head, next_waiter)
    /\ waiting_queue_tail = IF q = <<>> THEN NULL ELSE q[Len(q)]
    /\ \A t \in Threads : Blocked(t) <=> \E i \in 1..Len(q) : q[i] = t

\* The inductive invariant.  A thread is BLOCKED only on its way from the queue
\* to the end of its yield, which it does not reach on the processor.  The mutex
\* is locked as long as it has an owner, of which there is one at most, and has
\* waiters only then.
MInv ==
    /\ \E q \in Seq(Threads) : Waiters(q)
    /\ \A t \in Threads : Blocked(t) => pc[t] \in {"queued", "yield", "wait"}
    /\ \A t \in Threads : pc[t] = "queued" => Blocked(t)
    /\ \A t \in Threads : thread_current = t /\ irq # "schedule" /\ pc[t] = "wait" => ~ Blocked(t)
    /\ is_locked <=> Owners # {}
    /\ \A t, u \in Owners : t = u
    /\ ~ is_locked => waiting_queue_head = NULL

\* What a step of the code is for the mutex.
FifoStep == Fifo!Next \/ UNCHANGED <<Owner, Queue>>

\* The queue that the pointers stand for.
LEMMA QueueOf ==
    ASSUME NEW q \in Seq(Threads), Waiters(q)
    PROVE  Queue = q
BY QueueIs DEF Waiters, Queue

\* The same after a step.
LEMMA QueueOfNext ==
    ASSUME NEW q \in Seq(Threads), Waiters(q)'
    PROVE  Queue' = q
BY QueueIs DEF Waiters, Queue

\* A step that neither changes who is BLOCKED nor who owns the mutex is none for
\* the mutex.
LEMMA Unseen ==
    ASSUME MInv, UNCHANGED mutex_vars, \A t \in Threads : Blocked(t)' <=> Blocked(t),
           Owners' = Owners,
           \A t \in Threads : Blocked(t)' => pc'[t] \in {"queued", "yield", "wait"},
           \A t \in Threads : pc'[t] = "queued" => Blocked(t)',
           \A t \in Threads : thread_current' = t /\ irq' # "schedule" /\ pc'[t] = "wait" => ~ Blocked(t)'
    PROVE  MInv' /\ FifoStep
<1>1. PICK q \in Seq(Threads) : Waiters(q)
  BY DEF MInv
<1>2. Waiters(q)'
  BY <1>1 DEF Waiters, mutex_vars, queue_vars
<1>3. Owner' = Owner
  BY DEF Owner
<1>4. Queue' = Queue
  BY <1>1, <1>2, QueueOf, QueueOfNext
<1>5. MInv'
  BY <1>2 DEF MInv, mutex_vars, queue_vars
<1> QED
  BY <1>3, <1>4, <1>5 DEF FifoStep

\* Where a thread goes on from outside the bodies of the sections.
Move(from, to) ==
    \/ from = "out" /\ to \in {"vas", "acquire", "sleep"}
    \/ from = "vas" /\ to = "vmm"
    \/ from = "vmm" /\ to = "acquire"
    \/ from = "passed" /\ to = "unlock"
    \/ from \in {"vmm", "unlock"} /\ to = "out"
    \/ from = "inside" /\ to = "release"
    \/ from \in {"taken", "wait"} /\ to = "inside"
    \/ from = "queued" /\ to = "yield"
    \/ from = "yield" /\ to = "wait"
    \/ from = "asleep" /\ to = "drowsy"
    \/ from \in {"passed", "drowsy"} /\ to = "out"

\* The steps of a thread between the bodies of the sections.
LEMMA MovesUnseen ==
    ASSUME MInv, TypeOK, NEW t \in Threads, irq = "none", thread_current = t, NEW place,
           Move(pc[t], place),
           pc' = [pc EXCEPT ![t] = place], state' = state, thread_current' = t,
           place = "wait" => irq' = "schedule", UNCHANGED mutex_vars
    PROVE  MInv' /\ FifoStep
<1>1. pc'[t] = place /\ \A u \in Threads \ {t} : pc'[u] = pc[u]
  BY DEF TypeOK
<1>2. \A u \in Threads : Blocked(u)' <=> Blocked(u)
  BY DEF Blocked
<1>3. Blocked(t) => pc[t] \in {"queued", "yield"}
  BY DEF MInv, Move
<1>4. pc[t] = "queued" => Blocked(t)
  BY DEF MInv
<1>5. \A u \in Threads : u \in Owners' <=> u \in Owners
  BY <1>1, <1>3, <1>4 DEF Owners, Blocked, Move
<1>6. Owners' = Owners
  BY <1>5 DEF Owners
<1>7. \A u \in Threads : Blocked(u)' => pc'[u] \in {"queued", "yield", "wait"}
  BY <1>1, <1>2, <1>3 DEF MInv, Move
<1>8. \A u \in Threads : pc'[u] = "queued" => Blocked(u)'
  BY <1>1, <1>2 DEF MInv, Move
<1>9. \A u \in Threads : thread_current' = u /\ irq' # "schedule" /\ pc'[u] = "wait" => ~ Blocked(u)'
  BY <1>1
<1> QED
  BY <1>2, <1>6, <1>7, <1>8, <1>9, Unseen

\* The steps of the handlers, which make no thread BLOCKED and wake none that is.
LEMMA HandlersUnseen ==
    ASSUME MInv, pc' = pc, \A u \in Threads : Blocked(u)' <=> Blocked(u), UNCHANGED mutex_vars,
           \A u \in Threads : thread_current' = u /\ irq' # "schedule" =>
              \/ ~ Blocked(u)
              \/ thread_current = u /\ irq # "schedule"
    PROVE  MInv' /\ FifoStep
<1>1. \A u \in Threads : u \in Owners' <=> u \in Owners
  BY DEF Owners, Blocked
<1>2. Owners' = Owners
  BY <1>1 DEF Owners
<1>3. \A u \in Threads : thread_current' = u /\ irq' # "schedule" /\ pc'[u] = "wait" => ~ Blocked(u)'
  BY DEF MInv
<1>4. \A u \in Threads : Blocked(u)' => pc'[u] \in {"queued", "yield", "wait"}
  BY DEF MInv
<1>5. \A u \in Threads : pc'[u] = "queued" => Blocked(u)'
  BY DEF MInv
<1> QED
  BY <1>2, <1>3, <1>4, <1>5, Unseen

\* A mutex that is not locked has no owner and no waiters: the thread gets it.
LEMMA TakeAcquires ==
    ASSUME MInv, TypeOK, NEW t \in Threads, take(t)
    PROVE  MInv' /\ FifoStep
<1>1. /\ irq = "none" /\ thread_current = t /\ pc[t] = "acquire" /\ ~ is_locked /\ is_locked'
      /\ pc' = [pc EXCEPT ![t] = "taken"]
      /\ UNCHANGED <<irq, thread_current, state, waiting_queue_head, waiting_queue_tail, next_waiter>>
  BY DEF take, At, Goto, cpu_vars, queue_vars
<1>2. pc'[t] = "taken" /\ \A u \in Threads \ {t} : pc'[u] = pc[u]
  BY <1>1 DEF TypeOK
<1>3. Owners = {}
  BY <1>1 DEF MInv
<1>4. Owners' = {t}
  <2>1. \A u \in Threads : u \in Owners' <=> u = t
    BY <1>1, <1>2, <1>3 DEF Owners
  <2> QED
    BY <2>1 DEF Owners
<1>5. PICK q \in Seq(Threads) : Waiters(q)
  BY DEF MInv
<1>6. Waiters(q)'
  BY <1>1, <1>5 DEF Waiters, Blocked
<1>7. Queue' = Queue
  BY <1>5, <1>6, QueueOf, QueueOfNext
<1>8. Owner = NULL /\ Owner' = t
  BY <1>3, <1>4 DEF Owner
<1>9. FifoStep
  BY <1>7, <1>8 DEF FifoStep, Fifo!Next, Fifo!Acquire
<1>10. MInv'
  <2>1. /\ \A u \in Threads : Blocked(u)' => pc'[u] \in {"queued", "yield", "wait"}
        /\ \A u \in Threads : pc'[u] = "queued" => Blocked(u)'
        /\ \A u \in Threads : thread_current' = u /\ irq' # "schedule" /\ pc'[u] = "wait" => ~ Blocked(u)'
    BY <1>1, <1>2 DEF MInv, Blocked
  <2>2. /\ \A u, v \in Owners' : u = v
        /\ Owners' # {}
    BY <1>4
  <2> QED
    BY <1>1, <1>6, <2>1, <2>2 DEF MInv
<1> QED
  BY <1>9, <1>10

\* A thread that finds the mutex locked is the last waiter, after those that the
\* pointers led to before.
LEMMA EnqueueAcquires ==
    ASSUME MInv, TypeOK, NEW t \in Threads, enqueue(t)
    PROVE  MInv' /\ FifoStep
<1>1. /\ irq = "none" /\ thread_current = t /\ pc[t] = "acquire" /\ is_locked /\ is_locked'
      /\ pc' = [pc EXCEPT ![t] = "queued"]
      /\ state' = [state EXCEPT ![t] = "BLOCKED"]
      /\ waiting_queue_tail' = t
      /\ UNCHANGED <<irq, thread_current>>
  BY DEF enqueue, At, Goto, cpu_vars
<1>2. pc'[t] = "queued" /\ \A u \in Threads \ {t} : pc'[u] = pc[u]
  BY <1>1 DEF TypeOK
<1>3. ~ Blocked(t) /\ Blocked(t)' /\ \A u \in Threads \ {t} : Blocked(u)' <=> Blocked(u)
  BY <1>1, UserFacts DEF TypeOK, MInv, Blocked
<1>4. PICK q \in Seq(Threads) : Waiters(q)
  BY DEF MInv
<1> DEFINE r == Append(q, t)
           n == Len(q)
<1>5. /\ r \in Seq(Threads) /\ n \in Nat /\ Len(r) = n + 1 /\ r # <<>> /\ r[n + 1] = t
      /\ \A i \in 1..n : r[i] = q[i] /\ q[i] \in Threads
  OBVIOUS
<1>6. \A i \in 1..n : q[i] # t
  BY <1>3, <1>4 DEF Waiters
<1> HIDE DEF r
<1>7. Linked(r, waiting_queue_head, next_waiter)'
  <2>1. CASE n = 0
    <3>1. q = <<>> /\ waiting_queue_tail = NULL
      BY <1>4, <2>1 DEF Waiters
    <3>2. waiting_queue_head' = t /\ next_waiter'[t] = NULL
      BY <3>1 DEF enqueue, TypeOK
    <3> QED
      BY <1>5, <2>1, <3>2 DEF Linked
  <2>2. CASE n # 0
    <3>1. n \in 1..n /\ q # <<>> /\ 1 \in 1..n /\ q[n] \in Threads
      BY <1>5, <2>2
    <3>2. waiting_queue_tail = q[n] /\ waiting_queue_tail # NULL
      BY <1>4, <3>1, LocksAssumption DEF Waiters
    <3>3. /\ waiting_queue_head' = waiting_queue_head
          /\ next_waiter' = [next_waiter EXCEPT ![t] = NULL, ![q[n]] = t]
      BY <3>2 DEF enqueue
    <3>4. waiting_queue_head' = r[1]
      BY <1>4, <1>5, <3>1, <3>3 DEF Waiters, Linked
    <3>5. ASSUME NEW i \in 1..n, i < n PROVE next_waiter'[r[i]] = r[i + 1]
      <4>1. q[i] # q[n] /\ q[i] # t /\ i + 1 \in 1..n
        BY <1>4, <1>5, <1>6, <3>1, <3>5 DEF Waiters, Distinct
      <4>2. next_waiter'[q[i]] = next_waiter[q[i]]
        BY <1>5, <3>3, <4>1 DEF TypeOK
      <4>3. next_waiter[q[i]] = q[i + 1]
        BY <1>4, <3>5 DEF Waiters, Linked
      <4> QED
        BY <1>5, <4>1, <4>2, <4>3
    <3>6. next_waiter'[q[n]] = t /\ next_waiter'[t] = NULL
      BY <1>6, <3>1, <3>3 DEF TypeOK
    <3>7. ASSUME NEW i \in 1..Len(r) PROVE next_waiter'[r[i]] = IF i < Len(r) THEN r[i + 1] ELSE NULL
      <4>1. CASE i = n + 1
        BY <1>5, <3>6, <4>1
      <4>2. CASE i = n
        BY <1>5, <3>1, <3>6, <4>2
      <4>3. CASE i < n
        BY <1>5, <3>5, <4>3
      <4> QED
        BY <1>5, <4>1, <4>2, <4>3
    <3> QED
      BY <1>5, <3>4, <3>7 DEF Linked
  <2> QED
    BY <2>1, <2>2
<1>8. Distinct(r)
  BY <1>4, <1>5, <1>6 DEF Waiters, Distinct
<1>9. \A u \in Threads : Blocked(u)' <=> \E i \in 1..Len(r) : r[i] = u
  <2>1. ASSUME NEW u \in Threads, u # t PROVE Blocked(u)' <=> \E i \in 1..Len(r) : r[i] = u
    <3>1. Blocked(u)' <=> \E i \in 1..n : q[i] = u
      BY <1>3, <1>4, <2>1 DEF Waiters
    <3>2. (\E i \in 1..n : q[i] = u) <=> \E i \in 1..Len(r) : r[i] = u
      BY <1>5, <2>1
    <3> QED
      BY <3>1, <3>2
  <2>2. n + 1 \in 1..Len(r)
    BY <1>5
  <2> QED
    BY <1>3, <1>5, <2>1, <2>2
<1>10. Waiters(r)'
  BY <1>1, <1>5, <1>7, <1>8, <1>9 DEF Waiters
<1>11. Queue = q /\ Queue' = Append(q, t)
  BY <1>4, <1>5, <1>10, QueueOf, QueueOfNext DEF r
<1>12. \A i \in 1..Len(q) : q[i] # t
  BY <1>5, <1>6
<1>13. Owners' = Owners
  <2>1. \A u \in Threads : u \in Owners' <=> u \in Owners
    BY <1>1, <1>2, <1>3 DEF Owners, Blocked
  <2> QED
    BY <2>1 DEF Owners
<1>14. Owner \in Owners /\ Owner' = Owner
  BY <1>1, <1>13 DEF Owner, MInv
<1>15. Owner \notin {NULL, t}
  BY <1>1, <1>14, LocksAssumption DEF Owners
<1>16. FifoStep
  BY <1>11, <1>12, <1>14, <1>15 DEF FifoStep, Fifo!Next, Fifo!Acquire
<1>17. MInv'
  <2>1. /\ \A u \in Threads : Blocked(u)' => pc'[u] \in {"queued", "yield", "wait"}
        /\ \A u \in Threads : pc'[u] = "queued" => Blocked(u)'
        /\ \A u \in Threads : thread_current' = u /\ irq' # "schedule" /\ pc'[u] = "wait" => ~ Blocked(u)'
    BY <1>1, <1>2, <1>3 DEF MInv
  <2> QED
    BY <1>1, <1>5, <1>10, <1>13, <2>1 DEF MInv
<1> QED
  BY <1>16, <1>17

\* The owner passes the mutex on to the first waiter, which is past its section
\* since the owner is in one, or unlocks it when there is none.
LEMMA PassOnReleases ==
    ASSUME MInv, TypeOK, LInv, NEW t \in Threads, pass_on(t)
    PROVE  MInv' /\ FifoStep
<1>1. /\ irq = "none" /\ thread_current = t /\ pc[t] = "release"
      /\ pc' = [pc EXCEPT ![t] = "passed"]
      /\ UNCHANGED <<irq, thread_current, next_waiter>>
  BY DEF pass_on, At, Goto, cpu_vars
<1>2. pc'[t] = "passed" /\ \A u \in Threads \ {t} : pc'[u] = pc[u]
  BY <1>1 DEF TypeOK
<1>3. Owners = {t} /\ is_locked
  <2>1. t \in Owners
    BY <1>1 DEF Owners
  <2> QED
    BY <2>1 DEF MInv
<1>4. Owner = t /\ t # NULL
  BY <1>3, LocksAssumption DEF Owner
<1>5. \A u \in Threads \ {t} : pc[u] # "queued"
  BY <1>1, SectionFacts DEF LInv, NobodyWorks, ThreadWorks, InSection
<1>6. PICK q \in Seq(Threads) : Waiters(q)
  BY DEF MInv
<1>7. Queue = q
  BY <1>6, QueueOf
<1>8. CASE waiting_queue_head = NULL
  <2>1. /\ is_locked' = FALSE
        /\ UNCHANGED <<waiting_queue_head, waiting_queue_tail, state>>
    BY <1>8 DEF pass_on
  <2>2. q = <<>>
    <3>1. q # <<>> => q[1] \in Threads
      OBVIOUS
    <3> QED
      BY <1>6, <1>8, <3>1, LocksAssumption DEF Waiters, Linked
  <2>3. Waiters(q)'
    BY <1>1, <1>6, <2>1 DEF Waiters, Blocked
  <2>4. Queue' = q
    BY <2>3, QueueOfNext
  <2>5. Owners' = {}
    <3>1. \A u \in Threads : u \notin Owners'
      BY <1>2, <1>3, <2>1 DEF Owners
    <3> QED
      BY <3>1 DEF Owners
  <2>6. Owner' = NULL
    BY <2>5 DEF Owner
  <2>7. FifoStep
    BY <1>4, <1>7, <2>2, <2>4, <2>6 DEF FifoStep, Fifo!Next, Fifo!Release
  <2>8. MInv'
    <3>1. /\ \A u \in Threads : Blocked(u)' => pc'[u] \in {"queued", "yield", "wait"}
          /\ \A u \in Threads : pc'[u] = "queued" => Blocked(u)'
          /\ \A u \in Threads : thread_current' = u /\ irq' # "schedule" /\ pc'[u] = "wait" => ~ Blocked(u)'
      BY <1>1, <1>2, <2>1 DEF MInv, Blocked
    <3> QED
      BY <1>8, <2>1, <2>3, <2>5, <3>1 DEF MInv
  <2> QED
    BY <2>7, <2>8
<1>9. CASE waiting_queue_head # NULL
  <2> DEFINE h == q[1]
             r == Tail(q)
             n == Len(q)
  <2>1. q # <<>> /\ waiting_queue_head = h
    BY <1>6, <1>9 DEF Waiters, Linked
  <2>2. /\ n \in Nat /\ n >= 1 /\ h \in Threads /\ r \in Seq(Threads) /\ Len(r) = n - 1
        /\ \A i \in 1..(n - 1) : r[i] = q[i + 1]
        /\ (r = <<>>) <=> (n = 1)
        /\ Head(q) = h
    <3>1. n \in Nat /\ n >= 1 /\ h \in Threads /\ Head(q) = h
      BY <2>1
    <3>2. r \in Seq(Threads) /\ Len(r) = n - 1 /\ \A i \in 1..(n - 1) : r[i] = q[i + 1]
      BY <2>1
    <3>3. (r = <<>>) <=> (Len(r) = 0)
      BY <3>2
    <3> QED
      BY <3>1, <3>2, <3>3
  <2>3. /\ waiting_queue_head' = next_waiter[h]
        /\ waiting_queue_tail' = IF waiting_queue_head' = NULL THEN NULL ELSE waiting_queue_tail
        /\ state' = [state EXCEPT ![h] = "READY"]
        /\ is_locked' = is_locked
    BY <1>9, <2>1 DEF pass_on, TailAfter, Woken
  <2> HIDE DEF r, h
  <2>4. Blocked(h) /\ h = q[1] /\ h # t /\ pc[h] \in {"yield", "wait"}
    <3>1. Blocked(h) /\ h = q[1]
      BY <1>6, <2>2 DEF Waiters, h
    <3> QED
      BY <1>1, <1>5, <2>2, <3>1 DEF MInv
  <2>5. ~ Blocked(h)' /\ \A u \in Threads \ {h} : Blocked(u)' <=> Blocked(u)
    BY <2>2, <2>3, UserFacts DEF TypeOK, Blocked
  <2>6. next_waiter[h] = IF r = <<>> THEN NULL ELSE r[1]
    BY <1>6, <2>2, <2>4 DEF Waiters, Linked
  <2>7. Linked(r, waiting_queue_head, next_waiter)'
    <3>1. ASSUME NEW i \in 1..Len(r) PROVE next_waiter'[r[i]] = IF i < Len(r) THEN r[i + 1] ELSE NULL
      <4>1. i + 1 \in 1..n /\ r[i] = q[i + 1] /\ (i + 1 < n <=> i < Len(r))
        BY <2>2
      <4>2. next_waiter[q[i + 1]] = IF i + 1 < n THEN q[(i + 1) + 1] ELSE NULL
        BY <1>6, <4>1 DEF Waiters, Linked
      <4>3. i < Len(r) => r[i + 1] = q[(i + 1) + 1]
        BY <2>2
      <4> QED
        BY <1>1, <4>1, <4>2, <4>3
    <3> QED
      BY <2>3, <2>6, <3>1 DEF Linked
  <2>8. Distinct(r)
    BY <1>6, <2>2 DEF Waiters, Distinct
  <2>9. waiting_queue_tail' = IF r = <<>> THEN NULL ELSE r[Len(r)]
    <3>1. CASE r = <<>>
      BY <2>3, <2>6, <3>1
    <3>2. CASE r # <<>>
      <4>1. r[1] # NULL
        BY <2>2, <3>2, LocksAssumption
      <4>2. n - 1 \in 1..(n - 1) /\ (n - 1) + 1 = n
        BY <2>2, <3>2
      <4>3. waiting_queue_tail' = q[n] /\ r[Len(r)] = q[n]
        BY <1>6, <2>1, <2>2, <2>3, <2>6, <3>2, <4>1, <4>2 DEF Waiters
      <4> QED
        BY <3>2, <4>3
    <3> QED
      BY <3>1, <3>2
  <2>10. ASSUME NEW u \in Threads PROVE Blocked(u)' <=> \E i \in 1..Len(r) : r[i] = u
    <3>1. Blocked(u) <=> \E i \in 1..n : q[i] = u
      BY <1>6 DEF Waiters
    <3>2. \A i \in 1..n : i # 1 => q[i] # h
      BY <1>6, <2>2, <2>4 DEF Waiters, Distinct
    <3>3. \A i \in 1..(n - 1) : i + 1 \in 1..n /\ i + 1 # 1
      BY <2>2
    <3>4. CASE u = h
      BY <2>2, <2>5, <3>2, <3>3, <3>4
    <3>5. CASE u # h
      <4>1. ASSUME NEW i \in 1..n, q[i] = u PROVE \E j \in 1..Len(r) : r[j] = u
        <5>1. i - 1 \in 1..(n - 1) /\ (i - 1) + 1 = i
          BY <2>2, <2>4, <3>5, <4>1
        <5> QED
          BY <2>2, <4>1, <5>1
      <4>2. ASSUME NEW i \in 1..Len(r), r[i] = u PROVE \E j \in 1..n : q[j] = u
        BY <2>2, <3>3, <4>2
      <4> QED
        BY <2>5, <3>1, <3>5, <4>1, <4>2
    <3> QED
      BY <3>4, <3>5
  <2>11. Waiters(r)'
    BY <2>7, <2>8, <2>9, <2>10 DEF Waiters
  <2>12. Queue' = r
    BY <2>2, <2>11, QueueOfNext
  <2>13. Owners' = {h}
    <3>1. \A u \in Threads : u \in Owners' <=> u = h
      <4>1. h \in Owners'
        BY <1>2, <2>2, <2>4, <2>5 DEF Owners, Blocked
      <4>2. ASSUME NEW u \in Threads, u # h PROVE u \notin Owners'
        <5>1. u # t => u \notin Owners /\ pc'[u] = pc[u]
          BY <1>2, <1>3
        <5>2. Blocked(u)' <=> Blocked(u)
          BY <2>5, <4>2
        <5> QED
          BY <1>2, <5>1, <5>2 DEF Owners, Blocked
      <4> QED
        BY <4>1, <4>2
    <3> QED
      BY <2>2, <3>1 DEF Owners
  <2>14. Owner' = h
    BY <2>13 DEF Owner
  <2>15. FifoStep
    BY <1>4, <1>7, <2>1, <2>2, <2>12, <2>14 DEF FifoStep, Fifo!Next, Fifo!Release, r, h
  <2>16. MInv'
    <3>1. /\ \A u \in Threads : Blocked(u)' => pc'[u] \in {"queued", "yield", "wait"}
          /\ \A u \in Threads : pc'[u] = "queued" => Blocked(u)'
          /\ \A u \in Threads : thread_current' = u /\ irq' # "schedule" /\ pc'[u] = "wait" => ~ Blocked(u)'
      BY <1>1, <1>2, <2>4, <2>5 DEF MInv
    <3>2. Owners' # {} /\ \A u, v \in Owners' : u = v
      BY <2>13
    <3> QED
      BY <1>3, <2>2, <2>3, <2>11, <3>1, <3>2 DEF MInv
  <2> QED
    BY <2>15, <2>16
<1> QED
  BY <1>8, <1>9

\* Every step keeps the invariant and is a step of the first-in first-out mutex,
\* or none.
LEMMA MutexNext == MInv /\ TypeOK /\ LInv /\ [Next]_vars => MInv' /\ FifoStep
<1> SUFFICES ASSUME MInv, TypeOK, LInv, [Next]_vars PROVE MInv' /\ FifoStep
  OBVIOUS
<1>1. ASSUME NEW t \in Threads, step(t) PROVE MInv' /\ FifoStep
  <2>1. CASE enter_section(t)
    <3>1. PICK move \in {<<"out", "acquire">>, <<"vmm", "acquire">>, <<"inside", "release">>, <<"out", "sleep">>} :
              At(t, move[1]) /\ Goto(t, move[2])
      BY <2>1 DEF enter_section
    <3>2. irq = "none" /\ thread_current = t /\ Move(pc[t], move[2]) /\ pc' = [pc EXCEPT ![t] = move[2]]
      BY <3>1 DEF At, Goto, Move
    <3>3. state' = state /\ thread_current' = t /\ UNCHANGED mutex_vars /\ move[2] # "wait"
      BY <2>1, <3>1, <3>2 DEF enter_section, cpu_vars
    <3> QED
      BY <3>2, <3>3, MovesUnseen
  <2>2. CASE take(t)
    BY <2>2, TakeAcquires
  <2>3. CASE enqueue(t)
    BY <2>3, EnqueueAcquires
  <2>4. CASE pass_on(t)
    BY <2>4, PassOnReleases
  <2>5. CASE thread_sleep(t)
    <3>1. /\ pc[t] = "sleep" /\ pc' = [pc EXCEPT ![t] = "asleep"]
          /\ state' = [state EXCEPT ![t] = "SLEEPING"]
          /\ UNCHANGED <<irq, thread_current, mutex_vars>>
      BY <2>5 DEF thread_sleep, At, Goto, cpu_vars
    <3>2. ~ Blocked(t) /\ ~ Blocked(t)' /\ \A u \in Threads \ {t} : state'[u] = state[u]
      BY <3>1, UserFacts DEF TypeOK, MInv, Blocked
    <3>3. pc'[t] = "asleep" /\ \A u \in Threads \ {t} : pc'[u] = pc[u]
      BY <3>1 DEF TypeOK
    <3>4. \A u \in Threads : Blocked(u)' <=> Blocked(u)
      BY <3>2 DEF Blocked
    <3>5. \A u \in Threads : u \in Owners' <=> u \in Owners
      BY <3>1, <3>2, <3>3 DEF Owners
    <3>6. Owners' = Owners
      BY <3>5 DEF Owners
    <3>7. /\ \A u \in Threads : Blocked(u)' => pc'[u] \in {"queued", "yield", "wait"}
          /\ \A u \in Threads : pc'[u] = "queued" => Blocked(u)'
          /\ \A u \in Threads : thread_current' = u /\ irq' # "schedule" /\ pc'[u] = "wait" => ~ Blocked(u)'
      BY <3>1, <3>3, <3>4 DEF MInv
    <3> QED
      BY <3>1, <3>4, <3>6, <3>7, Unseen
  <2>6. CASE leave_section(t)
    <3>1. PICK move \in {<<"taken", "inside">>, <<"queued", "yield">>, <<"asleep", "drowsy">>,
                         <<"passed", IF vas_lock = t THEN "unlock" ELSE "out">>} :
              At(t, move[1]) /\ Goto(t, move[2])
      BY <2>6 DEF leave_section
    <3>2. irq = "none" /\ thread_current = t /\ Move(pc[t], move[2]) /\ pc' = [pc EXCEPT ![t] = move[2]]
      BY <3>1 DEF At, Goto, Move
    <3>3. state' = state /\ thread_current' = t /\ UNCHANGED mutex_vars /\ move[2] # "wait"
      BY <2>6, <3>1, <3>2 DEF leave_section, cpu_vars
    <3> QED
      BY <3>2, <3>3, MovesUnseen
  <2>7. CASE scheduler_yield(t)
    <3>1. PICK move \in {<<"yield", "wait">>, <<"drowsy", "out">>} :
              At(t, move[1]) /\ Goto(t, move[2])
      BY <2>7 DEF scheduler_yield
    <3>2. irq = "none" /\ thread_current = t /\ Move(pc[t], move[2]) /\ pc' = [pc EXCEPT ![t] = move[2]]
      BY <3>1 DEF At, Goto, Move
    <3>3. state' = state /\ thread_current' = t /\ UNCHANGED mutex_vars /\ irq' = "schedule"
      BY <2>7, <3>2 DEF scheduler_yield, interrupt
    <3> QED
      BY <3>2, <3>3, MovesUnseen
  <2>8. CASE resume(t)
    <3>1. /\ irq = "none" /\ thread_current = t /\ Move(pc[t], "inside") /\ pc' = [pc EXCEPT ![t] = "inside"]
          /\ state' = state /\ thread_current' = t /\ UNCHANGED mutex_vars
      BY <2>8 DEF resume, At, Goto, Move, cpu_vars
    <3> QED
      BY <3>1, MovesUnseen
  <2>9. CASE vmm_call(t) \/ vmm_lock(t) \/ vmm_unlock(t)
    <3>1. PICK place \in {"vas", "vmm", "out"} : Move(pc[t], place) /\ pc' = [pc EXCEPT ![t] = place]
      BY <2>9 DEF vmm_call, vmm_lock, vmm_unlock, At, Goto, Move
    <3>2. irq = "none" /\ thread_current = t /\ state' = state /\ thread_current' = t /\ UNCHANGED mutex_vars
      BY <2>9 DEF vmm_call, vmm_lock, vmm_unlock, At, cpu_vars
    <3> QED
      BY <3>1, <3>2, MovesUnseen
  <2> QED
    BY <1>1, <2>1, <2>2, <2>3, <2>4, <2>5, <2>6, <2>7, <2>8, <2>9 DEF step
<1>2. CASE timer_interrupt
  <2>1. /\ pc' = pc /\ irq = "none" /\ state' = state /\ thread_current' = thread_current /\ UNCHANGED mutex_vars
    BY <1>2 DEF timer_interrupt, interrupt
  <2> QED
    BY <2>1, HandlersUnseen DEF Blocked
<1>3. CASE wake
  <2>1. /\ pc' = pc /\ irq = "wake" /\ thread_current' = thread_current /\ UNCHANGED mutex_vars
        /\ state' = [t \in AllThreads |-> IF state[t] = "SLEEPING" THEN "READY" ELSE state[t]]
    BY <1>3 DEF wake
  <2>2. \A u \in Threads : Blocked(u)' <=> Blocked(u)
    BY <2>1, UserFacts DEF Blocked
  <2> QED
    BY <2>1, <2>2, HandlersUnseen
<1>4. ASSUME NEW t \in AllThreads, scheduler_schedule(t) PROVE MInv' /\ FifoStep
  <2>1. /\ pc' = pc /\ thread_current' = t /\ UNCHANGED mutex_vars
        /\ Paused[t] = "READY" /\ state' = [Paused EXCEPT ![t] = "RUNNING"]
    BY <1>4 DEF scheduler_schedule
  <2>2. \A u \in AllThreads : (Paused[u] = "BLOCKED") <=> (state[u] = "BLOCKED")
    BY DEF Paused, TypeOK
  <2>3. Paused \in [AllThreads -> {"READY", "RUNNING", "SLEEPING", "BLOCKED"}]
    BY DEF Paused, TypeOK
  <2>4. \A u \in Threads : Blocked(u)' <=> Blocked(u)
    BY <2>1, <2>2, <2>3, UserFacts DEF Blocked
  <2>5. ~ Blocked(t)
    BY <2>1, <2>2 DEF Blocked
  <2> QED
    BY <2>1, <2>4, <2>5, HandlersUnseen
<1>5. CASE UNCHANGED vars
  <2>1. UNCHANGED <<pc, state, irq, thread_current, mutex_vars>>
    BY <1>5 DEF vars, cpu_vars
  <2> QED
    BY <2>1, HandlersUnseen DEF Blocked
<1> QED
  BY <1>1, <1>2, <1>3, <1>4, <1>5 DEF Next

\* A mutex that nobody used has no owner and an empty queue.
LEMMA MutexInit == Init => MInv /\ Fifo!Init
<1> SUFFICES ASSUME Init PROVE MInv /\ Fifo!Init
  OBVIOUS
<1>1. \A t \in Threads : pc[t] = "out" /\ ~ Blocked(t)
  BY UserFacts DEF Init, Blocked
<1>2. Owners = {}
  BY <1>1 DEF Owners
<1>3. <<>> \in Seq(Threads) /\ Waiters(<<>>)
  BY <1>1 DEF Init, Waiters, Distinct, Linked
<1>4. MInv
  BY <1>1, <1>2, <1>3 DEF Init, MInv
<1>5. Owner = NULL /\ Queue = <<>>
  BY <1>2, <1>3, QueueOf DEF Owner
<1> QED
  BY <1>4, <1>5 DEF Fifo!Init

\* mutex_acquire and mutex_release implement the first-in first-out mutex with
\* hand-over, for any number of threads, wherever a thread is preempted: whoever
\* calls waits behind those that called before, and a release gives the mutex to
\* the first of them.
THEOREM MutexIsFifo == Spec => ImplementsFifo
<1>1. Init => MInv /\ Fifo!Init
  BY MutexInit
<1>2. MInv /\ TypeOK /\ LInv /\ [Next]_vars => MInv' /\ [Fifo!Next]_<<Owner, Queue>>
  BY MutexNext DEF FifoStep
<1> QED
  BY <1>1, <1>2, LocksTypeCorrect, LInvInit, LInvNext, PTL DEF Spec, ImplementsFifo, Fifo!Spec

=============================================================================
