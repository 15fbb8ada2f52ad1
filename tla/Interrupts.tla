----------------------------- MODULE Interrupts -----------------------------
(***************************************************************************)
(* The kernel's one thread of its own, which starts the system up (kinit   *)
(* and kernel in main.rs) and then spins, and the keyboard interrupt       *)
(* (int.rs), in whose handler everything else happens: the echo of a key,  *)
(* the shell's commands and the user programs they start.                  *)
(*                                                                         *)
(* A handler runs with interrupts off, so nothing interleaves with it but  *)
(* a user program it has started: that runs with them on, and only the     *)
(* interrupt controller, which holds back a second keyboard interrupt      *)
(* until the first is acknowledged, keeps the handler from being entered   *)
(* again.  The main thread can be interrupted between any two accesses to  *)
(* shared memory, those to the frame buffer included: no lock covers it.   *)
(* Stores are taken in program order, and the copy of one line of pixels   *)
(* as one step.  The timer's handler touches nothing else and is left out. *)
(***************************************************************************)
EXTENDS Integers, Sequences

CONSTANTS
  Scancodes,  \* what is typed: see keyboard_interrupt_handler
  ROWS,       \* rows of text on the screen
  MaxKeys     \* bound: scancodes in a behaviour

ASSUME InterruptsAssumption ==
  /\ Scancodes \subseteq {"prefix", "char", "toggle", "print", "bp", "analyze",
                          "alloc", "run", "panic", "reboot"}
  /\ ROWS \in Nat \ {0} /\ MaxKeys \in Nat

VARIABLES
  cpu,          \* what executes: "main", "user" (in the handler), or one of the
                \* ends of everything: see Down
  stage, step,  \* where the main thread is
  IF_main,      \* the interrupt flag of the main thread
  isr,          \* the keyboard interrupt is in service: not acknowledged
  kbd,          \* scancodes not read yet
  typed,        \* number of scancodes so far
  held,         \* locks the main thread holds
  ready,        \* which of "MAPPER", "FRAMES" and "HEAP" have been set up
  mirror,       \* SERIAL_MIRROR
  row,          \* the row of the one cursor that thread and handler share
  areas,        \* what the main thread has still to draw and mark: rows
                \* lo..hi - 1 for each <<lo, hi>>
  DIRTY, MIN, MAX,  \* the dirty rectangle: rows MIN..MAX - 1
  rect,         \* what the main thread's present has still to copy
  unshown,      \* rows on which the hardware differs from the back buffer
  torn          \* a handler has drawn while Marking

keys == <<isr, kbd, typed>>
dirty == <<DIRTY, MIN, MAX>>
screen == <<row, areas, dirty, rect, unshown>>
vars == <<cpu, stage, step, IF_main, keys, held, ready, mirror, screen, torn>>

Least(a, b) == IF a < b THEN a ELSE b
Most(a, b) == IF a > b THEN a ELSE b

----------------------------------------------------------------------------
(* The main thread, by its accesses to what it shares with the handler.    *)

(* kinit from the enabling of interrupts on, and kernel.  The four that    *)
(* begin with "char" are a console_println; one stands for the messages    *)
(* before memory is set up, one for those after it and one for those after *)
(* the screen is cleared.                                                  *)
Program ==
  <<"enable", "char", "newline", "present", "mirror", "mapper", "frames", "heap",
    "char", "newline", "present", "mirror", "clear", "present",
    "char", "newline", "present", "mirror", "idle">>

At(op, st) == cpu = "main" /\ Program[stage] = op /\ step = st

GoTo(st) == step' = st /\ UNCHANGED <<stage, cpu, keys, torn>>

Finish == stage' = stage + 1 /\ step' = "start" /\ UNCHANGED <<cpu, keys, torn>>

EnableInterrupts ==
  /\ At("enable", "start") /\ Finish
  /\ IF_main' = TRUE
  /\ UNCHANGED <<held, ready, mirror, screen>>

(* write_cell: render_cell draws the background of the cell, then the      *)
(* glyph, whose pixels are drawn and marked one after the other.           *)
WriteCell ==
  /\ At("char", "start") /\ GoTo("draw")
  /\ areas' = <<<<row, row + 1>>, <<row, row + 1>>>>
  /\ UNCHANGED <<IF_main, held, ready, mirror, row, dirty, rect, unshown>>

(* Below the last row the picture moves up (copy_rect), the row that comes *)
(* in is blanked (draw_rect) and drawn (render_row).                       *)
NewLine ==
  /\ At("newline", "start")
  /\ IF row + 1 < ROWS
       THEN Finish /\ row' = row + 1 /\ UNCHANGED areas
       ELSE /\ GoTo("draw")
            /\ areas' = <<<<0, ROWS - 1>>, <<ROWS - 1, ROWS>>, <<ROWS - 1, ROWS>>>>
            /\ UNCHANGED row
  /\ UNCHANGED <<IF_main, held, ready, mirror, dirty, rect, unshown>>

(* console::clear: the cursor first, then fb::clear.                       *)
Clear ==
  /\ At("clear", "start") /\ GoTo("draw")
  /\ row' = 0 /\ areas' = <<<<0, ROWS>>>>
  /\ UNCHANGED <<IF_main, held, ready, mirror, dirty, rect, unshown>>

Drawing(st) == At(Program[stage], st)

Lo == Head(areas)[1]
Hi == Head(areas)[2]

(* Pixels into the back buffer; then mark_dirty.                           *)
Draw ==
  /\ Drawing("draw") /\ GoTo("mark")
  /\ unshown' = unshown \cup Lo..(Hi - 1)
  /\ UNCHANGED <<IF_main, held, ready, mirror, row, areas, dirty, rect>>

TestDirty ==
  /\ Drawing("mark") /\ GoTo(IF DIRTY THEN "grow" ELSE "set")
  /\ UNCHANGED <<IF_main, held, ready, mirror, screen>>

SetDirty ==
  /\ Drawing("set") /\ GoTo("set_min")
  /\ DIRTY' = TRUE
  /\ UNCHANGED <<IF_main, held, ready, mirror, row, areas, MIN, MAX, rect, unshown>>

(* The old bound is read in the same step: a handler in between would      *)
(* leave DIRTY false, and then the bounds do not count.                    *)
SetMin ==
  /\ \/ Drawing("set_min") /\ GoTo("set_max") /\ MIN' = Lo
     \/ Drawing("grow") /\ GoTo("grow_max") /\ MIN' = Least(MIN, Lo)
  /\ UNCHANGED <<IF_main, held, ready, mirror, row, areas, DIRTY, MAX, rect, unshown>>

SetMax ==
  /\ \/ Drawing("set_max") /\ MAX' = Hi
     \/ Drawing("grow_max") /\ MAX' = Most(MAX, Hi)
  /\ areas' = Tail(areas)
  /\ IF Tail(areas) = << >> THEN Finish ELSE GoTo("draw")
  /\ UNCHANGED <<IF_main, held, ready, mirror, row, DIRTY, MIN, rect, unshown>>

(* present: the rectangle is read, DIRTY cleared, the rows copied.         *)
ReadRect ==
  /\ At("present", "start")
  /\ IF DIRTY THEN GoTo("clean") ELSE Finish
  /\ rect' = IF DIRTY THEN <<MIN, MAX>> ELSE rect
  /\ UNCHANGED <<IF_main, held, ready, mirror, row, areas, dirty, unshown>>

CleanDirty ==
  /\ At("present", "clean") /\ GoTo("copy")
  /\ DIRTY' = FALSE
  /\ UNCHANGED <<IF_main, held, ready, mirror, row, areas, MIN, MAX, rect, unshown>>

Copy ==
  /\ At("present", "copy")
  /\ IF rect[1] < rect[2]
       THEN GoTo("copy") /\ rect' = [rect EXCEPT ![1] = @ + 1]
       ELSE Finish /\ UNCHANGED rect
  /\ unshown' = unshown \ {l \in {rect[1]} : l < rect[2]}
  /\ UNCHANGED <<IF_main, held, ready, mirror, row, areas, dirty>>

(* The macro's copy to the serial port, under its lock.                    *)
LockSerial ==
  /\ At("mirror", "start")
  /\ \/ mirror /\ GoTo("serial") /\ IF_main' = FALSE /\ held' = held \cup {"SERIAL"}
     \/ ~mirror /\ Finish /\ UNCHANGED <<IF_main, held>>
  /\ UNCHANGED <<ready, mirror, screen>>

UnlockSerial ==
  /\ At("mirror", "serial") /\ Finish
  /\ IF_main' = TRUE /\ held' = held \ {"SERIAL"}
  /\ UNCHANGED <<ready, mirror, screen>>

(* *MAPPER.lock() = Some(..), *FRAME_ALLOCATOR.lock() = Some(..), and      *)
(* init_heap, which has both and takes the heap's own lock at its end.     *)
Lock ==
  /\ \/ At("mapper", "start") /\ GoTo("locked") /\ held' = held \cup {"MAPPER"}
     \/ At("frames", "start") /\ GoTo("locked") /\ held' = held \cup {"FRAMES"}
     \/ At("heap", "start") /\ GoTo("mapping") /\ held' = held \cup {"MAPPER", "FRAMES"}
     \/ At("heap", "mapping") /\ GoTo("locked") /\ held' = held \cup {"HEAP"}
  /\ UNCHANGED <<IF_main, ready, mirror, screen>>

SetUp ==
  /\ \/ At("mapper", "locked") /\ GoTo("unlock") /\ ready' = ready \cup {"MAPPER"}
     \/ At("frames", "locked") /\ GoTo("unlock") /\ ready' = ready \cup {"FRAMES"}
     \/ At("heap", "locked") /\ GoTo("done") /\ ready' = ready \cup {"HEAP"}
  /\ UNCHANGED <<IF_main, held, mirror, screen>>

Unlock ==
  /\ \/ At("heap", "done") /\ GoTo("unlock") /\ held' = held \ {"HEAP"}
     \/ At(Program[stage], "unlock") /\ Finish /\ held' = {}
  /\ UNCHANGED <<IF_main, ready, mirror, screen>>

Main ==
  \/ EnableInterrupts \/ WriteCell \/ NewLine \/ Clear \/ Draw
  \/ TestDirty \/ SetDirty \/ SetMin \/ SetMax
  \/ ReadRect \/ CleanDirty \/ Copy \/ LockSerial \/ UnlockSerial
  \/ Lock \/ SetUp \/ Unlock

----------------------------------------------------------------------------
(* The keyboard.                                                           *)

KeyTyped(k) ==
  /\ typed < MaxKeys /\ typed' = typed + 1
  /\ kbd' = Append(kbd, k)
  /\ UNCHANGED <<cpu, stage, step, IF_main, isr, held, ready, mirror, screen, torn>>

(* The main thread has found DIRTY set, or has set it, and the bounds do   *)
(* not yet contain what it has drawn.                                      *)
Marking == step \in {"set_min", "set_max", "grow", "grow_max"}

(* Faulty variant: the handler leaves presenting to the main thread.       *)
OnlyDrawn(lo, hi) ==
  /\ unshown' = unshown \cup lo..(hi - 1)
  /\ DIRTY' = TRUE
  /\ MIN' = (IF DIRTY THEN Least(MIN, lo) ELSE lo)
  /\ MAX' = (IF DIRTY THEN Most(MAX, hi) ELSE hi)
  /\ torn' = (torn \/ Marking)
  /\ UNCHANGED <<areas, rect>>

(* Rows lo..hi - 1 are drawn, marked and presented: in the handler and in  *)
(* a system call nothing comes in between.                                 *)
DrawnAndPresented(lo, hi) ==
  LET min == IF DIRTY THEN Least(MIN, lo) ELSE lo
      max == IF DIRTY THEN Most(MAX, hi) ELSE hi
  IN  /\ unshown' = (unshown \cup lo..(hi - 1)) \ min..(max - 1)
      /\ DIRTY' = FALSE /\ MIN' = min /\ MAX' = max
      /\ torn' = (torn \/ Marking)
      /\ UNCHANGED <<areas, rect>>

(* A key at the cursor: the cursor stays in the row, or goes on to the     *)
(* next, below the last of which the picture moves.                        *)
Echo ==
  \/ DrawnAndPresented(row, row + 1)
     /\ row' \in {row, Least(row + 1, ROWS - 1)}
  \/ row = ROWS - 1 /\ DrawnAndPresented(0, ROWS) /\ UNCHANGED row

(* What a command or a program prints, the clear command included.         *)
Output ==
  \/ \E r \in row..(ROWS - 1) : DrawnAndPresented(row, r + 1) /\ row' = r
  \/ \E r \in {0, ROWS - 1} : DrawnAndPresented(0, ROWS) /\ row' = r

(* Faulty variant: acknowledged as soon as the scancode has been read.     *)
InServiceEarly(k) == FALSE

(* While a command runs the interrupt is not yet acknowledged.             *)
InServiceIn(k) == TRUE

(* Faulty variant: only a scancode that completes a key is acknowledged.   *)
InServiceDecoded(k) == k = "prefix"

(* After notify_end_of_interrupt, the handler's last statement.            *)
InServiceAfter(k) == FALSE

(* The locks that command k takes, in the order HEAP, MAPPER, FRAMES,      *)
(* SERIAL.  What the first three guard must have been set up, or it panics:*)
(* mem-analyze unwraps the frame allocator, a file command allocates, and  *)
(* a program needs all three.  What commands print goes to the serial port *)
(* too when that is on; what breakpoint_handler, reboot and the report of  *)
(* a panic print always does.                                              *)
Takes(k) ==
  (CASE k = "analyze" -> {"FRAMES"}
     [] k = "alloc"   -> {"HEAP"}
     [] k = "run"     -> {"HEAP", "MAPPER", "FRAMES"}
     [] k \in {"bp", "panic", "reboot"} -> {"SERIAL"}
     [] OTHER         -> {})
  \cup (IF mirror /\ k \notin {"prefix", "char"} THEN {"SERIAL"} ELSE {})

(* The locks in the way of k; the first of them is where it stops.         *)
Unusable(k) == {l \in Takes(k) : l \in held \/ l \notin ready \cup {"SERIAL"}}

StopsAt(k) ==
  IF "HEAP" \in Unusable(k) THEN "HEAP"
  ELSE IF "MAPPER" \in Unusable(k) THEN "MAPPER"
  ELSE IF "FRAMES" \in Unusable(k) THEN "FRAMES" ELSE "SERIAL"

(* What executes next.  The lock KEYBOARD is the handler's own: it has it  *)
(* while a program runs.  A lock of the thread it interrupted it waits for *)
(* in vain ("spin"); what is not set up makes it panic ("unready"); the    *)
(* panic and reboot commands do what they are called.                      *)
Outcome(k) ==
  IF cpu = "user" THEN "spin"
  ELSE IF Unusable(k) # {} THEN (IF StopsAt(k) \in held THEN "spin" ELSE "unready")
  ELSE CASE k = "run"    -> "user"
         [] k = "panic"  -> "panic"
         [] k = "reboot" -> "reset"
         [] OTHER        -> "main"

InterruptsOn == IF cpu = "main" THEN IF_main ELSE cpu = "user"

(* keyboard_interrupt_handler on scancode k: one that completes no key, a  *)
(* key, or Enter after the name of a command.                              *)
keyboard_interrupt_handler(k) ==
  /\ InterruptsOn /\ ~isr
  /\ kbd # << >> /\ k = Head(kbd)
  /\ kbd' = Tail(kbd)
  /\ cpu' = Outcome(k)
  /\ isr' = IF Outcome(k) = "main" THEN InServiceAfter(k) ELSE InServiceIn(k)
  /\ \/ k = "prefix" /\ UNCHANGED <<screen, torn>>
     \/ k = "char" /\ Echo
     \/ k \notin {"prefix", "char"} /\ Output
  /\ mirror' = IF k = "toggle" THEN ~mirror ELSE mirror
  /\ UNCHANGED <<stage, step, IF_main, typed, held, ready>>

(* A system call of the program that prints: interrupts are masked in it.  *)
UserPrints ==
  /\ cpu = "user"
  /\ Output
  /\ UNCHANGED <<cpu, stage, step, IF_main, keys, held, ready, mirror>>

(* exit: back in the handler, which prints the prompt and acknowledges.    *)
UserExits ==
  /\ cpu = "user" /\ cpu' = "main"
  /\ Output
  /\ isr' = InServiceAfter("run")
  /\ UNCHANGED <<stage, step, IF_main, kbd, typed, held, ready, mirror>>

Stops(end) ==
  /\ cpu = "user" /\ cpu' = end
  /\ UNCHANGED <<stage, step, IF_main, keys, held, ready, mirror, screen, torn>>

(* dup of an open descriptor waits for the FD_TABLE lock that it has.      *)
UserDups == Stops("hung")

(* mprotect and munmap of a range past the lower half panic.               *)
UserPanics == Stops("panic")

(* After a report on the serial port, interrupts are off for good.         *)
panic_loop == IF "SERIAL" \in held THEN "spin" ELSE "halted"

(* The handlers of the exceptions that a program's instructions can raise, *)
(* page_fault_handler among them, report it and do not return, but for     *)
(* debug_handler, which returns to the program.  A program's int3 is not   *)
(* allowed by its gate and is one of them.                                 *)
UserFaults == Stops(panic_loop)

Handle == \E k \in Scancodes : keyboard_interrupt_handler(k)

----------------------------------------------------------------------------
Init ==
  /\ cpu = "main" /\ stage = 1 /\ step = "start" /\ IF_main = FALSE
  /\ isr = FALSE /\ kbd = << >> /\ typed = 0
  /\ held = {} /\ ready = {} /\ mirror = FALSE
  /\ row = 0 /\ areas = << >>
  /\ DIRTY = FALSE /\ MIN = 0 /\ MAX = 0 /\ rect = <<0, 0>> /\ unshown = {}
  /\ torn = FALSE

Next ==
  \/ Main
  \/ \E k \in Scancodes : KeyTyped(k)
  \/ Handle
  \/ UserPrints
  \/ UserExits
  \/ UserDups
  \/ UserPanics
  \/ UserFaults

Spec == Init /\ [][Next]_vars

(* The processor keeps executing, it takes an interrupt that stays         *)
(* pending, and the programs that are started end if they do not stop the  *)
(* system.                                                                 *)
FairSpec == Spec /\ WF_vars(Main) /\ WF_vars(Handle) /\ WF_vars(UserExits)

----------------------------------------------------------------------------
(* The handler is in the way of the thread it interrupted only while kinit *)
(* sets memory up.  Only then can it wait for a lock which that thread     *)
(* has, and only until then can a command panic for want of what it needs. *)
(* Afterwards neither a program under which keys are typed, nor the serial *)
(* mirror, nor the report of a panic or an exception makes it wait.  (The  *)
(* system can still be brought down, by the commands made for it and by a  *)
(* program: Outcome, UserDups, UserPanics and UserFaults.)                 *)
StuckOnlyWhileStarting ==
  /\ cpu = "spin" => held \cap {"MAPPER", "FRAMES", "HEAP"} # {}
  /\ cpu = "unready" => ~({"MAPPER", "FRAMES", "HEAP"} \subseteq ready)

(* The ends: see Outcome and the actions of the program.                   *)
Down == cpu \in {"spin", "unready", "panic", "reset", "hung", "halted"}

(* Every scancode is handled in the end unless the system has gone down.   *)
KeysGetThrough == []<>(kbd = << >>) \/ <>Down

(* The one window: when the system is at rest all that was drawn is on the *)
(* screen, by whichever of the main thread and the handler, unless a       *)
(* handler drew while mark_dirty had DIRTY set and the bounds not yet.     *)
(* Everywhere else, before and after mark_dirty and all through present, a *)
(* handler may draw and present and nothing is lost, although DIRTY and    *)
(* the bounds are shared without a lock.                                   *)
LostOnlyWhileMarking ==
  cpu = "main" /\ Program[stage] = "idle" /\ ~torn => unshown = {}

(* "If DIRTY is false, there is nothing to present" (fb.rs): so, at least, *)
(* when the main thread and the handler have both finished.                *)
CleanMeansShown ==
  cpu = "main" /\ Program[stage] = "idle" /\ ~DIRTY => unshown = {}
=============================================================================
