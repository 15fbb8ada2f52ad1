-------------------------- MODULE InterruptsProofs --------------------------
(***************************************************************************)
(* Proofs about the keyboard interrupt and the start of the kernel, for    *)
(* any number of keys typed at any moment.                                 *)
(***************************************************************************)
EXTENDS Interrupts, TLAPS

Memory == {"MAPPER", "FRAMES", "HEAP"}

(* The part of the state the first argument is about has its types.        *)
LockTypes ==
  /\ cpu \in {"main", "user", "spin", "unready", "panic", "reset", "hung", "halted"}
  /\ held \subseteq Memory \cup {"SERIAL"} /\ ready \subseteq Memory
  /\ mirror \in BOOLEAN /\ isr \in BOOLEAN

(* A program runs only inside a handler that is not acknowledged, so that  *)
(* the handler is never entered twice; and while the main thread has the   *)
(* serial port it cannot be interrupted, so that no program runs.          *)
Guarded ==
  /\ cpu = "user" => isr /\ "SERIAL" \notin held
  /\ "SERIAL" \in held => step = "serial" /\ ~IF_main

StuckInv == LockTypes /\ Guarded /\ StuckOnlyWhileStarting

(* A handler that is entered while no program runs stops only at a lock    *)
(* for the set up of memory, or for want of it.                            *)
LEMMA OutcomeSafe ==
  ASSUME LockTypes, Guarded, InterruptsOn, ~isr, NEW k
  PROVE  /\ Outcome(k) \in {"main", "user", "spin", "unready", "panic", "reset"}
         /\ Outcome(k) = "spin" => held \cap Memory # {}
         /\ Outcome(k) = "unready" => ~(Memory \subseteq ready)
         /\ "SERIAL" \notin held
<1>1. cpu = "main" /\ IF_main /\ "SERIAL" \notin held
  BY DEF LockTypes, Guarded, InterruptsOn
<1>2. Takes(k) \subseteq Memory \cup {"SERIAL"}
  BY DEF Takes, Memory
<1>3. "SERIAL" \notin Unusable(k)
  BY <1>1 DEF Unusable
<1>4. Unusable(k) # {} => StopsAt(k) \in Unusable(k) /\ StopsAt(k) \in Memory
  BY <1>2, <1>3 DEF StopsAt, Unusable, Memory
<1>5. Unusable(k) # {} => StopsAt(k) \in held \/ StopsAt(k) \notin ready
  BY <1>4 DEF Unusable
<1> QED BY <1>1, <1>4, <1>5 DEF Outcome

LEMMA StuckStep == StuckInv /\ [Next]_vars => StuckInv'
<1> SUFFICES ASSUME StuckInv, [Next]_vars PROVE StuckInv'
  OBVIOUS
<1>1. CASE Main
  <2> USE DEF StuckInv, LockTypes, Guarded, StuckOnlyWhileStarting, At, Drawing, GoTo,
              Finish, keys, Memory
  <2>1. CASE EnableInterrupts BY <2>1 DEF EnableInterrupts
  <2>2. CASE WriteCell BY <2>2 DEF WriteCell
  <2>3. CASE NewLine BY <2>3 DEF NewLine
  <2>4. CASE Clear BY <2>4 DEF Clear
  <2>5. CASE Draw BY <2>5 DEF Draw
  <2>6. CASE TestDirty BY <2>6 DEF TestDirty
  <2>7. CASE SetDirty BY <2>7 DEF SetDirty
  <2>8. CASE SetMin BY <2>8 DEF SetMin
  <2>9. CASE SetMax BY <2>9 DEF SetMax
  <2>10. CASE ReadRect BY <2>10 DEF ReadRect
  <2>11. CASE CleanDirty BY <2>11 DEF CleanDirty
  <2>12. CASE Copy BY <2>12 DEF Copy
  <2>13. CASE LockSerial BY <2>13, Zenon DEF LockSerial
  <2>14. CASE UnlockSerial BY <2>14 DEF UnlockSerial
  <2>15. CASE Lock BY <2>15, Zenon DEF Lock
  <2>16. CASE SetUp BY <2>16, Zenon DEF SetUp
  <2>17. CASE Unlock BY <2>17, Zenon DEF Unlock
  <2> QED BY <1>1, <2>1, <2>2, <2>3, <2>4, <2>5, <2>6, <2>7, <2>8, <2>9, <2>10, <2>11,
             <2>12, <2>13, <2>14, <2>15, <2>16, <2>17 DEF Main
<1>2. ASSUME NEW k \in Scancodes, KeyTyped(k) PROVE StuckInv'
  BY <1>2 DEF StuckInv, LockTypes, Guarded, StuckOnlyWhileStarting, KeyTyped, Memory
<1>3. ASSUME NEW k \in Scancodes, keyboard_interrupt_handler(k) PROVE StuckInv'
  <2>1. /\ Outcome(k) \in {"main", "user", "spin", "unready", "panic", "reset"}
        /\ Outcome(k) = "spin" => held \cap Memory # {}
        /\ Outcome(k) = "unready" => ~(Memory \subseteq ready)
        /\ "SERIAL" \notin held
    BY <1>3, OutcomeSafe DEF StuckInv, keyboard_interrupt_handler
  <2>2. /\ cpu' = Outcome(k) /\ UNCHANGED <<held, ready, step, IF_main>>
        /\ isr' \in BOOLEAN /\ mirror' \in BOOLEAN
        /\ cpu' = "user" => isr'
    BY <1>3, Zenon DEF StuckInv, LockTypes, keyboard_interrupt_handler, InServiceIn,
       InServiceAfter
  <2> QED BY <2>1, <2>2 DEF StuckInv, LockTypes, Guarded, StuckOnlyWhileStarting, Memory
<1>4. CASE UserPrints
  BY <1>4 DEF StuckInv, LockTypes, Guarded, StuckOnlyWhileStarting, UserPrints, keys, Memory
<1>5. CASE UserExits
  BY <1>5, Zenon DEF StuckInv, LockTypes, Guarded, StuckOnlyWhileStarting, UserExits,
     InServiceAfter, Memory
<1>6. CASE UserDups \/ UserPanics \/ UserFaults
  <2>1. cpu' \in {"hung", "panic", "halted"}
    BY <1>6 DEF StuckInv, Guarded, UserDups, UserPanics, UserFaults, Stops, panic_loop
  <2> QED BY <1>6, <2>1, Zenon DEF StuckInv, LockTypes, Guarded, StuckOnlyWhileStarting, UserDups,
             UserPanics, UserFaults, Stops, keys, Memory
<1>7. CASE UNCHANGED vars
  BY <1>7 DEF StuckInv, LockTypes, Guarded, StuckOnlyWhileStarting, vars, keys, Memory
<1> QED BY <1>1, <1>2, <1>3, <1>4, <1>5, <1>6, <1>7 DEF Next, Handle

LEMMA StuckInit == Init => StuckInv
<1> SUFFICES ASSUME Init PROVE StuckInv
  OBVIOUS
<1>1. LockTypes
  BY Zenon DEF Init, LockTypes, Memory
<1>2. cpu # "user" /\ "SERIAL" \notin held
  BY DEF Init
<1>3. StuckOnlyWhileStarting
  BY DEF Init, StuckOnlyWhileStarting
<1> QED BY <1>1, <1>2, <1>3 DEF StuckInv, Guarded

(* However keys are typed and whatever is started, a handler waits for a   *)
(* lock of the thread it interrupted, or panics for want of set up memory, *)
(* only while kinit sets memory up.                                        *)
THEOREM HandlerStuckOnlyWhileStarting == Spec => []StuckOnlyWhileStarting
<1>1. StuckInv => StuckOnlyWhileStarting
  BY DEF StuckInv
<1> QED BY <1>1, StuckInit, StuckStep, PTL DEF Spec

----------------------------------------------------------------------------
(* What the main thread has drawn and the hardware does not show is in the *)
(* dirty rectangle, in the area being marked or in what present has read.  *)

Op == Program[stage]

MarkSteps == {"mark", "set", "set_min", "set_max", "grow", "grow_max"}

DrawOps == {"char", "newline", "clear"}

(* Where the main thread can be, and that what it draws is well formed.    *)
Places ==
  /\ stage \in 1..19
  /\ Op = "idle" => step = "start"
  /\ step \in MarkSteps \cup {"draw"} => Op \in DrawOps /\ areas # << >>
  /\ DIRTY => Op \in DrawOps \/ (Op = "present" /\ step \in {"start", "clean"})
  /\ row \in Nat /\ MIN \in Int /\ MAX \in Int /\ areas \in Seq(Int \X Int)
  /\ rect \in Int \X Int /\ torn \in BOOLEAN /\ DIRTY \in BOOLEAN

Marked == IF DIRTY /\ step \notin {"set_min", "set_max"} THEN MIN..(MAX - 1) ELSE {}

Marks == IF step \in MarkSteps THEN Lo..(Hi - 1) ELSE {}

Copies == IF step \in {"clean", "copy"} THEN rect[1]..(rect[2] - 1) ELSE {}

(* Nothing is lost as long as no handler has drawn while Marking.          *)
Covered ==
  /\ step = "set" => ~DIRTY
  /\ step = "clean" /\ DIRTY => rect[1] = MIN /\ rect[2] = MAX
  /\ ~torn =>
       /\ unshown \subseteq Marked \cup Marks \cup Copies
       /\ Marking => DIRTY
       /\ step = "set_max" => MIN = Lo
       /\ step = "grow_max" => MIN <= Lo

ScreenInv == Places /\ Covered

LEMMA ProgramAt ==
  /\ Program[1] = "enable" /\ Program[2] = "char" /\ Program[3] = "newline"
  /\ Program[4] = "present" /\ Program[5] = "mirror" /\ Program[6] = "mapper"
  /\ Program[7] = "frames" /\ Program[8] = "heap" /\ Program[9] = "char"
  /\ Program[10] = "newline" /\ Program[11] = "present" /\ Program[12] = "mirror"
  /\ Program[13] = "clear" /\ Program[14] = "present" /\ Program[15] = "char"
  /\ Program[16] = "newline" /\ Program[17] = "present" /\ Program[18] = "mirror"
  /\ Program[19] = "idle"
  BY DEF Program

LEMMA NextOp ==
  ASSUME stage \in 1..19, Op # "idle"
  PROVE  /\ stage + 1 \in 1..19
         /\ Op = "char" => Program[stage + 1] = "newline"
         /\ Op \in {"newline", "clear"} => Program[stage + 1] = "present"
<1>1. stage # 19
  BY ProgramAt DEF Op
<1>2. \/ stage = 1 \/ stage = 2 \/ stage = 3 \/ stage = 4 \/ stage = 5 \/ stage = 6 \/ stage = 7 \/ stage = 8 \/ stage = 9
       \/ stage = 10 \/ stage = 11 \/ stage = 12 \/ stage = 13 \/ stage = 14 \/ stage = 15 \/ stage = 16 \/ stage = 17 \/ stage = 18
  BY <1>1
<1> QED BY <1>1, <1>2, ProgramAt DEF Op

(* A handler or a system call, at any place of the main thread: what it    *)
(* presents contains the dirty rectangle.                                  *)
LEMMA DrawnKeeps ==
  ASSUME ScreenInv, NEW lo \in Int, NEW hi \in Int, DrawnAndPresented(lo, hi),
         row' \in Nat, UNCHANGED <<stage, step>>
  PROVE  ScreenInv'
<1>1. /\ MIN' \in Int /\ MAX' \in Int /\ ~DIRTY' /\ DIRTY' \in BOOLEAN
      /\ torn' = (torn \/ Marking)
      /\ areas' = areas /\ rect' = rect
  BY Zenon DEF DrawnAndPresented, ScreenInv, Places, Least, Most
<1>2. Places'
  BY <1>1, Zenon DEF ScreenInv, Places, Op
<1>3. unshown' \cap Marked = {} /\ unshown' \subseteq unshown
  BY DEF DrawnAndPresented, Marked, ScreenInv, Places, Least, Most
<1>4. Marks' = Marks /\ Copies' = Copies /\ Marking' = Marking
  BY <1>1, Zenon DEF Marks, Copies, Lo, Hi, Marking
<1>5. ~torn' => ~torn /\ step \notin {"set_max", "grow_max"} /\ ~Marking'
  BY <1>1, <1>4, Zenon DEF Marking
<1>6. ~torn' => unshown' \subseteq Marked' \cup Marks' \cup Copies'
  BY <1>3, <1>4, <1>5, Zenon DEF ScreenInv, Covered
<1> QED BY <1>1, <1>2, <1>5, <1>6, Zenon DEF ScreenInv, Covered

LEMMA EchoKeeps ==
  ASSUME ScreenInv, Echo \/ Output, UNCHANGED <<stage, step>>
  PROVE  ScreenInv'
<1>1. row \in Nat /\ ROWS \in Nat \ {0}
  BY InterruptsAssumption DEF ScreenInv, Places
<1>2. PICK lo \in Int, hi \in Int : DrawnAndPresented(lo, hi) /\ row' \in Nat
  BY <1>1 DEF Echo, Output, Least
<1> QED BY <1>2, DrawnKeeps

LEMMA HeadIn ==
  ASSUME areas \in Seq(Int \X Int), areas # << >>
  PROVE  Lo \in Int /\ Hi \in Int /\ Tail(areas) \in Seq(Int \X Int)
<1>1. Head(areas) \in Int \X Int /\ Tail(areas) \in Seq(Int \X Int)
  OBVIOUS
<1> QED BY <1>1 DEF Lo, Hi

LEMMA PlacesStep ==
  ASSUME ScreenInv, Main PROVE Places'
<1> USE DEF ScreenInv, Places, At, Drawing, GoTo, Finish, Op, MarkSteps, DrawOps, dirty,
            screen
<1>1. CASE EnableInterrupts BY <1>1, NextOp DEF EnableInterrupts
<1>2. CASE WriteCell BY <1>2, NextOp DEF WriteCell
<1>3. CASE NewLine
  <2>1. <<<<0, ROWS - 1>>, <<ROWS - 1, ROWS>>, <<ROWS - 1, ROWS>>>> \in Seq(Int \X Int)
    BY InterruptsAssumption
  <2>2. CASE row + 1 < ROWS
    BY <1>3, <2>2, NextOp DEF NewLine
  <2>3. CASE ~(row + 1 < ROWS)
    <3>1. /\ areas' = <<<<0, ROWS - 1>>, <<ROWS - 1, ROWS>>, <<ROWS - 1, ROWS>>>>
          /\ step' = "draw" /\ Op = "newline" /\ row' = row
          /\ UNCHANGED <<stage, DIRTY, MIN, MAX, rect, torn>>
      BY <1>3, <2>3, Zenon DEF NewLine
    <3>2. areas' \in Seq(Int \X Int) /\ areas' # << >>
      BY <2>1, <3>1
    <3> QED BY <3>1, <3>2, Zenon
  <2> QED BY <2>2, <2>3
<1>4. CASE Clear BY <1>4, NextOp, InterruptsAssumption DEF Clear
<1>5. CASE Draw BY <1>5, NextOp DEF Draw
<1>6. CASE TestDirty BY <1>6, NextOp DEF TestDirty
<1>7. CASE SetDirty BY <1>7, NextOp DEF SetDirty
<1>8. CASE SetMin
  <2>1. Lo \in Int
    BY <1>8, HeadIn DEF SetMin
  <2> QED BY <1>8, <2>1, Zenon DEF SetMin, Least
<1>9. CASE SetMax
  <2>1. Hi \in Int /\ Tail(areas) \in Seq(Int \X Int)
    BY <1>9, HeadIn DEF SetMax
  <2> QED BY <1>9, <2>1, NextOp, Zenon DEF SetMax, Most
<1>10. CASE ReadRect BY <1>10, NextOp, Zenon DEF ReadRect
<1>11. CASE CleanDirty BY <1>11, NextOp, Zenon DEF CleanDirty
<1>12. CASE Copy
  <2>1. rect' \in Int \X Int
    BY <1>12 DEF Copy
  <2> QED BY <1>12, <2>1, NextOp, Zenon DEF Copy
<1>13. CASE LockSerial BY <1>13, NextOp, Zenon DEF LockSerial
<1>14. CASE UnlockSerial BY <1>14, NextOp DEF UnlockSerial
<1>15. CASE Lock BY <1>15, NextOp, Zenon DEF Lock
<1>16. CASE SetUp BY <1>16, NextOp, Zenon DEF SetUp
<1>17. CASE Unlock BY <1>17, NextOp, Zenon DEF Unlock
<1> QED BY <1>1, <1>2, <1>3, <1>4, <1>5, <1>6, <1>7, <1>8, <1>9, <1>10, <1>11,
           <1>12, <1>13, <1>14, <1>15, <1>16, <1>17 DEF Main

LEMMA CoveredStep ==
  ASSUME ScreenInv, Main PROVE Covered'
<1> USE DEF ScreenInv, Places, Covered, At, Drawing, GoTo, Finish, Marked, Marks, Copies,
            Marking, MarkSteps, dirty, screen
<1>0. areas' = areas => Lo' = Lo /\ Hi' = Hi
  BY Zenon DEF Lo, Hi
<1>1. CASE EnableInterrupts BY <1>0, <1>1 DEF EnableInterrupts
<1>2. CASE WriteCell BY <1>0, <1>2 DEF WriteCell
<1>3. CASE NewLine BY <1>0, <1>3 DEF NewLine
<1>4. CASE Clear BY <1>0, <1>4 DEF Clear
<1>5. CASE Draw BY <1>0, <1>5 DEF Draw
<1>6. CASE TestDirty BY <1>0, <1>6 DEF TestDirty
<1>7. CASE SetDirty BY <1>0, <1>7 DEF SetDirty
<1>8. CASE SetMin
  <2>1. Lo \in Int /\ Hi \in Int
    BY <1>8, HeadIn DEF SetMin
  <2> QED BY <1>0, <1>8, <2>1 DEF SetMin, Least
<1>9. CASE SetMax
  <2>1. Lo \in Int /\ Hi \in Int
    BY <1>9, HeadIn DEF SetMax
  <2>2. step' \in {"draw", "start"} /\ torn' = torn /\ DIRTY' = DIRTY /\ MIN' = MIN
    BY <1>9 DEF SetMax
  <2>3. ~torn => MIN <= Lo /\ Hi <= MAX' /\ MAX' \in Int
    BY <1>9, <2>1 DEF SetMax, Most
  <2>4. step = "grow_max" => MAX <= MAX'
    <3>1. step = "grow_max" => MAX' = Most(MAX, Hi)
      BY <1>9 DEF SetMax
    <3>2. MAX \in Int
      OBVIOUS
    <3> QED BY ONLY <2>1, <3>1, <3>2 DEF Most
  <2>5. step \in {"set_max", "grow_max"} /\ unshown' = unshown
    BY <1>9 DEF SetMax
  <2>6. ~torn => \/ step = "set_max" /\ unshown \subseteq Lo..(Hi - 1)
                 \/ step = "grow_max" /\ unshown \subseteq MIN..(MAX - 1) \cup Lo..(Hi - 1)
    BY <2>5, Zenon
  <2>7. MIN \in Int /\ MAX \in Int
    OBVIOUS
  <2>8. ~torn => unshown \subseteq MIN..(MAX' - 1)
    BY ONLY <2>1, <2>3, <2>4, <2>6, <2>7
  <2> QED BY <2>2, <2>5, <2>8
<1>10. CASE ReadRect BY <1>0, <1>10 DEF ReadRect
<1>11. CASE CleanDirty BY <1>0, <1>11 DEF CleanDirty
<1>12. CASE Copy
  <2>1. /\ step = "copy" /\ Op = "present" /\ ~DIRTY /\ rect[1] \in Int /\ rect[2] \in Int
        /\ UNCHANGED <<DIRTY, torn>>
    BY <1>12 DEF Copy, Op, DrawOps
  <2>2. CASE rect[1] < rect[2]
    <3>1. /\ step' = "copy" /\ unshown' = unshown \ {rect[1]}
          /\ rect'[1] = rect[1] + 1 /\ rect'[2] = rect[2]
      BY <1>12, <2>2 DEF Copy
    <3> QED BY <2>1, <3>1
  <2>3. CASE ~(rect[1] < rect[2])
    <3>1. step' = "start" /\ unshown' \subseteq unshown
      BY <1>12, <2>3 DEF Copy
    <3> QED BY <2>1, <2>3, <3>1
  <2> QED BY <2>2, <2>3
<1>13. CASE LockSerial BY <1>0, <1>13 DEF LockSerial
<1>14. CASE UnlockSerial BY <1>0, <1>14 DEF UnlockSerial
<1>15. CASE Lock BY <1>0, <1>15 DEF Lock
<1>16. CASE SetUp BY <1>0, <1>16 DEF SetUp
<1>17. CASE Unlock BY <1>0, <1>17 DEF Unlock
<1> QED BY <1>1, <1>2, <1>3, <1>4, <1>5, <1>6, <1>7, <1>8, <1>9, <1>10, <1>11,
           <1>12, <1>13, <1>14, <1>15, <1>16, <1>17, Zenon DEF Main

LEMMA ScreenStep == ScreenInv /\ [Next]_vars => ScreenInv'
<1> SUFFICES ASSUME ScreenInv, [Next]_vars PROVE ScreenInv'
  OBVIOUS
<1>1. CASE Main
  BY <1>1, PlacesStep, CoveredStep DEF ScreenInv
<1>2. CASE UNCHANGED <<stage, step, screen, torn>>
  BY <1>2, Zenon DEF ScreenInv, Places, Covered, Op, Marked, Marks, Copies, Marking, Lo, Hi,
     screen, dirty
<1>3. ASSUME NEW k \in Scancodes, KeyTyped(k) PROVE ScreenInv'
  BY <1>2, <1>3 DEF KeyTyped
<1>4. ASSUME NEW k \in Scancodes, keyboard_interrupt_handler(k) PROVE ScreenInv'
  BY <1>2, <1>4, EchoKeeps DEF keyboard_interrupt_handler
<1>5. CASE UserPrints \/ UserExits
  BY <1>5, EchoKeeps DEF UserPrints, UserExits
<1>6. CASE UserDups \/ UserPanics \/ UserFaults \/ UNCHANGED vars
  BY <1>2, <1>6 DEF UserDups, UserPanics, UserFaults, Stops, vars
<1> QED BY <1>1, <1>3, <1>4, <1>5, <1>6 DEF Next, Handle

LEMMA ScreenInit == Init => ScreenInv
<1> SUFFICES ASSUME Init PROVE ScreenInv
  OBVIOUS
<1>1. Op = "enable"
  BY ProgramAt DEF Init, Op
<1>2. /\ stage \in 1..19 /\ row \in Nat /\ MIN \in Int /\ MAX \in Int
      /\ areas \in Seq(Int \X Int) /\ rect \in Int \X Int
  BY DEF Init
<1>3. step = "start" /\ ~DIRTY /\ ~torn /\ unshown = {} /\ DIRTY = FALSE /\ torn = FALSE
  BY DEF Init
<1>4. step \notin MarkSteps \cup {"draw", "clean"} /\ ~Marking
  BY <1>3 DEF MarkSteps, Marking
<1>5. Places
  BY <1>1, <1>2, <1>3, <1>4, Zenon DEF Places
<1>6. Covered
  BY <1>3, <1>4 DEF Covered
<1> QED BY <1>5, <1>6 DEF ScreenInv

(* However many keys are typed on a screen of however many rows, what is   *)
(* drawn is shown in the end, unless a handler draws inside mark_dirty.    *)
THEOREM ShownUnlessTorn == Spec => []LostOnlyWhileMarking
<1>1. ScreenInv => LostOnlyWhileMarking
  BY DEF ScreenInv, Places, Covered, LostOnlyWhileMarking, Marked, Marks, Copies, MarkSteps,
     DrawOps, Op
<1> QED BY <1>1, ScreenInit, ScreenStep, PTL DEF Spec
=============================================================================
