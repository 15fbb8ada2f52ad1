------------------------------ MODULE Console -------------------------------
(***************************************************************************)
(* The terminal, console.rs, on the frame buffer, fb.rs.  The text is in a *)
(* ring of RING lines addressed by absolute line number; the screen shows  *)
(* the ROWS lines from view_top on.  The code never redraws the screen as  *)
(* a whole: it moves the pixels it has and draws the rows that come into   *)
(* view, into a back buffer whose changed rectangle present copies to the  *)
(* hardware.                                                               *)
(*                                                                         *)
(* A character cell is one pixel wide and CHAR_HEIGHT pixels high, and a   *)
(* pixel is <<c, p>>: line p of the glyph for c (Blank for any line of a   *)
(* space).  Colours are the defaults.  Every function here ends with       *)
(* present and runs to its end before the next (Interrupts looks at what   *)
(* happens when it does not).                                              *)
(***************************************************************************)
EXTENDS Integers, SequencesExt

CONSTANTS
  COLUMNS, ROWS, CHAR_HEIGHT,
  EXTRA,        \* pixel lines below the last row of text
  RING,         \* SCROLLBACK_ROWS
  TAB_SIZE, INPUT_SIZE, SCROLL_LINES,
  Keys,         \* characters typed
  Outputs,      \* texts that commands and the kernel print
  MaxSteps      \* bound: keys and printed texts in a behaviour

VARIABLES
  con,    \* .x, .line, .top, .cells, .input; .back, .dirty of the frame buffer
  front,  \* the hardware frame buffer
  lines,  \* what the terminal should hold: every line since the last clear
  climbed,  \* what printed Backspaces did that left a line at its start
  split,  \* the kernel has printed since the last prompt
  steps

vars == <<con, front, lines, climbed, split, steps>>

ASSUME ConsoleAssumption ==
  /\ COLUMNS > 2 /\ ROWS > 0 /\ CHAR_HEIGHT > 0 /\ EXTRA \in 0..(CHAR_HEIGHT - 1)
  /\ RING > ROWS /\ TAB_SIZE > 0

Height == ROWS * CHAR_HEIGHT + EXTRA
Cols == 0..(COLUMNS - 1)
PixelRows == 0..(Height - 1)
EMPTY == " "
Newline == "\n"
Return == "\r"
Tab == "\t"
Backspace == "backspace"

EmptyLine == [x \in Cols |-> EMPTY]

Blank == <<EMPTY, 0>>

BlankScreen == [y \in PixelRows |-> [x \in Cols |-> Blank]]

Pixel(c, p) == IF c = EMPTY THEN Blank ELSE <<c, p>>

Saturating(n) == IF n < 0 THEN 0 ELSE n

----------------------------------------------------------------------------
(* fb.rs.  A rectangle is [x0, y0, x1, y1], without its last edges.        *)

Rect(x, y, w, h) == [x0 |-> x, y0 |-> y, x1 |-> Min({x + w, COLUMNS}),
                     y1 |-> Min({y + h, Height})]

Clean == Rect(0, 0, 0, 0)

mark_dirty(s, r) ==
  [s EXCEPT !.dirty = IF @ = Clean THEN r
                      ELSE [x0 |-> Min({@.x0, r.x0}), y0 |-> Min({@.y0, r.y0}),
                            x1 |-> Max({@.x1, r.x1}), y1 |-> Max({@.y1, r.y1})]]

fb_clear(s) ==
  mark_dirty([s EXCEPT !.back = BlankScreen], Rect(0, 0, COLUMNS, Height))

draw_rect(s, r) ==
  IF r.x1 <= r.x0 \/ r.y1 <= r.y0 THEN s
  ELSE mark_dirty([s EXCEPT !.back = [y \in PixelRows |-> [x \in Cols |->
                     IF x \in r.x0..(r.x1 - 1) /\ y \in r.y0..(r.y1 - 1)
                       THEN Blank ELSE @[y][x]]]], r)

(* The rows from src on to those from dst on, over the whole width.        *)
copy_rect(s, src, dst, rows) ==
  LET h == Min({rows, Height - src, Height - dst})
  IN  IF src >= Height \/ dst >= Height \/ h = 0 THEN s
      ELSE mark_dirty([s EXCEPT !.back = [y \in PixelRows |->
                         IF y \in dst..(dst + h - 1) THEN @[src + y - dst] ELSE @[y]]],
                      Rect(0, dst, COLUMNS, h))

fb_scroll_up(s, pixels) ==
  IF pixels >= Height THEN fb_clear(s)
  ELSE draw_rect(copy_rect(s, pixels, 0, Height - pixels),
                 Rect(0, Height - pixels, COLUMNS, pixels))

fb_scroll_down(s, pixels) ==
  IF pixels >= Height THEN fb_clear(s)
  ELSE draw_rect(copy_rect(s, 0, pixels, Height - pixels), Rect(0, 0, COLUMNS, pixels))

(* The hardware after present.                                             *)
Presented(s) ==
  LET r == s.dirty
  IN  [y \in PixelRows |->
         [x \in Cols |-> IF x \in r.x0..(r.x1 - 1) /\ y \in r.y0..(r.y1 - 1)
                           THEN s.back[y][x] ELSE front[y][x]]]

----------------------------------------------------------------------------
(* console.rs: drawing and scrolling.                                      *)

live_view_top(s) == Saturating(s.line - (ROWS - 1))

oldest_valid_line(s) == Saturating(s.line - (RING - 1))

get_cell(s, line, x) == s.cells[line % RING][x]

set_cell(s, line, x, c) == [s EXCEPT !.cells[line % RING][x] = c]

clear_line(s, line) == [s EXCEPT !.cells[line % RING] = EmptyLine]

(* Each cell of the rows and columns: its background, the glyph over it.   *)
Render(s, rows, cols) ==
  [s EXCEPT !.back =
     [y \in PixelRows |-> [x \in Cols |->
        IF y \div CHAR_HEIGHT \in rows /\ x \in cols
          THEN Pixel(get_cell(s, s.top + y \div CHAR_HEIGHT, x), y % CHAR_HEIGHT)
          ELSE @[y][x]]]]

render_cell(s, row, x) ==
  IF row >= ROWS THEN s
  ELSE mark_dirty(Render(s, {row}, {x}),
                  Rect(x, row * CHAR_HEIGHT, 1, CHAR_HEIGHT))

(* render_row for n rows from the first on.                                *)
render_rows(s, first, n) ==
  mark_dirty(Render(s, first..(first + n - 1), Cols),
             Rect(0, first * CHAR_HEIGHT, COLUMNS, n * CHAR_HEIGHT))

follow_bottom(s) ==
  IF s.top = live_view_top(s) THEN s
  ELSE render_rows([s EXCEPT !.top = live_view_top(s)], 0, ROWS)

(* Towards older lines: the picture moves down, the rows above are drawn.  *)
scroll_up(s, n) ==
  LET live   == live_view_top(s)
      old    == Saturating(live - s.top)
      new    == Min({old + n, Saturating(live - oldest_valid_line(s))})
      actual == Saturating(new - old)
      shown  == Min({actual, ROWS})
  IN  IF actual = 0 THEN s
      ELSE render_rows(fb_scroll_down([s EXCEPT !.top = Saturating(live - new)],
                                      shown * CHAR_HEIGHT), 0, shown)

scroll_down(s, n) ==
  LET new    == Min({s.top + n, live_view_top(s)})
      actual == Saturating(new - s.top)
      shown  == Min({actual, ROWS})
  IN  IF actual = 0 THEN s
      ELSE render_rows(fb_scroll_up([s EXCEPT !.top = new], shown * CHAR_HEIGHT),
                       ROWS - shown, shown)

----------------------------------------------------------------------------
(* console.rs: characters.                                                 *)

(* Faulty variant: the line keeps what the ring held there before.         *)
ReuseLine(s) == s

FreshLine(s) == clear_line(s, s.line)

newline(s0) ==
  LET s == [s0 EXCEPT !.x = 0]
      t == [fb_scroll_up(s, CHAR_HEIGHT) EXCEPT !.line = @ + 1]
  IN  IF s.line + 1 < ROWS THEN [s EXCEPT !.line = @ + 1]
      ELSE render_rows(FreshLine([t EXCEPT !.top = live_view_top(t)]), ROWS - 1, 1)

write_cell(s0, c) ==
  LET s == IF s0.x >= COLUMNS THEN newline(s0) ELSE s0
      t == render_cell(set_cell(s, s.line, s.x, c), Saturating(s.line - s.top), s.x)
      u == [t EXCEPT !.x = @ + 1]
  IN  IF u.x >= COLUMNS THEN newline(u) ELSE u

(* At the start of a line the cursor goes to the end of the line before;   *)
(* view_top follows it and nothing is drawn but the cell.                  *)
backspace(s) ==
  LET up  == [s EXCEPT !.line = @ - 1, !.x = COLUMNS - 1]
      t   == IF s.x > 0 THEN [s EXCEPT !.x = @ - 1]
             ELSE [up EXCEPT !.top = live_view_top(up)]
  IN  IF s.x = 0 /\ s.line = 0 THEN s
      ELSE render_cell(set_cell(t, t.line, t.x, EMPTY),
                       Saturating(t.line - t.top), t.x)

put_char(s0, c) ==
  LET s   == follow_bottom(s0)
      tab == (s.x \div TAB_SIZE + 1) * TAB_SIZE
  IN  CASE c = Newline   -> newline(s)
        [] c = Return    -> [s EXCEPT !.x = 0]
        [] c = Tab       -> IF tab >= COLUMNS THEN newline(s) ELSE [s EXCEPT !.x = tab]
        [] c = Backspace -> backspace(s)
        [] OTHER         -> write_cell(s, c)

write_str(s, text) == FoldLeft(put_char, s, text)

Prompt == <<"$", EMPTY>>

console_clear(s) ==
  fb_clear([s EXCEPT !.cells = [i \in 0..(RING - 1) |-> EmptyLine],
                     !.x = 0, !.line = 0, !.top = 0, !.input = << >>])

----------------------------------------------------------------------------
(* The terminal without a ring, a view or pixels: each character on the    *)
(* sequence of all lines, of which the last is the cursor's.               *)

(* What becomes of the n lines when a Backspace leaves the last at its     *)
(* start: "view", the view moves on the screen as it is; "slot", a line    *)
(* comes back into reach that the ring has overwritten; "text", the line   *)
(* that is left keeps its text, which the next newline goes back to.       *)
Climb(ls) ==
  {e \in {"view", "slot", "text"} :
     \/ e = "view" /\ Len(ls) > ROWS
     \/ e = "slot" /\ Len(ls) > RING
     \/ e = "text" /\ Len(ls) <= ROWS /\ Last(ls) # EmptyLine}

Typed(t, c) ==
  LET down(u) == [u EXCEPT !.lines = Append(@, EmptyLine), !.x = 0]
      tab == (t.x \div TAB_SIZE + 1) * TAB_SIZE
      put == [t EXCEPT !.lines[Len(t.lines)][t.x] = c, !.x = @ + 1]
      n   == Len(t.lines)
  IN  CASE c = Newline   -> down(t)
        [] c = Return    -> [t EXCEPT !.x = 0]
        [] c = Tab       -> IF tab >= COLUMNS THEN down(t) ELSE [t EXCEPT !.x = tab]
        [] c = Backspace -> IF t.x > 0 THEN [t EXCEPT !.lines[n][t.x - 1] = EMPTY,
                                                      !.x = @ - 1]
                            ELSE IF n = 1 THEN t
                            ELSE [lines |-> [Front(t.lines) EXCEPT
                                               ![n - 1][COLUMNS - 1] = EMPTY],
                                  x |-> COLUMNS - 1,
                                  climbed |-> t.climbed \cup Climb(t.lines)]
        [] OTHER         -> IF put.x = COLUMNS THEN down(put) ELSE put

Terminal == [lines |-> lines, x |-> con.x, climbed |-> climbed]

ClearTerminal == [lines |-> <<EmptyLine>>, x |-> 0, climbed |-> {}]

After(t, text) == FoldLeft(Typed, t, text)

----------------------------------------------------------------------------
(* What is done to the terminal; every one of them presents at its end.    *)

Show(s, t) ==
  /\ steps < MaxSteps /\ steps' = steps + 1
  /\ con' = [s EXCEPT !.dirty = Clean]
  /\ front' = Presented(s)
  /\ lines' = t.lines /\ climbed' = t.climbed

(* From the kernel while it starts.                                        *)
write_fmt(text) ==
  /\ Show(write_str(con, text), After(Terminal, text))
  /\ split' = TRUE

(* Faulty variant: a key for which there is no room is shown all the same. *)
EchoAlways(s, c) ==
  put_char(IF Len(s.input) < INPUT_SIZE THEN [s EXCEPT !.input = Append(@, c)]
           ELSE s, c)

EchoStored(s, c) ==
  IF Len(s.input) < INPUT_SIZE THEN put_char([s EXCEPT !.input = Append(@, c)], c)
  ELSE s

TypeKey(c) ==
  /\ Show(EchoStored(con, c),
          IF Len(con.input) < INPUT_SIZE THEN After(Terminal, <<c>>) ELSE Terminal)
  /\ UNCHANGED split

(* Faulty variant: the prompt and the edge of the screen are not guarded.  *)
CanErase(s) == Len(s.input) > 0

CanDelete(s) == Len(s.input) > 0 /\ s.x > 2

DeleteKey ==
  /\ CanDelete(con)
  /\ Show(put_char([con EXCEPT !.input = Front(@)], Backspace),
          [After(Terminal, <<Backspace>>) EXCEPT !.climbed = climbed])
  /\ UNCHANGED split

(* The buffer is as long as the longest line, so all of it is taken.       *)
read_line(s) == [s EXCEPT !.input = << >>]

(* The line goes to the shell, whose command prints text; then the prompt. *)
EnterKey(text) ==
  LET rest == text \o Prompt
  IN  /\ Show(write_str(read_line(put_char(con, Newline)), rest),
              After(Terminal, <<Newline>> \o rest))
      /\ split' = FALSE

(* Ctrl+L: the letter is taken as a key before the terminal is cleared.    *)
ClearKey ==
  /\ Show(write_str(console_clear(EchoStored(con, "l")), Prompt),
          After(ClearTerminal, Prompt))
  /\ split' = FALSE

ScrollKey(up) ==
  /\ Show(IF up THEN scroll_up(con, SCROLL_LINES) ELSE scroll_down(con, SCROLL_LINES),
          Terminal)
  /\ UNCHANGED split

----------------------------------------------------------------------------
(* The frame buffer is cleared and presented first, then comes a console   *)
(* of empty cells.                                                         *)
fb_init == [back |-> BlankScreen, dirty |-> Clean]

new(fb) ==
  [x |-> 0, line |-> 0, top |-> 0, input |-> << >>,
   cells |-> [i \in 0..(RING - 1) |-> EmptyLine],
   back |-> fb.back, dirty |-> fb.dirty]

(* init: clear, the prompt, present.                                       *)
Init ==
  LET s == write_str(console_clear(new(fb_init)), Prompt)
  IN  /\ con = [s EXCEPT !.dirty = Clean]
      /\ front = s.back
      /\ lines = After(ClearTerminal, Prompt).lines /\ climbed = {}
      /\ split = FALSE
      /\ steps = 0

Next ==
  \/ \E text \in Outputs : write_fmt(text) \/ EnterKey(text)
  \/ \E c \in Keys : TypeKey(c)
  \/ DeleteKey
  \/ ClearKey
  \/ \E up \in BOOLEAN : ScrollKey(up)

Spec == Init /\ [][Next]_vars

----------------------------------------------------------------------------
(* The hardware shows the viewport, although pixels are moved rather than  *)
(* drawn and only a rectangle is copied: every pixel of every row of text  *)
(* is that of the cell at that place of the view.  After a program has     *)
(* printed a Backspace at the start of a line of a scrolled screen this    *)
(* waits for the next clear, for backspace moves view_top and draws one    *)
(* cell; the Backspace key is not excused.                                 *)
ScreenShowsViewport ==
  "view" \in climbed \/
    \A y \in 0..(ROWS * CHAR_HEIGHT - 1), x \in Cols :
      front[y][x] = Pixel(get_cell(con, con.top + y \div CHAR_HEIGHT, x),
                          y % CHAR_HEIGHT)

(* The ring keeps the last RING lines of the terminal, each line that can  *)
(* be scrolled to exactly as it was printed, however often the ring has    *)
(* been round.  Printed Backspaces that go up a line are part of this,     *)
(* except, until the next clear, one that brings an overwritten line back  *)
(* into reach or leaves text on a screen that has not scrolled yet.        *)
HistoryExact ==
  /\ con.line = Len(lines) - 1
  /\ con.top \in oldest_valid_line(con)..live_view_top(con)
  /\ climbed \cap {"slot", "text"} = {} =>
       \A l \in oldest_valid_line(con)..con.line : con.cells[l % RING] = lines[l + 1]

(* What the shell will get is what is on the terminal: the cells before    *)
(* the cursor, over wrapped lines, spell the prompt and the input, unless  *)
(* the kernel printed something in between.                                *)
InputIsWhatIsShown ==
  LET shown == Prompt \o con.input
      start == con.line * COLUMNS + con.x - Len(shown)
  IN  split \/ \A i \in 1..Len(shown) :
        LET p == start + i - 1
        IN  get_cell(con, p \div COLUMNS, p % COLUMNS) = shown[i]
=============================================================================
