------------------------------ MODULE FragView ------------------------------
(***************************************************************************)
(* The map of fragview as pixels, and the pointer on it. The event loop    *)
(* handles one message at a time and then draws a frame; a frame paints    *)
(* the picture only when it differs from the one on the screen and that    *)
(* one is old enough. So what is on the screen may be of another window    *)
(* than the current one, and the pointer is looked up in what is on the    *)
(* screen.                                                                 *)
(*                                                                         *)
(* Time passes in units; timers are queues of what is left of them. The    *)
(* map is on the screen, as pixels, all the time, and was drawn once.      *)
(***************************************************************************)
EXTENDS Integers, Sequences, SequencesExt

CONSTANTS
  NBlocks,       \* f.m.nblocks
  MinSpan,       \* the smallest window
  Width,         \* cells of the map across,
  MapRows,       \* and down
  CellW, CellH,  \* pixels of a cell
  MinRedraw,     \* the shortest time between two pictures
  CatchUp,       \* after which a message asks for one more frame
  Settle,        \* after which the pointer is taken to rest
  MaxTimers      \* timers of one kind that run at a time

ASSUME SizeAssumption ==
  /\ {NBlocks, MinSpan, Width, MapRows, CellW, CellH} \subseteq Nat \ {0}
  /\ MinSpan <= NBlocks
ASSUME TimeAssumption ==
  /\ {MinRedraw, CatchUp, Settle, MaxTimers} \subseteq Nat \ {0}
  /\ MinRedraw < CatchUp /\ CatchUp < Settle

VARIABLES
  viewFrom, viewTo,   \* the window
  picture,            \* the window and the box of the picture on the screen
  fresh,              \* whether its counts are those of the last scan
  age,                \* time since it was painted, up to MinRedraw
  pointer,            \* the cell of the map the pointer is on, or Off
  hoverFrom, hoverTo, \* blocks under the pointer, when it was looked up
  boxFrom, boxTo,     \* blocks with the box around them
  catching,           \* timers of catchUp()
  settling            \* timers of hoverSettleMsg

windowVars == <<viewFrom, viewTo>>
pictureVars == <<picture, fresh, age>>
hoverVars == <<hoverFrom, hoverTo>>
boxVars == <<boxFrom, boxTo>>
timerVars == <<catching, settling>>
vars == <<windowVars, pictureVars, pointer, hoverVars, boxVars, timerVars>>

Least(m, n) == IF m < n THEN m ELSE n
Most(m, n) == IF m < n THEN n ELSE m
Up(m, n) == (m + n - 1) \div n
Off == <<>>
Cell == (0 .. Width - 1) \X (0 .. MapRows - 1)

-----------------------------------------------------------------------------
(* pixLayoutFor() *)

PxW == Width * CellW
MaxTileAspect == 2

\* With n terminal rows to a row of blocks.
Tiles(span, n) ==
  LET tileRows == MapRows \div n
      perRow == Up(span, tileRows)
  IN [tileRows |-> tileRows, rowSpan |-> n, blocksPerRow |-> perRow,
      blockPx |-> PxW \div perRow, perCol |-> 0]

Fits(l) == l.blockPx <= MaxTileAspect * l.rowSpan * CellH \/ l.tileRows = 1

\* Fewest terminal rows to a row of blocks that keep a tile from being a strip;
\* or, where blocks are narrower than a pixel, columns of perCol blocks.
Layout == [span \in 1 .. NBlocks |->
  LET perRow == Up(span, MapRows)
      perCol == Up(perRow, PxW)
      n == CHOOSE n \in 1 .. MapRows :
             Fits(Tiles(span, n)) /\ \A k \in 1 .. n - 1 : ~Fits(Tiles(span, k))
  IN IF perRow > PxW
     THEN [tileRows |-> MapRows, rowSpan |-> 1, blocksPerRow |-> perCol * PxW,
           blockPx |-> 0, perCol |-> perCol]
     ELSE Tiles(span, n)]

Painted == Layout[picture.to - picture.from]

-----------------------------------------------------------------------------
(* A frame: render() after every message. *)

\* resolveHover(): in the layout of the picture on the screen.
ResolveFrom(window, p) ==
  LET l == Painted
      x == p[1] * CellW
      row == window + (p[2] \div l.rowSpan) * l.blocksPerRow
      last == Least(window + l.tileRows * l.blocksPerRow, NBlocks)
      from == IF l.blockPx > 0 THEN ((x + CellW \div 2) * l.blocksPerRow) \div PxW
                               ELSE x * l.perCol
      to == IF l.blockPx > 0 THEN from + 1
                             ELSE Least(x + CellW, PxW) * l.perCol
  IN IF p = Off THEN <<0, 0>>
     ELSE IF p[2] \div l.rowSpan >= l.tileRows THEN <<0, 0>>
     ELSE <<Least(row + from, last), Least(row + to, last)>>

\* Variant of the next definition: bounds of the current window.
ResolveInWindow(p) == ResolveFrom(viewFrom', p)

Resolve(p) == ResolveFrom(picture.from, p)

\* pixelBlockMap(): the new picture if it would be another and its time has
\* come.
Frame(counts) ==
  LET key == [from |-> viewFrom', to |-> viewTo', boxFrom |-> boxFrom',
              boxTo |-> boxTo']
      hover == Resolve(pointer')
  IN /\ hoverFrom' = hover[1] /\ hoverTo' = hover[2]
     /\ IF (key # picture \/ ~counts) /\ age >= MinRedraw
        THEN picture' = key /\ fresh' = TRUE /\ age' = 0
        ELSE fresh' = counts /\ UNCHANGED <<picture, age>>

-----------------------------------------------------------------------------
(* clamp(), zoom() and pan() *)

\* The window of this length nearest to the place asked for, without the box.
Clamped(from, span) ==
  LET f == Most(from, 0)
  IN /\ viewFrom' = IF f + span > NBlocks THEN Most(NBlocks - span, 0) ELSE f
     /\ viewTo' = Least(f + span, NBlocks)
     /\ boxFrom' = 0 /\ boxTo' = 0

\* A part of a length, rounded towards zero.
Scaled(n, span, old) ==
  IF n >= 0 THEN (n * span) \div old ELSE -((-n * span) \div old)

ZoomTo(least, asked) ==
  LET span == Least(Most(asked, least), NBlocks)
      old == viewTo - viewFrom
  IN Clamped(IF hoverTo > hoverFrom
             THEN hoverFrom - Scaled(hoverFrom - viewFrom, span, old)
             ELSE viewFrom, span)

\* Variant of the next definition: no smallest window.
ZoomWithoutFloor(asked) == ZoomTo(0, asked)

Zoom(asked) == ZoomTo(MinSpan, asked)

Pan(by) == Clamped(viewFrom + by, viewTo - viewFrom)

Row == Painted.blocksPerRow
Screen == Row * Painted.tileRows

-----------------------------------------------------------------------------
(* Messages. *)

StartTimer(timers, length) == timers' = Append(timers, length)

\* Variant of the next definition: the frame is asked for too early.
CatchUpEarly == StartTimer(catching, MinRedraw - 1)
CatchUpLater == StartTimer(catching, CatchUp)

MayStart == Len(catching) < MaxTimers /\ Len(settling) < MaxTimers

Motion(p) ==
  /\ MayStart /\ p # pointer
  /\ pointer' = p
  /\ CatchUpLater
  /\ StartTimer(settling, Settle)
  /\ UNCHANGED <<windowVars, boxVars>>
  /\ Frame(fresh)

\* wheel()
Wheel ==
  /\ MayStart
  /\ \/ \E by \in {Row, -Row} : Pan(by)
     \/ Zoom((viewTo - viewFrom) * 2)
     \/ Zoom((viewTo - viewFrom) \div 2)
  /\ CatchUpLater
  /\ StartTimer(settling, Settle)
  /\ UNCHANGED pointer
  /\ Frame(fresh)

\* key()
Key ==
  /\ Len(catching) < MaxTimers
  /\ \/ \E by \in {Row, Screen, Most(Row \div 4, 1)} : Pan(by) \/ Pan(-by)
     \/ Zoom((viewTo - viewFrom) * 2)
     \/ Zoom((viewTo - viewFrom) \div 2)
     \/ Clamped(0, NBlocks)
     \/ Clamped(NBlocks - (viewTo - viewFrom), viewTo - viewFrom)
  /\ CatchUpLater
  /\ UNCHANGED <<pointer, settling>>
  /\ Frame(fresh)

\* Only the pointer's last motion settles it; what came before draws a frame.
HoverSettled ==
  /\ settling # <<>> /\ Head(settling) = 0
  /\ settling' = Tail(settling)
  /\ IF settling' = <<>> THEN boxFrom' = hoverFrom /\ boxTo' = hoverTo
                         ELSE UNCHANGED boxVars
  /\ UNCHANGED <<windowVars, pointer, catching>>
  /\ Frame(fresh)

CaughtUp ==
  /\ catching # <<>> /\ Head(catching) = 0
  /\ catching' = Tail(catching)
  /\ UNCHANGED <<windowVars, pointer, boxVars, settling>>
  /\ Frame(fresh)

\* scanDoneMsg: the counts may have changed.
ScanDone ==
  /\ UNCHANGED <<windowVars, pointer, boxVars, timerVars>>
  /\ Frame(FALSE)

\* Timers that have run out are handled before time goes on.
Pass ==
  /\ \A q \in {catching, settling} : q # <<>> => Head(q) > 0
  /\ catching' = [i \in DOMAIN catching |-> catching[i] - 1]
  /\ settling' = [i \in DOMAIN settling |-> settling[i] - 1]
  /\ age' = Least(age + 1, MinRedraw)
  /\ UNCHANGED <<windowVars, picture, fresh, pointer, hoverVars, boxVars>>

-----------------------------------------------------------------------------
Init ==
  /\ viewFrom = 0 /\ viewTo = NBlocks
  /\ picture = [from |-> 0, to |-> NBlocks, boxFrom |-> 0, boxTo |-> 0]
  /\ fresh = TRUE /\ age = 0
  /\ pointer = Off
  /\ hoverFrom = 0 /\ hoverTo = 0
  /\ boxFrom = 0 /\ boxTo = 0
  /\ catching = <<>> /\ settling = <<>>

Next ==
  \/ \E p \in Cell \cup {Off} : Motion(p)
  \/ Wheel \/ Key \/ HoverSettled \/ CaughtUp \/ ScanDone \/ Pass

Spec == Init /\ [][Next]_vars

-----------------------------------------------------------------------------
\* The window is within the map and never smaller than it may be; nothing else
\* is boxed or pointed at than blocks of the map.
WindowInMap ==
  /\ 0 <= viewFrom /\ viewTo <= NBlocks
  /\ viewTo - viewFrom >= MinSpan
  /\ 0 <= hoverFrom /\ hoverFrom <= hoverTo /\ hoverTo <= NBlocks
  /\ 0 <= boxFrom /\ boxFrom <= boxTo /\ boxTo <= NBlocks
  /\ age \in 0 .. MinRedraw /\ fresh \in BOOLEAN
  /\ pointer \in Cell \cup {Off}

\* The comment on catchUpMsg: a burst of scrolling ends on the truth. With no
\* such message to come the picture is of the current window.
PictureFollows ==
  catching = <<>> => picture.from = viewFrom /\ picture.to = viewTo

\* What is on the screen: a window of the map, and the current one. (applyZoom(),
\* pan(), catchUp())
ViewRight == WindowInMap /\ PictureFollows

\* paintBlocks() and paintAggregated(): blocks the pixels of a cell show, or leave
\* blank for want of memory in them. The last row of the grid may go on behind the
\* end of the window, and nothing is drawn there.
DrawnIn(p) ==
  LET l == Painted
      t == p[2] \div l.rowSpan
      pixels == p[1] * CellW .. p[1] * CellW + CellW - 1
      row == picture.from + t * l.blocksPerRow
      here(j) == IF l.blockPx > 0
                 THEN \E x \in pixels : /\ (j * PxW) \div l.blocksPerRow <= x
                                        /\ x < ((j + 1) * PxW) \div l.blocksPerRow
                 ELSE j \div l.perCol \in pixels
  IN { row + j : j \in { j \in 0 .. l.blocksPerRow - 1 : row + j < picture.to /\ here(j) } }

Named == hoverFrom .. hoverTo - 1
Window == picture.from .. picture.to - 1

\* What is said to be under the pointer, as far as it is in the window of the picture
\* that was on the screen when it was looked up, is drawn there, where the pointer
\* is; and where a column of pixels stands for several blocks none that is drawn
\* there is missing: "everything under the cell". (resolveHover())
PointsAtDrawn ==
  [][\/ Pass
     \/ pointer' = Off /\ Named' = {}
     \/ /\ pointer' # Off
        /\ Named' \cap Window \subseteq DrawnIn(pointer')
        /\ Painted.blockPx = 0 => DrawnIn(pointer') \subseteq Named']_vars

\* The comment on TestHoverRoundTrip(): the pointer has to land on the block that was
\* drawn where the pointer is. In a blank place nothing is drawn.
LandsOnDrawn ==
  [][Pass \/ \A b \in Named' : pointer' # Off /\ b \in DrawnIn(pointer')]_vars
=============================================================================
