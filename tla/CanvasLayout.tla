----------------------------- MODULE CanvasLayout -----------------------------
(***************************************************************************)
(* The grid of a dashboard (features/insights/layout-edit.ts,              *)
(* responsive-layout.ts, canvas.tsx, newWidget in schema.ts): the edits of *)
(* the saved layout by keyboard and by drag, and the projections that      *)
(* narrow or dense canvases draw instead of it.                            *)
(*                                                                         *)
(* A layout is a function from the widgets on the canvas to boxes.  The    *)
(* saved grid has Columns columns (12 in the code), the projections always *)
(* have twelve.                                                            *)
(***************************************************************************)
EXTENDS Integers, Sequences, FiniteSets, SequencesExt, FiniteSetsExt, TLC

CONSTANTS
    Widgets,
    Spare,    \* further statistics, in the order the projections meet them
    Kind,     \* per widget: stat, plot or calendar (a plugin)
    IdOrder,  \* per widget, its place in the order of identifiers
    Columns,  \* GRID_COLUMNS
    SmallW,   \* the widest plugin that a narrow canvas halves, 4 in the code
    MaxH,     \* the largest height of a widget, 12 in the code
    MaxY,     \* the last row of a document, 1000 in the code
    Rows,     \* bound: the rows widgets of a saved document start in
    Heights,  \* bound: their heights
    DropRows  \* bound: the rows a widget is dropped in

ASSUME LayoutAssumption ==
    /\ IsFiniteSet(Widgets) /\ Widgets # {}
    /\ Range(Spare) \cap Widgets = {} /\ IsInjective(Spare)
    /\ Kind \in [Widgets \cup Range(Spare) -> {"stat", "plot", "calendar"}]
    /\ IdOrder \in [Widgets \cup Range(Spare) -> Nat] /\ IsInjective(IdOrder)
    /\ Columns \in Nat \ {0} /\ SmallW \in Nat /\ MaxH \in Nat \ {0, 1} /\ Rows \in Nat
    /\ Heights \subseteq 1 .. MaxH /\ DropRows \subseteq 0 .. MaxY
    /\ MaxY \in Nat /\ MaxY >= Rows + Cardinality(Widgets) * MaxH

VARIABLES
    layout,  \* the saved layout
    edited   \* history: no, settled by the last edit, or since then changed

vars == <<layout, edited>>

Box == [x : 0 .. Columns - 1, y : 0 .. MaxY, w : 1 .. Columns, h : 1 .. MaxH]

MinH(w) == IF Kind[w] = "stat" THEN 1 ELSE 2

SharesColumns(a, b) == a.x < b.x + b.w /\ b.x < a.x + a.w

SharesRows(a, b) == a.y < b.y + b.h /\ b.y < a.y + a.h

(* readingOrder(v, w) < 0: top to bottom, left to right, then the id *)
Reads(l, v, w) ==
    \/ l[v].y < l[w].y
    \/ l[v].y = l[w].y /\ l[v].x < l[w].x
    \/ l[v].y = l[w].y /\ l[v].x = l[w].x /\ IdOrder[v] < IdOrder[w]

FirstOf(l, S) == CHOOSE w \in S : \A v \in S \ {w} : Reads(l, w, v)
LastOf(l, S)  == CHOOSE w \in S : \A v \in S \ {w} : Reads(l, v, w)
InOrder(l)    == SortSeq(FoldSet(LAMBDA w, seq : Append(seq, w), <<>>, DOMAIN l),
                         LAMBDA v, w : Reads(l, v, w))

-----------------------------------------------------------------------------
(* arrange                                                                 *)

(* The pairs that before() records: others keep their saved order, id      *)
(* comes after what it passed, on the side where that was saved            *)
Precedes(l, id, target, passed) ==
    LET others == DOMAIN l \ {id}
        beside == {v \in others : SharesColumns(l[v], target)}
        first  == {v \in beside : Reads(l, id, v) <=> v \in passed}
    IN {<<v, w>> \in others \X others : Reads(l, v, w) /\ SharesColumns(l[v], l[w])}
       \cup (first \X {id}) \cup ({id} \X (beside \ first))

Ready(precedes, rest) == {w \in rest : \A v \in rest : <<v, w>> \notin precedes}

(* Mutant: a widget rests on the first one found in its columns *)
RestOnAny(placed, box) ==
    LET under == {u \in DOMAIN placed : SharesColumns(placed[u], box)}
    IN IF under = {} THEN 0 ELSE Min({placed[v].y + placed[v].h : v \in under})

(* Each widget rests below every earlier one in its columns *)
Rest(placed, box) ==
    Max({0} \cup {placed[v].y + placed[v].h : v \in {u \in DOMAIN placed : SharesColumns(placed[u], box)}})

Arrange(l, id, target, passed) ==
    LET precedes == Precedes(l, id, target, passed)
        sizes    == [l EXCEPT ![id] = target]
        step(placed, i) ==
            LET rest  == DOMAIN l \ DOMAIN placed
                ready == Ready(precedes, rest)
                w     == FirstOf(l, IF ready # {} THEN ready ELSE rest)
            IN placed @@ (w :> [sizes[w] EXCEPT !.y = Rest(placed, sizes[w])])
    IN FoldLeftDomain(step, <<>>, InOrder(l))

-----------------------------------------------------------------------------
(* moveLayout, resizeLayout, dragLayout                                    *)

(* The widgets in id's columns on one side of it *)
Side(l, id, move) ==
    {v \in DOMAIN l \ {id} : SharesColumns(l[v], l[id])
                             /\ IF move = "down" THEN Reads(l, id, v) ELSE Reads(l, v, id)}

Neighbour(l, id, move) ==
    IF move = "down" THEN FirstOf(l, Side(l, id, move)) ELSE LastOf(l, Side(l, id, move))

(* Mutant: only the neighbour is passed *)
PassedPartner(l, id, move) == {Neighbour(l, id, move)}

PassedBand(l, id, move) ==
    LET partner == l[Neighbour(l, id, move)]
    IN {Neighbour(l, id, move)}
       \cup {v \in Side(l, id, move) : IF move = "down" THEN l[v].y < partner.y + partner.h
                                       ELSE l[v].y + l[v].h > partner.y}

(* x + w > GRID_COLUMNS, or x < 0: already at the edge *)
Moved(l, id, move) == [l[id] EXCEPT !.x = @ + (IF move = "left" THEN -1 ELSE 1)]

CanMove(l, id, move) ==
    IF move \in {"up", "down"} THEN Side(l, id, move) # {}
    ELSE Moved(l, id, move).x >= 0 /\ Moved(l, id, move).x + l[id].w <= Columns

MoveLayout(l, id, move) ==
    IF move \in {"up", "down"} THEN Arrange(l, id, l[id], PassedBand(l, id, move))
    ELSE Arrange(l, id, Moved(l, id, move), {})

Sized(l, id, dw, dh) == [l[id] EXCEPT !.w = @ + dw, !.h = @ + dh]

CanResize(l, id, dw, dh) ==
    LET box == Sized(l, id, dw, dh)
    IN /\ box.w >= 1 /\ box.w <= Columns - l[id].x
       /\ box.h >= MinH(id) /\ box.h <= MaxH

ResizeLayout(l, id, dw, dh) == Arrange(l, id, Sized(l, id, dw, dh), {})

(* The widgets whose midpoint the dragged one has crossed *)
Crossed(l, id, at) ==
    {v \in DOMAIN l \ {id} :
        /\ SharesColumns(l[v], at)
        /\ \/ at.y > l[id].y /\ Reads(l, id, v) /\ 2 * at.y >= 2 * l[v].y + l[v].h
           \/ at.y < l[id].y /\ Reads(l, v, id) /\ 2 * at.y <= 2 * l[v].y + l[v].h}

DragLayout(l, id, at) == Arrange(l, id, at, Crossed(l, id, at))

-----------------------------------------------------------------------------
Moves   == {"left", "right", "up", "down"}
Resizes == {<<-1, 0>>, <<1, 0>>, <<0, -1>>, <<0, 1>>}

(* External: where the grid lets a widget be dropped *)
Drops(id) == {[layout[id] EXCEPT !.x = x, !.y = y] :
                 x \in 0 .. Columns - layout[id].w, y \in DropRows}

(* layoutUpdate *)
Saves(l) == /\ layout' = [w \in DOMAIN l |-> [l[w] EXCEPT !.y = Min({MaxY, @})]]
            /\ edited' = "settled"

Move(id) ==
    \E move \in Moves : CanMove(layout, id, move) /\ Saves(MoveLayout(layout, id, move))

Resize(id) ==
    \E d \in Resizes : CanResize(layout, id, d[1], d[2]) /\ Saves(ResizeLayout(layout, id, d[1], d[2]))

Drag(id) == \E at \in Drops(id) : Saves(DragLayout(layout, id, at))

Touched == edited' = IF edited = "no" THEN "no" ELSE "since"

Bottom(l) == Min({MaxY, Max({0} \cup {l[w].y + l[w].h : w \in DOMAIN l})})

(* newWidget: below everything, six columns wide (three for a statistic) *)
WithNew(l, id) ==
    l @@ (id :> [x |-> 0, y |-> Bottom(l),
                 w |-> Min({Columns, IF Kind[id] = "stat" THEN 3 ELSE 6}),
                 h |-> Min({MaxH, IF Kind[id] = "stat" THEN 2 ELSE 4})])

AddWidget(id) ==
    /\ id \notin DOMAIN layout
    /\ layout' = WithNew(layout, id)
    /\ Touched

(* onDuplicate: a copy of the same size, below everything *)
DuplicateWidget(id, copy) ==
    /\ copy \notin DOMAIN layout /\ Kind[copy] = Kind[id]
    /\ layout' = layout @@ (copy :> [layout[id] EXCEPT !.x = 0, !.y = Bottom(layout)])
    /\ Touched

RemoveWidget(id) ==
    /\ layout' = [w \in DOMAIN layout \ {id} |-> layout[w]]
    /\ Touched

(* A saved document: every box is valid, and they may overlap *)
Init ==
    /\ layout \in [Widgets -> {b \in [x : 0 .. Columns - 1, y : 0 .. Rows, w : 1 .. Columns, h : Heights] :
                                  b.x + b.w <= Columns}]
    /\ \A w \in Widgets : layout[w].h >= MinH(w)
    /\ edited = "no"

Next == \/ \E id \in DOMAIN layout : Move(id) \/ Resize(id) \/ Drag(id) \/ RemoveWidget(id)
        \/ \E id \in Widgets : AddWidget(id)
        \/ \E id \in DOMAIN layout, copy \in Widgets : DuplicateWidget(id, copy)

Spec == Init /\ [][Next]_vars

-----------------------------------------------------------------------------
(* The projections.  Round rounds half up, as Math.round does.             *)

Round(n, d) == (2 * n + d) \div (2 * d)
Ceil(n, d)  == (n + d - 1) \div d

(* Statistics that follow each other in reading order *)
Group(seq, i) ==
    LET start == CHOOSE a \in 1 .. i :
                    /\ \A k \in a .. i : Kind[seq[k]] = "stat"
                    /\ a = 1 \/ Kind[seq[a - 1]] # "stat"
        end   == CHOOSE b \in i .. Len(seq) :
                    /\ \A k \in i .. b : Kind[seq[k]] = "stat"
                    /\ b = Len(seq) \/ Kind[seq[b + 1]] # "stat"
    IN [size |-> end - start + 1, at |-> i - start]

(* Mutant: always three to a row *)
MetricThirds(size, at) == 4

(* Rows of at most three, as even as they can be: the width of the at-th *)
MetricWidth(size, at) ==
    LET rows    == Ceil(size, 3)
        count   == [r \in 0 .. rows - 1 |->
                       LET f[i \in 0 .. rows] == IF i = 0 THEN size
                                                 ELSE f[i - 1] - Ceil(f[i - 1], rows - i + 1)
                       IN f[r] - f[r + 1]]
        before  == [r \in 0 .. rows - 1 |-> MapThenSumSet(LAMBDA k : count[k], 0 .. r - 1)]
        row     == CHOOSE r \in 0 .. rows - 1 : before[r] <= at /\ at < before[r] + count[r]
    IN 12 \div count[row]

Metric(mode, roomy, w) == mode = "compact" /\ roomy /\ Kind[w] = "stat"

(* A statistic, or a plugin of at most SmallW columns *)
Small(l, w) == Kind[w] = "stat" \/ (Kind[w] = "calendar" /\ l[w].w <= SmallW)

ProjectedWidth(l, seq, i, mode, roomy) ==
    IF Metric(mode, roomy, seq[i]) THEN MetricWidth(Group(seq, i).size, Group(seq, i).at)
    ELSE IF mode = "compact" /\ Small(l, seq[i]) THEN 6 ELSE 12

ProjectedHeight(l, w, mode) ==
    Max({l[w].h, IF Kind[w] = "stat" THEN (IF mode = "stacked" THEN 2 ELSE 1) ELSE 4})

(* canvasLayout of a narrow canvas: rows filled in reading order; roomy    *)
(* when the canvas is at least 840 pixels wide                             *)
NarrowLayout(l, mode, roomy) ==
    LET seq == InOrder(l)
        step(acc, i) ==
            LET w    == ProjectedWidth(l, seq, i, mode, roomy)
                h    == ProjectedHeight(l, seq[i], mode)
                wrap == acc.x + w > 12 \/ (Metric(mode, roomy, seq[i]) /\ acc.x > 0 /\ acc.x % w # 0)
                x    == IF wrap THEN 0 ELSE acc.x
                y    == IF wrap THEN acc.y + acc.row ELSE acc.y
            IN [x |-> x + w, y |-> y, row |-> Max({h, IF wrap THEN 0 ELSE acc.row}),
                boxes |-> acc.boxes @@ (seq[i] :> [x |-> x, y |-> y, w |-> w, h |-> h])]
    IN FoldLeftDomain(step, [x |-> 0, y |-> 0, row |-> 0, boxes |-> <<>>], seq).boxes

(* heightFor and fineHeight of denseCanvasLayout *)
DenseHeight(w, h) ==
    CASE Kind[w] = "stat"                -> h
      [] Kind[w] = "calendar" /\ h >= 5  -> Max({6, Round(2 * h, 3)})
      [] Kind[w] = "calendar" /\ h < 5   -> Min({h, Max({5, Round(2 * h, 3)})})
      [] Kind[w] = "plot"                -> Min({h, Max({4, Round(2 * h, 3)})})

FineHeight(w, h) ==
    CASE Kind[w] = "stat"     -> 2 * h
      [] Kind[w] = "calendar" -> Max({IF h >= 6 THEN 15 ELSE IF h >= 4 THEN 14 ELSE 0, Ceil(23 * h, 10)})
      [] Kind[w] = "plot"     -> Max({8, Ceil(155 * h, 100)})

(* Widgets of the same row and height keep a common height *)
GroupHeight(l, w, height(_, _)) ==
    Max({height(v, l[v].h) : v \in {u \in DOMAIN l : l[u].y = l[w].y /\ l[u].h = l[w].h}})

(* One pass: a new height and row for each, never above an earlier widget  *)
(* of its columns                                                          *)
Pass(l, seq, height(_, _), row(_)) ==
    LET step(placed, i) ==
            LET w   == seq[i]
                box == [l[w] EXCEPT !.y = row(@), !.h = GroupHeight(l, w, height)]
            IN placed @@ (w :> [box EXCEPT !.y = Max({@, Rest(placed, box)})])
    IN FoldLeftDomain(step, <<>>, seq)

DenseLayout(l) ==
    LET seq == InOrder(l)
    IN Pass(Pass(l, seq, DenseHeight, LAMBDA y : Round(2 * y, 3)),
            seq, FineHeight, LAMBDA y : Round(17 * y, 10))

-----------------------------------------------------------------------------
NoOverlap(l) ==
    \A v, w \in DOMAIN l : v # w => ~(SharesColumns(l[v], l[w]) /\ SharesRows(l[v], l[w]))

(* The vertical compactor (react-grid-layout) moves a widget up until it   *)
(* meets another: it leaves a layout alone when each one rests on another  *)
(* or on the top                                                           *)
Compact(l) ==
    \A w \in DOMAIN l :
        l[w].y = 0 \/ \E v \in DOMAIN l \ {w} : SharesColumns(l[v], l[w]) /\ l[v].y + l[v].h = l[w].y

(* The layout stays one the schema accepts: widgets inside the columns and *)
(* rows of the grid, none lower than its kind allows.                      *)
TypeOK ==
    /\ DOMAIN layout \subseteq Widgets /\ edited \in {"no", "settled", "since"}
    /\ \A w \in DOMAIN layout : /\ layout[w] \in Box /\ layout[w].x + layout[w].w <= Columns
                                /\ layout[w].h >= MinH(w)

(* Once an edit has settled the layout no two widgets overlap again, as    *)
(* long as none has reached the last row of a document; and the compactor  *)
(* finds nothing to move in what a move, a resize or a drag leaves: what   *)
(* the user placed does not snap back.                                     *)
Settled ==
    (\A w \in DOMAIN layout : layout[w].y < MaxY) =>
        /\ edited # "no" => NoOverlap(layout)
        /\ edited = "settled" => Compact(layout)

(* A cycle cannot form: at every step of arrange some widget waits for     *)
(* none, whichever way a widget is moved or dragged.                       *)
Acyclic(precedes, S) == \A T \in SUBSET S : T # {} => Ready(precedes, T) # {}

NeverCyclic ==
    NoOverlap(layout) =>
        \A id \in DOMAIN layout :
            \A precedes \in {Precedes(layout, id, layout[id], PassedBand(layout, id, move)) :
                                 move \in {m \in {"up", "down"} : CanMove(layout, id, m)}}
                            \cup {Precedes(layout, id, at, Crossed(layout, id, at)) : at \in Drops(id)} :
                Acyclic(precedes, DOMAIN layout)

(* A row of widgets does not split: what starts in one row is on one side  *)
(* of a widget that moves down past it, and, if also of one height, of a   *)
(* widget that moves up past it.                                           *)
RowsStayWhole ==
    NoOverlap(layout) =>
        \A id \in DOMAIN layout : \A move \in {"up", "down"} :
            CanMove(layout, id, move) =>
                LET l == MoveLayout(layout, id, move)
                IN \A v, w \in Side(layout, id, move) :
                      layout[v].y = layout[w].y /\ (move = "up" => layout[v].h = layout[w].h)
                         => (l[v].y < l[id].y <=> l[w].y < l[id].y)

KeepsOrder(l, p) ==
    \A v, w \in DOMAIN l : Reads(l, v, w) /\ SharesColumns(p[v], p[w]) => p[v].y + p[v].h <= p[w].y

(* The statistics that follow each other in reading order with w *)
GroupOf(l, w) ==
    {v \in DOMAIN l : \A u \in DOMAIN l :
        u \in {v, w} \/ (Reads(l, v, u) /\ Reads(l, u, w)) \/ (Reads(l, w, u) /\ Reads(l, u, v))
           => Kind[u] = "stat"}

(* The statistics of a roomy canvas stand in balanced rows: a group that   *)
(* begins a row fills every row it takes, one that begins beside a plugin  *)
(* is drawn in halves, and none is left alone below a row of three         *)
Balanced(l, p) ==
    \A w \in {v \in DOMAIN l : Kind[v] = "stat"} :
        LET group  == GroupOf(l, w)
            row(v) == {u \in group : p[u].y = p[v].y}
        IN /\ p[FirstOf(l, group)].x = 0 => MapThenSumSet(LAMBDA u : p[u].w, row(w)) = 12
           /\ p[FirstOf(l, group)].x # 0 => p[w].w = 6
           /\ \A v \in group : Cardinality(row(v)) = 3 /\ Reads(l, v, w)
                                 => Cardinality(row(w)) > 1

(* What canvasLayout draws of l on every narrow canvas *)
Readable(l) ==
    \A view \in {<<"compact", TRUE>>, <<"compact", FALSE>>, <<"stacked", FALSE>>} :
        LET p == NarrowLayout(l, view[1], view[2])
        IN /\ DOMAIN p = DOMAIN l
           /\ \A w \in DOMAIN p : p[w].x + p[w].w <= 12
           /\ KeepsOrder(l, p)
           /\ view[2] => Balanced(l, p)

(* What narrow and dense canvases draw of the layout, also after further   *)
(* statistics were added to it: nothing overlaps or leaves the twelve      *)
(* columns, no widget that shares columns with an earlier one is drawn     *)
(* above it, and groups of statistics are balanced (canvasLayout,          *)
(* denseCanvasLayout).                                                     *)
ProjectionsReadable ==
    /\ Readable(layout) /\ Readable(FoldLeft(WithNew, layout, Spare))
    /\ KeepsOrder(layout, DenseLayout(layout))

(* What every edit leaves: a layout the schema accepts, settled, in which  *)
(* the next edit meets no cycle.                                           *)
LayoutInv == TypeOK /\ Settled /\ NeverCyclic
=============================================================================
