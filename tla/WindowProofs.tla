---------------------------- MODULE WindowProofs ----------------------------
(* The player's selection: however he presses, what the window counts is what it
   shows, up to two presses on one cell; and what a tidy player sees is a ship. *)
EXTENDS Window, FiniteSetTheorems, TLAPS

-----------------------------------------------------------------------------
(* Places in the array. *)
LEMMA IndexSteps ==
    ASSUME NEW x \in Int, NEW y \in Int
    PROVE  /\ Index(x, y) \in Int
           /\ Index(x - 1, y) = Index(x, y) - Size
           /\ Index(x, y - 1) = Index(x, y) - 1
BY FieldAssumption DEF Index

LEMMA IndexOfCell == \A c \in Cells : Index(c[1], c[2]) \in Nat
<1> SUFFICES ASSUME NEW c \in Cells PROVE Index(c[1], c[2]) \in Nat
  OBVIOUS
<1>1. c[1] \in Nat /\ c[2] \in Nat /\ Size \in Nat
  BY FieldAssumption DEF Cells
<1>2. \A a, b \in Nat : a * b \in Nat
  OBVIOUS
<1> QED
  BY <1>1, <1>2 DEF Index

(* A place further right and further down is further on. *)
LEMMA IndexGrows ==
    ASSUME NEW x \in Nat, NEW y \in Nat, NEW u \in Nat, NEW v \in Nat, x <= u, y <= v
    PROVE  Index(x, y) <= Index(u, v) /\ (Index(x, y) = Index(u, v) => x = u /\ y = v)
<1>1. Size \in Nat /\ Size >= 1
  BY FieldAssumption
<1>2. PICK d \in Nat : u = x + d
  <2>1. u - x \in Nat /\ u = x + (u - x)
    OBVIOUS
  <2> QED
    BY <2>1
<1>3. Size * u = Size * x + Size * d
  BY <1>1, <1>2
<1>4. Size * d \in Nat /\ (Size * d = 0 => d = 0)
  BY <1>1
<1>5. Size * x \in Nat
  BY <1>1
<1> QED
  BY <1>2, <1>3, <1>4, <1>5 DEF Index

(* Each cell has a place of its own. *)
LEMMA IndexIsOfOne ==
    ASSUME NEW c \in Cells, NEW d \in Cells, Index(c[1], c[2]) = Index(d[1], d[2])
    PROVE  c = d
<1>1. /\ c[1] \in Nat /\ c[2] \in Nat /\ c[2] < Size
      /\ d[1] \in Nat /\ d[2] \in Nat /\ d[2] < Size
      /\ c = <<c[1], c[2]>> /\ d = <<d[1], d[2]>> /\ Size \in Nat
  BY FieldAssumption DEF Cells
<1>2. ASSUME NEW a \in Nat, NEW b \in Nat, NEW e \in Nat, NEW g \in Nat,
             a < b, e < Size, g < Size
      PROVE  Index(a, e) # Index(b, g)
  <2>1. PICK k \in Nat : b = a + 1 + k
    <3>1. b - a - 1 \in Nat /\ b = a + 1 + (b - a - 1)
      BY <1>2
    <3> QED
      BY <3>1
  <2>2. Size * b = Size * a + Size + Size * k
    BY <1>1, <2>1
  <2>3. Size * k \in Nat /\ Size * a \in Nat
    BY <1>1
  <2> QED
    BY <1>1, <1>2, <2>2, <2>3 DEF Index
<1>3. c[1] = d[1]
  BY <1>1, <1>2
<1>4. Size * c[1] \in Nat
  BY <1>1
<1>5. c[2] = d[2]
  BY <1>1, <1>3, <1>4 DEF Index
<1> QED
  BY <1>1, <1>3, <1>5

-----------------------------------------------------------------------------
TypeOK ==
    /\ selectedMy \subseteq Cells /\ IsFiniteSet(selectedMy)
    /\ shipLength \in Nat /\ lastPressed \in Nat
    /\ orientation \in {"h", "v"} /\ tidy \in BOOLEAN

(* From the third press on each is at a place behind the last: a cell no further on
   than the last press stays selected, whatever the next one takes out. *)
OneStays ==
    shipLength >= 2 /\ selectedMy # {} =>
        \E c \in selectedMy : Index(c[1], c[2]) <= lastPressed

CountInv == TypeOK /\ SelectionCounted /\ OneStays

LEMMA InitCounted == Init => CountInv
<1> SUFFICES ASSUME Init PROVE CountInv
  OBVIOUS
<1>1. Size * Size \in Nat /\ MaxLength \in Nat
  BY FieldAssumption
<1>2. IsFiniteSet({}) /\ Cardinality({}) = 0
  BY FS_EmptySet
<1> QED
  BY <1>1, <1>2 DEF Init, CountInv, TypeOK, SelectionCounted, OneStays, Nowhere

(* A press puts a cell in or takes it out, and is always counted. *)
LEMMA PressCounted ==
    ASSUME CountInv, NEW c \in Cells, PrepShip(c[1], c[2])
    PROVE  CountInv'
<1> DEFINE x == c[1]
           y == c[2]
<1>1. /\ x \in Nat /\ y \in Nat /\ c = <<x, y>>
      /\ Index(x, y) \in Nat /\ MaxLength \in Nat /\ MaxLength >= 2 /\ Size \in Nat /\ Size >= 1
  BY FieldAssumption, WindowAssumption, IndexOfCell DEF Cells
<1>2. /\ shipLength' = shipLength + 1 /\ lastPressed' = Index(x, y)
      /\ orientation' \in {"h", "v"}
      /\ selectedMy' = IF c \in selectedMy THEN selectedMy \ {c} ELSE selectedMy \cup {c}
      /\ shipLength <= 1 \/ (shipLength < MaxLength /\ IsNearLast(x, y))
  BY <1>1 DEF PrepShip, CanSelect
<1>3. /\ selectedMy \subseteq Cells /\ IsFiniteSet(selectedMy)
      /\ shipLength \in Nat /\ lastPressed \in Nat
      /\ Cardinality(selectedMy) <= shipLength /\ shipLength <= MaxLength
      /\ selectedMy = {} => shipLength \in {0, 2}
  BY DEF CountInv, TypeOK, SelectionCounted
<1>4. Cardinality(selectedMy) \in Nat /\ (Cardinality(selectedMy) = 0 => selectedMy = {})
  BY <1>3, FS_CardinalityType, FS_EmptySet
<1>5. TypeOK'
  <2>1. IsFiniteSet(selectedMy')
    BY <1>2, <1>3, FS_AddElement, FS_RemoveElement
  <2>2. tidy' \in BOOLEAN
    BY DEF PrepShip, CountInv, TypeOK, TidyPress
  <2> QED
    BY <1>1, <1>2, <1>3, <2>1, <2>2 DEF TypeOK
<1>6. shipLength >= 2 => lastPressed < Index(x, y)
  <2> HIDE DEF x, y
  <2>1. /\ Index(x - 1, y) = Index(x, y) - Size
        /\ Index(x, y - 1) = Index(x, y) - 1
    BY <1>1, IndexSteps
  <2> QED
    BY <1>1, <1>2, <1>3, <2>1 DEF IsNearLast
<1>7. Cardinality(selectedMy') <= shipLength' /\ shipLength' <= MaxLength
  <2>1. CASE c \in selectedMy
    <3>1. Cardinality(selectedMy') = Cardinality(selectedMy) - 1
      BY <1>2, <1>3, <2>1, FS_RemoveElement
    <3> QED
      BY <1>1, <1>2, <1>3, <1>4, <3>1
  <2>2. CASE c \notin selectedMy
    <3>1. Cardinality(selectedMy') = Cardinality(selectedMy) + 1
      BY <1>2, <1>3, <2>2, FS_AddElement
    <3> QED
      BY <1>1, <1>2, <1>3, <1>4, <3>1
  <2> QED
    BY <2>1, <2>2
<1>8. ASSUME selectedMy' = {} PROVE shipLength' = 2
  <2>1. selectedMy = {c}
    BY <1>2, <1>8
  <2>2. shipLength # 0
    BY <1>3, <2>1, FS_Singleton
  <2>3. ~(shipLength >= 2)
    <3> SUFFICES ASSUME shipLength >= 2 PROVE FALSE
      OBVIOUS
    <3>1. Index(x, y) <= lastPressed
      BY <2>1 DEF CountInv, OneStays
    <3> QED
      BY <1>1, <1>3, <1>6, <3>1
  <2> QED
    BY <1>2, <1>3, <2>2, <2>3
<1>9. OneStays'
  <2>1. CASE c \notin selectedMy
    <3>1. c \in selectedMy' /\ Index(x, y) <= lastPressed'
      BY <1>1, <1>2, <2>1
    <3> QED
      BY <3>1 DEF OneStays
  <2>2. CASE c \in selectedMy /\ shipLength >= 2
    <3>1. PICK d \in selectedMy : Index(d[1], d[2]) <= lastPressed
      BY <2>2 DEF CountInv, OneStays
    <3>2. Index(d[1], d[2]) \in Nat
      BY <1>3, IndexOfCell
    <3>3. Index(d[1], d[2]) < Index(x, y)
      BY <1>1, <1>3, <1>6, <2>2, <3>1, <3>2
    <3>4. d # c
      BY <1>1, <3>3
    <3>5. d \in selectedMy' /\ Index(d[1], d[2]) <= lastPressed'
      BY <1>1, <1>2, <2>2, <3>2, <3>3, <3>4
    <3> QED
      BY <3>5 DEF OneStays
  <2>3. CASE c \in selectedMy /\ shipLength <= 1
    <3>1. Cardinality(selectedMy') = Cardinality(selectedMy) - 1
      BY <1>2, <1>3, <2>3, FS_RemoveElement
    <3>2. IsFiniteSet(selectedMy') /\ Cardinality(selectedMy') \in Nat
      BY <1>5, FS_CardinalityType DEF TypeOK
    <3>3. Cardinality(selectedMy') = 0
      BY <1>3, <1>4, <2>3, <3>1, <3>2
    <3>4. selectedMy' = {}
      BY <3>2, <3>3, FS_EmptySet
    <3> QED
      BY <3>4 DEF OneStays
  <2> QED
    BY <1>3, <2>1, <2>2, <2>3
<1> QED
  BY <1>5, <1>7, <1>8, <1>9 DEF CountInv, SelectionCounted

LEMMA NextCounted == CountInv /\ [Next]_window => CountInv'
<1> SUFFICES ASSUME CountInv, [Next]_window PROVE CountInv'
  OBVIOUS
<1>1. CASE \E c \in Cells : PrepShip(c[1], c[2])
  BY <1>1, PressCounted
<1>2. CASE PressSet
  <2>1. /\ selectedMy' = {} /\ shipLength' = 0 /\ tidy' = TRUE
        /\ UNCHANGED <<orientation, lastPressed>>
    BY <1>2 DEF PressSet, Forgotten
  <2>2. IsFiniteSet({}) /\ Cardinality({}) = 0 /\ MaxLength \in Nat
    BY FS_EmptySet, FieldAssumption
  <2> QED
    BY <2>1, <2>2 DEF CountInv, TypeOK, SelectionCounted, OneStays
<1>3. CASE \/ EnterSession \/ StartTurns \/ HearShot \/ EndTurns \/ LeaveSession
           \/ PressReady \/ UNCHANGED window
  <2>1. UNCHANGED selection
    BY <1>3 DEF EnterSession, StartTurns, HearShot, EndTurns, LeaveSession, PressReady, window
  <2> QED
    BY <2>1 DEF selection, CountInv, TypeOK, SelectionCounted, OneStays
<1> QED
  BY <1>1, <1>2, <1>3 DEF Next

LEMMA AlwaysCounted == Spec => []CountInv
BY InitCounted, NextCounted, PTL DEF Spec

(* shipLength is a ship's length and covers what is shown as selected, whatever cells
   are pressed, in and out, at whatever time (Main.cpp:235-281). *)
THEOREM WindowSelectionCounted == Spec => []SelectionCounted
<1>1. CountInv => SelectionCounted
  BY DEF CountInv
<1> QED
  BY AlwaysCounted, <1>1, PTL

-----------------------------------------------------------------------------
Ship(b, n, d) == [x |-> b[1], y |-> b[2], length |-> n, dir |-> d]

(* A ship that is longer by a cell has that cell at its end, and no other; a ship of
   one cell may be turned first. *)
LEMMA ShipGrows ==
    ASSUME NEW b \in Cells, NEW n \in Nat \ {0}, NEW d \in {"h", "v"}, NEW e \in {"h", "v"},
           n = 1 \/ d = e
    PROVE  /\ ShipCells(Ship(b, n + 1, e)) =
                  ShipCells(Ship(b, n, d)) \cup {ShipCell(Ship(b, n + 1, e), n)}
           /\ ShipCell(Ship(b, n + 1, e), n) \notin ShipCells(Ship(b, n, d))
<1>1. b[1] \in Int /\ b[2] \in Int
  BY FieldAssumption DEF Cells
<1>2. \A i \in 0 .. n - 1 : ShipCell(Ship(b, n, d), i) = ShipCell(Ship(b, n + 1, e), i)
  BY <1>1 DEF ShipCell, Ship
<1>3. 0 .. (n + 1) - 1 = (0 .. n - 1) \cup {n}
  OBVIOUS
<1>4. ShipCells(Ship(b, n + 1, e)) =
          {ShipCell(Ship(b, n + 1, e), i) : i \in (0 .. n - 1) \cup {n}}
  BY <1>3 DEF ShipCells, Ship
<1>5. ShipCells(Ship(b, n, d)) = {ShipCell(Ship(b, n, d), i) : i \in 0 .. n - 1}
  BY DEF ShipCells, Ship
<1>6. \A i \in 0 .. n - 1 : ShipCell(Ship(b, n, d), i) # ShipCell(Ship(b, n + 1, e), n)
  <2> SUFFICES ASSUME NEW i \in 0 .. n - 1
               PROVE  ShipCell(Ship(b, n + 1, e), i) # ShipCell(Ship(b, n + 1, e), n)
    BY <1>2
  <2>1. b[1] + i # b[1] + n /\ b[2] + i # b[2] + n
    BY <1>1
  <2> QED
    BY <2>1 DEF ShipCell, Ship
<1> QED
  BY <1>2, <1>4, <1>5, <1>6

-----------------------------------------------------------------------------
(* What a tidy player has selected: a ship from a cell b to the cell pressed last. *)
Line(b) ==
    /\ shipLength > 0
    /\ selectedMy = ShipCells(Ship(b, shipLength, orientation))
    /\ \E last \in Cells :
           /\ last = ShipCell(Ship(b, shipLength, orientation), shipLength - 1)
           /\ lastPressed = Index(last[1], last[2])

Free == \A c \in selectedMy : (Cross(c) \cup Corners(c)) \cap (m_my.ship \cup m_my.shot) = {}

TidyInv ==
    tidy =>
        \/ selectedMy = {} /\ shipLength = 0
        \/ phase = "preparation" /\ ~ready /\ (\E b \in Cells : Line(b)) /\ Free

LEMMA FirstOfLine ==
    ASSUME TypeOK, NEW b \in Cells, Line(b)
    PROVE  /\ First = b /\ b \in selectedMy
           /\ Selected = Ship(b, shipLength, orientation)
<1> DEFINE s == Ship(b, shipLength, orientation)
<1>1. /\ b[1] \in Nat /\ b[2] \in Nat /\ b = <<b[1], b[2]>>
  BY FieldAssumption DEF Cells
<1>2. shipLength \in Nat \ {0} /\ orientation \in {"h", "v"} /\ selectedMy \subseteq Cells
  BY DEF TypeOK, Line
<1>3. selectedMy = {ShipCell(s, i) : i \in 0 .. shipLength - 1}
  BY DEF Line, ShipCells, Ship
<1>4. b \in selectedMy
  <2>1. ShipCell(s, 0) = b
    BY <1>1, <1>2 DEF ShipCell, Ship
  <2> QED
    BY <1>2, <1>3, <2>1
<1>5. ASSUME NEW d \in selectedMy
      PROVE  /\ Index(b[1], b[2]) \in Nat /\ Index(d[1], d[2]) \in Nat
             /\ Index(b[1], b[2]) <= Index(d[1], d[2])
             /\ Index(b[1], b[2]) = Index(d[1], d[2]) => d = b
  <2>1. PICK i \in 0 .. shipLength - 1 : d = ShipCell(s, i)
    BY <1>3
  <2>2. d = <<d[1], d[2]>> /\ d[1] \in Nat /\ d[2] \in Nat /\ b[1] <= d[1] /\ b[2] <= d[2]
    BY <1>1, <1>2, <2>1 DEF ShipCell, Ship
  <2>3. /\ Index(b[1], b[2]) <= Index(d[1], d[2])
        /\ Index(b[1], b[2]) = Index(d[1], d[2]) => b[1] = d[1] /\ b[2] = d[2]
    BY <1>1, <2>2, IndexGrows
  <2>4. d \in Cells
    BY <1>2
  <2> QED
    BY <1>1, <2>2, <2>3, <2>4, IndexOfCell
<1>6. First \in selectedMy /\ \A d \in selectedMy : Index(First[1], First[2]) <= Index(d[1], d[2])
  BY <1>4, <1>5 DEF First
<1>7. First = b
  <2>1. /\ Index(First[1], First[2]) <= Index(b[1], b[2])
        /\ Index(b[1], b[2]) <= Index(First[1], First[2])
        /\ Index(b[1], b[2]) \in Nat /\ Index(First[1], First[2]) \in Nat
    BY <1>4, <1>5, <1>6
  <2> QED
    BY <1>5, <1>6, <2>1
<1> QED
  BY <1>4, <1>7 DEF Selected, Ship

LEMMA InitTidy == Init => TidyInv
BY DEF Init, TidyInv

(* A ship grows to the right or downwards, at its end. *)
LEMMA PressGrows ==
    ASSUME CountInv, NEW b \in Cells, Line(b), NEW c \in Cells, PrepShip(c[1], c[2]),
           TidyPress(c[1], c[2])
    PROVE  Line(b)'
<1> DEFINE x == c[1]
           y == c[2]
           s == Ship(b, shipLength, orientation)
           longer == Ship(b, shipLength + 1, orientation')
<1>1. /\ x \in Nat /\ y \in Nat /\ x < Size /\ y < Size /\ c = <<x, y>>
      /\ Size \in Nat /\ Size >= 1 /\ Index(x, y) \in Nat
      /\ b[1] \in Nat /\ b[2] \in Nat /\ b = <<b[1], b[2]>>
  BY FieldAssumption, IndexOfCell DEF Cells
<1>2. /\ shipLength \in Nat \ {0} /\ orientation \in {"h", "v"} /\ lastPressed \in Nat
      /\ selectedMy = ShipCells(s)
  BY DEF Line, CountInv, TypeOK
<1>3. PICK last \in Cells : /\ last = ShipCell(s, shipLength - 1)
                            /\ lastPressed = Index(last[1], last[2])
  BY DEF Line
<1>4. /\ shipLength' = shipLength + 1 /\ lastPressed' = Index(x, y)
      /\ orientation' = IF x > 0 /\ lastPressed = Index(x - 1, y) THEN "h" ELSE "v"
      /\ selectedMy' = IF c \in selectedMy THEN selectedMy \ {c} ELSE selectedMy \cup {c}
      /\ shipLength <= 1 \/ IsNearLast(x, y)
  BY <1>1 DEF PrepShip, CanSelect
<1>5. /\ Index(x - 1, y) = Index(x, y) - Size /\ Index(x, y - 1) = Index(x, y) - 1
  <2> HIDE DEF x, y
  <2> QED
    BY <1>1, IndexSteps
<1>6. /\ shipLength = 1 \/ orientation = orientation'
      /\ ShipCell(longer, shipLength) = c
  <2>1. CASE x > 0 /\ lastPressed = Index(x - 1, y)
    <3>1. last = <<x - 1, y>>
      <4>1. <<x - 1, y>> \in Cells
        BY <1>1, <2>1 DEF Cells
      <4> QED
        BY <1>3, <2>1, <4>1, IndexIsOfOne
    <3>2. shipLength = 1 \/ orientation = "h"
      <4> SUFFICES ASSUME shipLength # 1, orientation # "h" PROVE FALSE
        OBVIOUS
      <4>1. lastPressed = Index(x, y - 1)
        BY <1>2, <1>4 DEF IsNearLast
      <4>2. Size = 1
        BY <1>1, <1>5, <2>1, <4>1
      <4> QED
        BY <1>1, <2>1, <4>2
    <3>3. s.x + (shipLength - 1) = x - 1 /\ s.y = y
      BY <1>1, <1>2, <1>3, <3>1, <3>2 DEF ShipCell, Ship
    <3>4. ShipCell(longer, shipLength) = <<b[1] + shipLength, b[2]>>
      BY <1>4, <2>1 DEF ShipCell, Ship
    <3> QED
      BY <1>1, <1>2, <1>4, <2>1, <3>2, <3>3, <3>4 DEF Ship
  <2>2. CASE ~(x > 0 /\ lastPressed = Index(x - 1, y))
    <3>1. y > 0 /\ lastPressed = Index(x, y - 1)
      BY <1>2, <2>2 DEF TidyPress
    <3>2. last = <<x, y - 1>>
      <4>1. <<x, y - 1>> \in Cells
        BY <1>1, <3>1 DEF Cells
      <4> QED
        BY <1>3, <3>1, <4>1, IndexIsOfOne
    <3>3. shipLength = 1 \/ orientation = "v"
      <4> SUFFICES ASSUME shipLength # 1, orientation # "v" PROVE FALSE
        OBVIOUS
      <4>1. lastPressed = Index(x - 1, y)
        BY <1>2, <1>4 DEF IsNearLast
      <4>2. x = 0
        BY <1>1, <2>2, <4>1
      <4>3. Index(x, y) = y
        BY <1>1, <4>2 DEF Index
      <4> QED
        BY <1>1, <1>2, <1>5, <4>1, <4>3
    <3>4. s.x = x /\ s.y + (shipLength - 1) = y - 1
      BY <1>1, <1>2, <1>3, <3>2, <3>3 DEF ShipCell, Ship
    <3>5. ShipCell(longer, shipLength) = <<b[1], b[2] + shipLength>>
      BY <1>4, <2>2 DEF ShipCell, Ship
    <3> QED
      BY <1>1, <1>2, <1>4, <2>2, <3>3, <3>4, <3>5 DEF Ship
  <2> QED
    BY <2>1, <2>2
<1>7. ShipCells(longer) = ShipCells(s) \cup {c} /\ c \notin ShipCells(s)
  <2>1. orientation' \in {"h", "v"}
    BY <1>4
  <2> QED
    BY <1>2, <1>6, <2>1, ShipGrows
<1>8. selectedMy' = ShipCells(longer)
  BY <1>2, <1>4, <1>7
<1>9. shipLength' - 1 = shipLength
  BY <1>2, <1>4
<1>10. longer = Ship(b, shipLength', orientation')
  BY <1>4
<1>11. c = ShipCell(longer, shipLength' - 1) /\ lastPressed' = Index(c[1], c[2])
  BY <1>4, <1>6, <1>9
<1>12. shipLength' > 0
  BY <1>2, <1>4
<1> HIDE DEF longer, x, y
<1> QED
  BY <1>8, <1>10, <1>11, <1>12 DEF Line

LEMMA PressTidy ==
    ASSUME CountInv, TidyInv, NEW c \in Cells, PrepShip(c[1], c[2])
    PROVE  TidyInv'
<1> SUFFICES ASSUME tidy' PROVE TidyInv'
  BY DEF TidyInv
<1>1. tidy /\ TidyPress(c[1], c[2])
  BY DEF PrepShip
<1>2. phase' = "preparation" /\ ~ready' /\ m_my' = m_my
  BY <1>1 DEF PrepShip, TidyPress, client
<1>3. c = <<c[1], c[2]>> /\ c[1] \in Nat /\ c[2] \in Nat
  BY FieldAssumption DEF Cells
<1>4. Free'
  <2>1. (Cross(c) \cup Corners(c)) \cap (m_my.ship \cup m_my.shot) = {}
    BY <1>3 DEF PrepShip, CanSelect
  <2>2. Free
    BY <1>1 DEF TidyInv, Free
  <2>3. selectedMy' \subseteq selectedMy \cup {c}
    BY <1>3 DEF PrepShip
  <2> QED
    BY <1>2, <2>1, <2>2, <2>3 DEF Free
<1>5. \E b \in Cells : Line(b)'
  <2>1. CASE selectedMy = {} /\ shipLength = 0
    <3>1. /\ selectedMy' = {c} /\ shipLength' = 1 /\ lastPressed' = Index(c[1], c[2])
          /\ orientation' \in {"h", "v"}
      BY <1>3, <2>1 DEF PrepShip
    <3> DEFINE s == Ship(c, 1, orientation')
    <3>2. ShipCell(s, 0) = c
      BY <1>3, <3>1 DEF ShipCell, Ship
    <3>3. ShipCells(s) = {ShipCell(s, i) : i \in 0 .. 0} /\ 0 .. 0 = {0}
      BY DEF ShipCells, Ship
    <3>4. selectedMy' = ShipCells(s)
      BY <3>1, <3>2, <3>3
    <3>5. shipLength' - 1 = 0 /\ shipLength' > 0
      BY <3>1
    <3>6. Line(c)'
      BY <3>1, <3>2, <3>4, <3>5 DEF Line
    <3> QED
      BY <3>6
  <2>2. CASE \E b \in Cells : Line(b)
    <3>1. PICK b \in Cells : Line(b)
      BY <2>2
    <3>2. Line(b)'
      BY <1>1, <3>1, PressGrows
    <3> QED
      BY <3>2
  <2> QED
    BY <1>1, <2>1, <2>2 DEF TidyInv
<1> QED
  BY <1>2, <1>4, <1>5 DEF TidyInv

LEMMA NextTidy == CountInv /\ TidyInv /\ [Next]_window => TidyInv'
<1> SUFFICES ASSUME CountInv, TidyInv, [Next]_window PROVE TidyInv'
  OBVIOUS
<1>1. CASE \E c \in Cells : PrepShip(c[1], c[2])
  BY <1>1, PressTidy
<1>2. CASE PressSet
  BY <1>2 DEF PressSet, Forgotten, TidyInv
<1>3. CASE \/ EnterSession \/ StartTurns \/ HearShot \/ EndTurns \/ LeaveSession
           \/ PressReady \/ UNCHANGED window
  <2>1. UNCHANGED <<selectedMy, shipLength, orientation, lastPressed, tidy>>
    BY <1>3 DEF EnterSession, StartTurns, HearShot, EndTurns, LeaveSession, PressReady, window,
                selection
  <2>2. CASE shipLength = 0
    <3>1. \A b : ~Line(b)
      BY <2>2 DEF Line
    <3> QED
      BY <2>1, <2>2, <3>1 DEF TidyInv
  <2>3. CASE tidy /\ shipLength # 0
    <3>1. phase = "preparation" /\ ~ready /\ (\E b \in Cells : Line(b)) /\ Free
      BY <2>3 DEF TidyInv
    <3>2. UNCHANGED client
      BY <1>3, <2>3, <3>1 DEF EnterSession, StartTurns, HearShot, EndTurns, LeaveSession,
                              PressReady, window
    <3> QED
      BY <2>1, <3>1, <3>2 DEF TidyInv, Line, Free, client
  <2>4. CASE ~tidy
    BY <2>1, <2>4 DEF TidyInv
  <2> QED
    BY <2>2, <2>3, <2>4
<1> QED
  BY <1>1, <1>2, <1>3 DEF Next

LEMMA AlwaysTidy == Spec => [](CountInv /\ TidyInv)
BY InitCounted, NextCounted, InitTidy, NextTidy, PTL DEF Spec

(* What a player who presses cell after cell sees is the ship that both fields have
   room for (Main.cpp:72-90, 248-281): none is refused but for its number. *)
THEOREM WindowShownFits == Spec => []ShownFits
<1>1. CountInv /\ TidyInv => ShownFits
  <2> SUFFICES ASSUME CountInv, TidyInv, tidy, selectedMy # {}
               PROVE  /\ ShipCells(Selected) = selectedMy
                      /\ Clearance(Selected) \cap (m_my.ship \cup m_my.shot) = {}
    BY DEF ShownFits
  <2>1. PICK b \in Cells : Line(b)
    BY DEF TidyInv
  <2>2. Free /\ shipLength \in Nat \ {0}
    BY <2>1 DEF TidyInv, CountInv, TypeOK, Line
  <2>3. Selected = Ship(b, shipLength, orientation)
    BY <2>1, FirstOfLine DEF CountInv
  <2>4. ShipCells(Selected) = selectedMy
    BY <2>1, <2>3 DEF Line
  <2>5. /\ selectedMy = {ShipCell(Selected, i) : i \in 0 .. shipLength - 1}
        /\ Selected.length = shipLength
    BY <2>3, <2>4 DEF ShipCells, Ship
  <2>6. ShipCell(Selected, 0) \in selectedMy /\ ShipCell(Selected, shipLength - 1) \in selectedMy
    BY <2>2, <2>5
  <2>7. Clearance(Selected) \subseteq UNION {Cross(c) \cup Corners(c) : c \in selectedMy}
    <3> HIDE DEF Selected
    <3> QED
      BY <2>4, <2>5, <2>6 DEF Clearance
  <2> QED
    BY <2>2, <2>4, <2>7 DEF Free
<1> QED
  BY AlwaysTidy, <1>1, PTL

(* Nor does such a player ever press Ready in vain, or find in a game what he
   selected in an earlier one (Main.cpp:193-201). *)
THEOREM WindowReadyUnblocked == Spec => []ReadyUnblocked
<1>1. CountInv /\ TidyInv => ReadyUnblocked
  <2> SUFFICES ASSUME CountInv, TidyInv, tidy, NEW b \in Cells, Line(b)
               PROVE  selectedMy # {}
    BY DEF TidyInv, ReadyUnblocked, CountInv, TypeOK
  <2> QED
    BY FirstOfLine DEF CountInv
<1> QED
  BY AlwaysTidy, <1>1, PTL
=============================================================================
