---------------------------- MODULE FieldProofs ----------------------------
(* What the operators of Field return, for fields of every size. *)
EXTENDS Field, WellFoundedInduction, TLAPS

(* clear() leaves a field: the counters are kept (field.hpp:47-52). *)
LEMMA ClearType ==
    ASSUME NEW f \in Fields
    PROVE  Clear(f) \in Fields
BY DEF Clear, Fields

(* An accepted ship leaves a field: all its cells are on the board
   (field.hpp:151-257). *)
LEMMA SetShipType ==
    ASSUME NEW f \in Fields, NEW s, CanSetShip(f, s)
    PROVE  SetShip(f, s) \in Fields
<1>1. s.length \in Lengths /\ ShipCells(s) \subseteq Cells
  BY DEF CanSetShip
<1>2. f.placed[s.length] + 1 \in Nat
  BY <1>1 DEF Fields
<1>3. [f.placed EXCEPT ![s.length] = f.placed[s.length] + 1] \in [Lengths -> Nat]
  BY <1>1, <1>2 DEF Fields
<1>4. f.ship \cup ShipCells(s) \in SUBSET Cells
  BY <1>1 DEF Fields
<1> QED
  BY <1>3, <1>4 DEF SetShip, Fields

(* kill() never marks a cell off the board, wherever the walk went
   (field.hpp:96-137). *)
LEMMA KillType ==
    ASSUME NEW f \in Fields, NEW c
    PROVE  Kill(f, c) \in Fields
BY DEF Kill, Fields

LEMMA MarkShotType ==
    ASSUME NEW f \in Fields, NEW c \in Cells
    PROVE  MarkShot(f, c) \in Fields
BY DEF MarkShot, Fields

(* A shot of the server leaves a field, whatever it hits (server.cpp:299-321). *)
LEMMA ShotFieldType ==
    ASSUME NEW f \in Fields, NEW c \in Cells
    PROVE  ShotField(f, c) \in Fields
BY MarkShotType, KillType DEF ShotField

LEMMA ShotAnswerType == \A f, c : ShotAnswer(f, c) \in {"m", "h", "k", "g"}
BY DEF ShotAnswer

(* A shot moves no ship; it is answered "g" exactly when it sinks the last one, and
   then there was one (server.cpp:303-321). *)
LEMMA ShotSinks ==
    ASSUME NEW f \in Fields, NEW c \in Cells
    PROVE  /\ ShotField(f, c).ship = f.ship
           /\ ShotAnswer(f, c) = "g" => c \in f.ship /\ GameFinished(ShotField(f, c))
           /\ ShotAnswer(f, c) # "g" /\ GameFinished(ShotField(f, c)) => GameFinished(f)
<1>1. ShotField(f, c).ship = f.ship
  BY DEF ShotField, MarkShot, Kill, Fields
<1>2. ShotAnswer(f, c) = "g" => c \in f.ship /\ GameFinished(ShotField(f, c))
  BY DEF ShotAnswer
<1>3. c \notin f.ship /\ GameFinished(ShotField(f, c)) => GameFinished(f)
  BY DEF ShotField, MarkShot, GameFinished, Fields
<1>4. c \in f.ship /\ GameFinished(ShotField(f, c)) => ShotAnswer(f, c) = "g"
  BY DEF ShotAnswer
<1> QED
  BY <1>1, <1>2, <1>3, <1>4

(* A client's copy stays a field through every answer (client.cpp:222-313). *)
LEMMA CopyAnswerType ==
    ASSUME NEW f \in Fields, NEW c \in Cells, NEW answer \in {"m", "h", "k", "g"}
    PROVE  CopyAnswer(f, c, answer) \in Fields
<1>1. MarkHit(f, c) \in Fields
  BY DEF MarkHit, Fields
<1>2. MarkMiss(f, c) \in Fields
  BY DEF MarkMiss, Fields
<1> QED
  BY <1>1, <1>2, KillType DEF CopyAnswer

LEMMA EmptyFieldType == EmptyField \in Fields
BY DEF EmptyField, Fields

-----------------------------------------------------------------------------
(* The corners of a ship's inner cells are never looked at, yet every cell
   that touches the ship is among those set_ship looks at: a corner of an
   inner cell is in the cross of the next one (field.hpp:169-220). *)
THEOREM ClearanceCoversTouching ==
    ASSUME NEW s \in [x : Int, y : Int, length : Int, dir : {"h", "v"}],
           NEW c \in ShipCells(s), NEW d \in Int \X Int, Touching(c, d)
    PROVE  d \in Clearance(s)
<1>1. PICK i \in 0 .. s.length - 1 : c = ShipCell(s, i)
  BY DEF ShipCells
<1> DEFINE dx == d[1] - c[1]
           dy == d[2] - c[2]
<1>2. c \in Int \X Int
  BY <1>1 DEF ShipCell
<1>3. /\ dx \in {-1, 0, 1} /\ dy \in {-1, 0, 1}
      /\ d = <<c[1] + dx, c[2] + dy>>
  BY <1>2 DEF Touching
<1>4. CASE dx = 0 \/ dy = 0
  <2>1. d \in Cross(c)
    BY <1>2, <1>3, <1>4 DEF Cross
  <2> QED
    BY <2>1 DEF Clearance
<1>5. CASE dx # 0 /\ dy # 0
  <2>1. dx \in {-1, 1} /\ dy \in {-1, 1}
    BY <1>3, <1>5
  <2>2. d \in Corners(c)
    BY <1>3, <2>1 DEF Corners
  <2>3. CASE i = 0 \/ i = s.length - 1
    BY <1>1, <2>2, <2>3 DEF Clearance
  <2>4. CASE i # 0 /\ i # s.length - 1
    <3>1. i - 1 \in 0 .. s.length - 1 /\ i + 1 \in 0 .. s.length - 1
      BY <2>4
    <3>2. CASE s.dir = "h"
      <4>1. c = <<s.x + i, s.y>>
        BY <1>1, <3>2 DEF ShipCell
      <4>2. d = <<s.x + (i + dx), s.y + dy>>
        BY <1>3, <4>1, <2>1
      <4>3. d \in Cross(ShipCell(s, i + dx))
        BY <4>2, <2>1, <3>2 DEF Cross, ShipCell
      <4>4. ShipCell(s, i + dx) \in ShipCells(s)
        BY <2>1, <3>1 DEF ShipCells
      <4> QED
        BY <4>3, <4>4 DEF Clearance
    <3>3. CASE s.dir = "v"
      <4>1. c = <<s.x, s.y + i>>
        BY <1>1, <3>3 DEF ShipCell
      <4>2. d = <<s.x + dx, s.y + (i + dy)>>
        BY <1>3, <4>1, <2>1
      <4>3. d \in Cross(ShipCell(s, i + dy))
        BY <4>2, <2>1, <3>3 DEF Cross, ShipCell
      <4>4. ShipCell(s, i + dy) \in ShipCells(s)
        BY <2>1, <3>1 DEF ShipCells
      <4> QED
        BY <4>3, <4>4 DEF Clearance
    <3> QED
      BY <3>2, <3>3
  <2> QED
    BY <2>3, <2>4
<1> QED
  BY <1>4, <1>5

-----------------------------------------------------------------------------
(* The walks of check_kill and kill.  Induction is by the least turn of a walk that is
   not where it should be. *)
LEMMA LeastNatural ==
    ASSUME NEW T \in SUBSET Nat, T # {}
    PROVE  \E n \in T : \A m \in T : n <= m
<1> DEFINE R == OpToRel(<, Nat)
<1>1. IsWellFoundedOn(R, Nat)
  BY NatLessThanWellFounded
<1>2. \A m, n \in Nat : m < n => <<m, n>> \in R
  BY DEF OpToRel
<1> HIDE DEF R
<1>3. PICK n \in T : \A m \in T : <<m, n>> \notin R
  BY <1>1, WFMin
<1>4. n \in Nat
  OBVIOUS
<1>5. ASSUME NEW m \in T PROVE n <= m
  <2>1. m \in Nat /\ ~(m < n)
    BY <1>2, <1>3, <1>4
  <2> QED
    BY <1>4, <2>1
<1> QED
  BY <1>5

(* A set of numbers that holds 0, and with each number below last the next. *)
LEMMA EveryTurn ==
    ASSUME NEW last \in Nat, NEW T \in SUBSET Nat, 0 \in T,
           \A n \in Nat : n < last /\ n \in T => n + 1 \in T
    PROVE  0 .. last \subseteq T
<1> SUFFICES ASSUME (0 .. last) \ T # {} PROVE FALSE
  OBVIOUS
<1>1. PICK n \in (0 .. last) \ T : \A m \in (0 .. last) \ T : n <= m
  <2> DEFINE U == (0 .. last) \ T
  <2>1. U \in SUBSET Nat /\ U # {}
    OBVIOUS
  <2> HIDE DEF U
  <2>2. \E n \in U : \A m \in U : n <= m
    BY <2>1, LeastNatural
  <2> QED
    BY <2>2 DEF U
<1>2. n \in 1 .. last /\ n - 1 \in 0 .. last /\ n - 1 < last
  BY <1>1
<1>3. n - 1 \in T
  <2>1. CASE n - 1 \in (0 .. last) \ T
    BY <1>1, <1>2, <2>1
  <2>2. CASE n - 1 \notin (0 .. last) \ T
    BY <1>2, <2>2
  <2> QED
    BY <2>1, <2>2
<1>4. n - 1 \in Nat /\ (n - 1) + 1 = n /\ n \notin T
  BY <1>1, <1>2
<1> QED
  BY <1>2, <1>3, <1>4

LoopCourse(g, start, step, last) ==
    g[0] = start /\ \A n \in 1 .. last : g[n] = step[g[n - 1]]

(* A loop of a fixed number of turns from a given start has exactly one course. *)
LEMMA LoopRuns ==
    ASSUME NEW D, NEW start \in D, NEW step \in [D -> D], NEW last \in Nat
    PROVE  \E g \in [0 .. last -> D] : LoopCourse(g, start, step, last)
<1> DEFINE Runs(k) == \E g \in [0 .. k -> D] :
               g = [n \in 0 .. k |-> IF n = 0 THEN start ELSE step[g[n - 1]]]
           T == {k \in Nat : Runs(k)}
<1>1. 0 \in T
  <2> DEFINE g == [n \in 0 .. 0 |-> start]
  <2>1. g \in [0 .. 0 -> D]
    OBVIOUS
  <2>2. g = [n \in 0 .. 0 |-> IF n = 0 THEN start ELSE step[g[n - 1]]]
    OBVIOUS
  <2> QED
    BY <2>1, <2>2
<1>2. ASSUME NEW k \in Nat, k \in T PROVE k + 1 \in T
  <2>1. PICK g \in [0 .. k -> D] :
            g = [n \in 0 .. k |-> IF n = 0 THEN start ELSE step[g[n - 1]]]
    BY <1>2
  <2> DEFINE h == [n \in 0 .. k + 1 |-> IF n = k + 1 THEN step[g[k]] ELSE g[n]]
  <2>2. h \in [0 .. k + 1 -> D]
    <3>1. step[g[k]] \in D
      OBVIOUS
    <3>2. \A n \in 0 .. k + 1 : n # k + 1 => g[n] \in D
      OBVIOUS
    <3> QED
      BY <3>1, <3>2
  <2>3. ASSUME NEW n \in 0 .. k + 1
        PROVE  h[n] = IF n = 0 THEN start ELSE step[h[n - 1]]
    <3>1. CASE n = k + 1
      BY <3>1
    <3>2. CASE n # k + 1
      <4>1. n \in 0 .. k /\ h[n] = g[n] /\ (n # 0 => h[n - 1] = g[n - 1])
        BY <3>2
      <4>2. g[n] = IF n = 0 THEN start ELSE step[g[n - 1]]
        BY <2>1, <4>1
      <4> QED
        BY <4>1, <4>2
    <3> QED
      BY <3>1, <3>2
  <2>4. h = [n \in 0 .. k + 1 |-> IF n = 0 THEN start ELSE step[h[n - 1]]]
    BY <2>3
  <2> HIDE DEF h
  <2>5. Runs(k + 1)
    BY <2>2, <2>4
  <2> HIDE DEF Runs
  <2> QED
    BY <2>5
<1>3. T \in SUBSET Nat
  OBVIOUS
<1>4. last \in T
  <2> HIDE DEF T
  <2>1. \A k \in Nat : k < last /\ k \in T => k + 1 \in T
    BY <1>2
  <2>2. 0 .. last \subseteq T
    BY <1>1, <1>3, <2>1, EveryTurn
  <2> QED
    BY <2>2
<1>5. PICK g \in [0 .. last -> D] :
          g = [n \in 0 .. last |-> IF n = 0 THEN start ELSE step[g[n - 1]]]
  BY <1>4
<1>6. g[0] = start /\ \A n \in 1 .. last : g[n] = step[g[n - 1]]
  BY <1>5
<1> QED
  BY <1>6 DEF LoopCourse

(* A ship of a field that no other ship cell of the field touches. *)
LoneShip(f, s) ==
    /\ s.length \in Lengths /\ s.dir \in {"h", "v"} /\ s.x \in Int /\ s.y \in Int
    /\ ShipCells(s) \subseteq f.ship
    /\ \A c \in ShipCells(s), d \in f.ship : Touching(c, d) => d \in ShipCells(s)

Plane == Int \X Int

LEMMA ShipCellPlace ==
    ASSUME NEW s, s.length \in Lengths, s.x \in Int, s.y \in Int, NEW i \in Int
    PROVE  ShipCell(s, i) \in Int \X Int
BY DEF ShipCell

LEMMA BackAlong ==
    ASSUME NEW f, NEW s, LoneShip(f, s), NEW i \in 0 .. s.length - 1
    PROVE  StepBack(f, ShipCell(s, i)) = ShipCell(s, IF i = 0 THEN 0 ELSE i - 1)
<1>1. s.length \in Int /\ s.x \in Int /\ s.y \in Int
  BY DEF LoneShip, Lengths
<1>2. \A j \in 0 .. s.length - 1 : ShipCell(s, j) \in f.ship /\ ShipCell(s, j) \in ShipCells(s)
  BY DEF LoneShip, ShipCells
<1>3. ASSUME NEW j \in 0 .. s.length - 1, NEW d \in f.ship, Touching(ShipCell(s, j), d)
      PROVE  \E k \in 0 .. s.length - 1 : d = ShipCell(s, k)
  BY <1>2, <1>3 DEF LoneShip, ShipCells
<1> DEFINE j == IF i = 0 THEN 0 ELSE i - 1
<1>4. j \in 0 .. s.length - 1 /\ i \in Int
  BY <1>1
<1>5. CASE s.dir = "h"
  <2>1. \A k \in Int : ShipCell(s, k) = <<s.x + k, s.y>>
    BY <1>5 DEF ShipCell
  <2>2. StepIn(f, ShipCell(s, i), <<s.x + i - 1, s.y>>) = ShipCell(s, j)
    <3>1. CASE i = 0
      <4>1. Touching(ShipCell(s, 0), <<s.x + i - 1, s.y>>)
        BY <1>1, <2>1, <3>1 DEF Touching
      <4>2. \A k \in 0 .. s.length - 1 : <<s.x + i - 1, s.y>> # ShipCell(s, k)
        BY <1>1, <2>1, <3>1
      <4> QED
        BY <1>3, <1>4, <3>1, <4>1, <4>2 DEF StepIn
    <3>2. CASE i # 0
      <4>1. <<s.x + i - 1, s.y>> = ShipCell(s, j)
        BY <1>1, <1>4, <2>1, <3>2
      <4> QED
        BY <1>2, <1>4, <4>1 DEF StepIn
    <3> QED
      BY <3>1, <3>2
  <2>3. <<s.x + j, s.y - 1>> \notin f.ship
    <3>1. Touching(ShipCell(s, j), <<s.x + j, s.y - 1>>)
      BY <1>1, <1>4, <2>1 DEF Touching
    <3>2. \A k \in 0 .. s.length - 1 : <<s.x + j, s.y - 1>> # ShipCell(s, k)
      BY <1>1, <1>4, <2>1
    <3> QED
      BY <1>3, <1>4, <3>1, <3>2
  <2>4. ShipCell(s, i)[1] = s.x + i /\ ShipCell(s, i)[2] = s.y
    BY <1>4, <2>1
  <2>5. <<ShipCell(s, i)[1] - 1, ShipCell(s, i)[2]>> = <<s.x + i - 1, s.y>>
    BY <1>1, <1>4, <2>4
  <2>6. <<ShipCell(s, j)[1], ShipCell(s, j)[2] - 1>> = <<s.x + j, s.y - 1>>
    BY <1>4, <2>1
  <2>7. StepIn(f, ShipCell(s, j), <<ShipCell(s, j)[1], ShipCell(s, j)[2] - 1>>) = ShipCell(s, j)
    BY <2>3, <2>6 DEF StepIn
  <2> QED
    BY <2>2, <2>5, <2>7 DEF StepBack
<1>6. CASE s.dir # "h"
  <2>1. \A k \in Int : ShipCell(s, k) = <<s.x, s.y + k>>
    BY <1>6 DEF ShipCell
  <2>2. <<s.x - 1, s.y + i>> \notin f.ship
    <3>1. Touching(ShipCell(s, i), <<s.x - 1, s.y + i>>)
      BY <1>1, <1>4, <2>1 DEF Touching
    <3>2. \A k \in 0 .. s.length - 1 : <<s.x - 1, s.y + i>> # ShipCell(s, k)
      BY <1>1, <1>4, <2>1
    <3> QED
      BY <1>3, <1>4, <3>1, <3>2
  <2>3. StepIn(f, ShipCell(s, i), <<s.x, s.y + i - 1>>) = ShipCell(s, j)
    <3>1. CASE i = 0
      <4>1. Touching(ShipCell(s, 0), <<s.x, s.y + i - 1>>)
        BY <1>1, <2>1, <3>1 DEF Touching
      <4>2. \A k \in 0 .. s.length - 1 : <<s.x, s.y + i - 1>> # ShipCell(s, k)
        BY <1>1, <2>1, <3>1
      <4> QED
        BY <1>3, <1>4, <3>1, <4>1, <4>2 DEF StepIn
    <3>2. CASE i # 0
      <4>1. <<s.x, s.y + i - 1>> = ShipCell(s, j)
        BY <1>1, <1>4, <2>1, <3>2
      <4> QED
        BY <1>2, <1>4, <4>1 DEF StepIn
    <3> QED
      BY <3>1, <3>2
  <2>4. ShipCell(s, i)[1] = s.x /\ ShipCell(s, i)[2] = s.y + i
    BY <1>4, <2>1
  <2>5. StepIn(f, ShipCell(s, i), <<s.x - 1, s.y + i>>) = ShipCell(s, i)
    BY <2>2 DEF StepIn
  <2>6. <<ShipCell(s, i)[1] - 1, ShipCell(s, i)[2]>> = <<s.x - 1, s.y + i>>
    BY <2>4
  <2>7. <<ShipCell(s, i)[1], ShipCell(s, i)[2] - 1>> = <<s.x, s.y + i - 1>>
    BY <1>1, <1>4, <2>4
  <2> QED
    BY <2>3, <2>5, <2>6, <2>7 DEF StepBack
<1> QED
  BY <1>5, <1>6

LEMMA ForwardAlong ==
    ASSUME NEW f, NEW s, LoneShip(f, s), NEW i \in 0 .. s.length - 1
    PROVE  StepForward(f, ShipCell(s, i)) =
               ShipCell(s, IF i = s.length - 1 THEN i ELSE i + 1)
<1>1. s.length \in Int /\ s.x \in Int /\ s.y \in Int
  BY DEF LoneShip, Lengths
<1>2. \A j \in 0 .. s.length - 1 : ShipCell(s, j) \in f.ship /\ ShipCell(s, j) \in ShipCells(s)
  BY DEF LoneShip, ShipCells
<1>3. ASSUME NEW j \in 0 .. s.length - 1, NEW d \in f.ship, Touching(ShipCell(s, j), d)
      PROVE  \E k \in 0 .. s.length - 1 : d = ShipCell(s, k)
  BY <1>2, <1>3 DEF LoneShip, ShipCells
<1> DEFINE j == IF i = s.length - 1 THEN i ELSE i + 1
<1>4. j \in 0 .. s.length - 1 /\ i \in Int
  BY <1>1
<1>5. CASE s.dir = "h"
  <2>1. \A k \in Int : ShipCell(s, k) = <<s.x + k, s.y>>
    BY <1>5 DEF ShipCell
  <2>2. StepIn(f, ShipCell(s, i), <<s.x + i + 1, s.y>>) = ShipCell(s, j)
    <3>1. CASE i = s.length - 1
      <4>1. Touching(ShipCell(s, i), <<s.x + i + 1, s.y>>)
        BY <1>1, <1>4, <2>1 DEF Touching
      <4>2. \A k \in 0 .. s.length - 1 : <<s.x + i + 1, s.y>> # ShipCell(s, k)
        BY <1>1, <2>1, <3>1
      <4> QED
        BY <1>3, <1>4, <3>1, <4>1, <4>2 DEF StepIn
    <3>2. CASE i # s.length - 1
      <4>1. <<s.x + i + 1, s.y>> = ShipCell(s, j)
        BY <1>1, <1>4, <2>1, <3>2
      <4> QED
        BY <1>2, <1>4, <4>1 DEF StepIn
    <3> QED
      BY <3>1, <3>2
  <2>3. <<s.x + j, s.y + 1>> \notin f.ship
    <3>1. Touching(ShipCell(s, j), <<s.x + j, s.y + 1>>)
      BY <1>1, <1>4, <2>1 DEF Touching
    <3>2. \A k \in 0 .. s.length - 1 : <<s.x + j, s.y + 1>> # ShipCell(s, k)
      BY <1>1, <1>4, <2>1
    <3> QED
      BY <1>3, <1>4, <3>1, <3>2
  <2>4. ShipCell(s, i)[1] = s.x + i /\ ShipCell(s, i)[2] = s.y
    BY <1>4, <2>1
  <2>5. ShipCell(s, j) = <<s.x + j, s.y>>
    BY <1>4, <2>1
  <2> QED
    BY <2>2, <2>3, <2>4, <2>5 DEF StepForward, StepIn
<1>6. CASE s.dir # "h"
  <2>1. \A k \in Int : ShipCell(s, k) = <<s.x, s.y + k>>
    BY <1>6 DEF ShipCell
  <2>2. <<s.x + 1, s.y + i>> \notin f.ship
    <3>1. Touching(ShipCell(s, i), <<s.x + 1, s.y + i>>)
      BY <1>1, <1>4, <2>1 DEF Touching
    <3>2. \A k \in 0 .. s.length - 1 : <<s.x + 1, s.y + i>> # ShipCell(s, k)
      BY <1>1, <1>4, <2>1
    <3> QED
      BY <1>3, <1>4, <3>1, <3>2
  <2>3. StepIn(f, ShipCell(s, i), <<s.x, s.y + i + 1>>) = ShipCell(s, j)
    <3>1. CASE i = s.length - 1
      <4>1. Touching(ShipCell(s, i), <<s.x, s.y + i + 1>>)
        BY <1>1, <1>4, <2>1 DEF Touching
      <4>2. \A k \in 0 .. s.length - 1 : <<s.x, s.y + i + 1>> # ShipCell(s, k)
        BY <1>1, <2>1, <3>1
      <4> QED
        BY <1>3, <1>4, <3>1, <4>1, <4>2 DEF StepIn
    <3>2. CASE i # s.length - 1
      <4>1. <<s.x, s.y + i + 1>> = ShipCell(s, j)
        BY <1>1, <1>4, <2>1, <3>2
      <4> QED
        BY <1>2, <1>4, <4>1 DEF StepIn
    <3> QED
      BY <3>1, <3>2
  <2>4. ShipCell(s, i)[1] = s.x /\ ShipCell(s, i)[2] = s.y + i
    BY <1>4, <2>1
  <2>5. StepIn(f, ShipCell(s, i), <<s.x + 1, s.y + i>>) = ShipCell(s, i)
    BY <2>2 DEF StepIn
  <2> QED
    BY <2>3, <2>4, <2>5 DEF StepForward
<1> QED
  BY <1>5, <1>6

LEMMA StepsStayInPlane ==
    ASSUME NEW f, NEW c \in Int \X Int
    PROVE  StepBack(f, c) \in Int \X Int /\ StepForward(f, c) \in Int \X Int
<1>1. ASSUME NEW d \in Int \X Int, NEW e \in Int \X Int PROVE StepIn(f, d, e) \in Int \X Int
  BY DEF StepIn
<1>2. c[1] \in Int /\ c[2] \in Int
  OBVIOUS
<1> DEFINE left == StepIn(f, c, <<c[1] - 1, c[2]>>)
           right == StepIn(f, c, <<c[1] + 1, c[2]>>)
<1>3. left \in Int \X Int /\ right \in Int \X Int
  BY <1>1, <1>2
<1> HIDE DEF left, right
<1>4. <<left[1], left[2] - 1>> \in Int \X Int /\ <<right[1], right[2] + 1>> \in Int \X Int
  BY <1>3
<1>5. StepIn(f, left, <<left[1], left[2] - 1>>) \in Int \X Int
  BY <1>1, <1>3, <1>4
<1>6. StepIn(f, right, <<right[1], right[2] + 1>>) \in Int \X Int
  BY <1>1, <1>3, <1>4
<1>7. StepBack(f, c) \in Int \X Int
  BY <1>5 DEF StepBack, left
<1>8. StepForward(f, c) \in Int \X Int
  BY <1>6 DEF StepForward, right
<1> QED
  BY <1>7, <1>8

LEMMA StartOfLoneShip ==
    ASSUME NEW f, NEW s, LoneShip(f, s), NEW i \in 0 .. s.length - 1
    PROVE  ShipStart(f, ShipCell(s, i)) = ShipCell(s, 0)
<1>1. MaxLength \in Nat /\ s.length \in 1 .. MaxLength /\ s.x \in Int /\ s.y \in Int
  BY FieldAssumption DEF LoneShip, Lengths
<1> DEFINE c == ShipCell(s, i)
           Course(b) == b = [n \in 0 .. MaxLength |-> IF n = 0 THEN c ELSE StepBack(f, b[n - 1])]
           back == CHOOSE b : Course(b)
<1>2. \E b : Course(b)
  <2> DEFINE step == [d \in Plane |-> StepBack(f, d)]
  <2>1. step \in [Plane -> Plane]
    BY StepsStayInPlane DEF Plane
  <2>2. c \in Plane
    BY <1>1, ShipCellPlace DEF LoneShip, Plane
  <2> HIDE DEF c
  <2>3. PICK g \in [0 .. MaxLength -> Plane] : LoopCourse(g, c, step, MaxLength)
    <3> HIDE DEF step
    <3> QED
      BY <1>1, <2>1, <2>2, LoopRuns
  <2>4. ASSUME NEW n \in 0 .. MaxLength, n # 0 PROVE step[g[n - 1]] = StepBack(f, g[n - 1])
    <3>1. n - 1 \in 0 .. MaxLength
      BY <1>1, <2>4
    <3> QED
      BY <3>1
  <2>5. g[0] = c /\ \A n \in 0 .. MaxLength : n # 0 => g[n] = StepBack(f, g[n - 1])
    <3> HIDE DEF step, Course
    <3>1. g[0] = c /\ \A n \in 1 .. MaxLength : g[n] = step[g[n - 1]]
      BY <2>3 DEF LoopCourse
    <3>2. \A n \in 0 .. MaxLength : n # 0 => n \in 1 .. MaxLength
      BY <1>1
    <3> QED
      BY <2>4, <3>1, <3>2
  <2>6. Course(g)
    BY <2>5
  <2> QED
    BY <2>6
<1>3. Course(back)
  BY <1>2
<1>4. ShipStart(f, c) = back[MaxLength]
  BY DEF ShipStart
<1> HIDE DEF back
<1> DEFINE Place(n) == ShipCell(s, IF n >= i THEN 0 ELSE i - n)
           T == {n \in 0 .. MaxLength : back[n] = Place(n)}
<1>5. 0 \in T
  BY <1>1, <1>3
<1>6. ASSUME NEW n \in Nat, n < MaxLength, n \in T PROVE n + 1 \in T
  <2> DEFINE j == IF n >= i THEN 0 ELSE i - n
  <2>1. n + 1 \in 0 .. MaxLength /\ j \in 0 .. s.length - 1
    BY <1>1, <1>6
  <2>2. back[n + 1] = StepBack(f, back[n])
    BY <1>1, <1>3, <1>6, <2>1
  <2>3. back[n] = ShipCell(s, j)
    BY <1>6
  <2>4. StepBack(f, ShipCell(s, j)) = ShipCell(s, IF j = 0 THEN 0 ELSE j - 1)
    <3> HIDE DEF j
    <3> QED
      BY <2>1, BackAlong
  <2>5. (IF j = 0 THEN 0 ELSE j - 1) = IF n + 1 >= i THEN 0 ELSE i - (n + 1)
    BY <1>1
  <2>6. back[n + 1] = Place(n + 1)
    BY <2>2, <2>3, <2>4, <2>5
  <2> QED
    BY <2>1, <2>6
<1>7. MaxLength \in T
  <2>1. T \in SUBSET Nat
    BY <1>1
  <2> HIDE DEF T
  <2>2. 0 .. MaxLength \subseteq T
    BY <1>1, <1>5, <1>6, <2>1, EveryTurn
  <2> QED
    BY <1>1, <2>2
<1>8. back[MaxLength] = ShipCell(s, 0)
  BY <1>1, <1>7
<1> QED
  BY <1>4, <1>8

(* The walk of check_kill and of kill, begun at any cell of a ship that stands alone, visits
   that ship, the whole of it and nothing else (field.hpp:152, field.hpp:213). *)
THEOREM WalkedIsTheShip ==
    ASSUME NEW f, NEW s, LoneShip(f, s), NEW c \in ShipCells(s)
    PROVE  Walked(f, c) = ShipCells(s)
<1>1. MaxLength \in Nat /\ s.length \in 1 .. MaxLength /\ s.x \in Int /\ s.y \in Int
  BY FieldAssumption DEF LoneShip, Lengths
<1>2. ShipStart(f, c) = ShipCell(s, 0)
  BY StartOfLoneShip DEF ShipCells
<1>3. \A i \in 0 .. s.length - 1 : ShipCell(s, i) \in f.ship
  BY DEF LoneShip, ShipCells
<1> DEFINE last == MaxLength - 1
           Course(w) == w = [n \in 0 .. last |->
                               IF n = 0 THEN ShipStart(f, c)
                               ELSE IF w[n - 1] \in f.ship THEN StepForward(f, w[n - 1])
                               ELSE w[n - 1]]
           walk == CHOOSE w : Course(w)
<1>4. last \in Nat /\ s.length - 1 <= last /\ s.length - 1 \in Nat
  BY <1>1
<1>5. \E w : Course(w)
  <2> DEFINE step == [d \in Plane |-> IF d \in f.ship THEN StepForward(f, d) ELSE d]
  <2>1. step \in [Plane -> Plane]
    BY StepsStayInPlane DEF Plane
  <2>2. ShipStart(f, c) \in Plane
    BY <1>1, <1>2, ShipCellPlace DEF LoneShip, Plane
  <2> HIDE DEF last
  <2>3. PICK g \in [0 .. last -> Plane] : LoopCourse(g, ShipStart(f, c), step, last)
    <3> HIDE DEF step
    <3> QED
      BY <1>4, <2>1, <2>2, LoopRuns
  <2>4. ASSUME NEW n \in 0 .. last, n # 0
        PROVE  step[g[n - 1]] = IF g[n - 1] \in f.ship THEN StepForward(f, g[n - 1]) ELSE g[n - 1]
    <3>1. n - 1 \in 0 .. last
      BY <1>4, <2>4
    <3> QED
      BY <3>1
  <2>5. /\ g[0] = ShipStart(f, c)
        /\ \A n \in 0 .. last : n # 0 =>
               g[n] = IF g[n - 1] \in f.ship THEN StepForward(f, g[n - 1]) ELSE g[n - 1]
    <3> HIDE DEF step
    <3> QED
      BY <1>4, <2>3, <2>4 DEF LoopCourse
  <2>6. Course(g)
    BY <2>5
  <2> QED
    BY <2>6
<1>6. Course(walk)
  BY <1>5
<1>7. Walked(f, c) = {walk[n] : n \in 0 .. last} \cap f.ship
  BY DEF Walked
<1> HIDE DEF walk
<1> DEFINE At(n) == IF n < s.length THEN n ELSE s.length - 1
           T == {n \in 0 .. last : walk[n] = ShipCell(s, At(n))}
<1>8. 0 \in T
  BY <1>1, <1>2, <1>4, <1>6
<1>9. ASSUME NEW n \in Nat, n < last, n \in T PROVE n + 1 \in T
  <2>1. n + 1 \in 0 .. last /\ At(n) \in 0 .. s.length - 1
    BY <1>1, <1>4, <1>9
  <2>2. walk[n] = ShipCell(s, At(n)) /\ walk[n] \in f.ship
    BY <1>3, <1>9, <2>1
  <2>3. walk[n + 1] = StepForward(f, walk[n])
    BY <1>4, <1>6, <1>9, <2>1, <2>2
  <2>4. StepForward(f, ShipCell(s, At(n))) =
            ShipCell(s, IF At(n) = s.length - 1 THEN At(n) ELSE At(n) + 1)
    <3> HIDE DEF At
    <3> QED
      BY <2>1, ForwardAlong
  <2>5. (IF At(n) = s.length - 1 THEN At(n) ELSE At(n) + 1) = At(n + 1)
    BY <1>1
  <2>6. walk[n + 1] = ShipCell(s, At(n + 1))
    BY <2>2, <2>3, <2>4, <2>5
  <2> QED
    BY <2>1, <2>6
<1>10. \A n \in 0 .. last : walk[n] = ShipCell(s, At(n))
  <2>1. T \in SUBSET Nat
    BY <1>4
  <2> HIDE DEF T
  <2>2. 0 .. last \subseteq T
    BY <1>4, <1>8, <1>9, <2>1, EveryTurn
  <2> QED
    BY <2>2 DEF T
<1>11. ASSUME NEW d \in Walked(f, c) PROVE d \in ShipCells(s)
  <2>1. PICK n \in 0 .. last : d = ShipCell(s, At(n))
    BY <1>7, <1>10
  <2>2. At(n) \in 0 .. s.length - 1
    BY <1>1, <1>4
  <2> HIDE DEF At
  <2> QED
    BY <2>1, <2>2 DEF ShipCells
<1>12. ASSUME NEW d \in ShipCells(s) PROVE d \in Walked(f, c)
  <2>1. PICK n \in 0 .. s.length - 1 : d = ShipCell(s, n)
    BY DEF ShipCells
  <2>2. n \in 0 .. last /\ At(n) = n
    BY <1>1, <1>4
  <2>3. walk[n] = d
    BY <1>10, <2>1, <2>2
  <2> QED
    BY <1>3, <1>7, <2>1, <2>2, <2>3
<1> QED
  BY <1>11, <1>12

(* A shot at a ship that stands alone: it is killed when no cell of it is left, and only
   then are its surroundings marked (server.cpp:303-316). *)
LEMMA ShotAtLoneShip ==
    ASSUME NEW f \in Fields, NEW s, LoneShip(f, s), NEW c \in ShipCells(s)
    PROVE  /\ CheckKill(MarkShot(f, c), c) <=> ShipCells(s) \subseteq f.shot \cup {c}
           /\ CheckKill(f, c) <=> ShipCells(s) \subseteq f.shot
           /\ ShotField(f, c).shot =
                  f.shot \cup {c} \cup
                  (IF ShipCells(s) \subseteq f.shot \cup {c}
                   THEN Surroundings(ShipCells(s)) \cap Cells ELSE {})
<1> DEFINE marked == MarkShot(f, c)
<1>1. marked.ship = f.ship /\ marked.shot = f.shot \cup {c}
  BY DEF MarkShot, Fields
<1>2. LoneShip(marked, s)
  BY <1>1 DEF LoneShip
<1>3. Walked(marked, c) = ShipCells(s) /\ Walked(f, c) = ShipCells(s)
  <2> HIDE DEF marked
  <2> QED
    BY <1>2, WalkedIsTheShip
<1>4. CheckKill(marked, c) <=> ShipCells(s) \subseteq f.shot \cup {c}
  BY <1>1, <1>3 DEF CheckKill
<1>5. CheckKill(f, c) <=> ShipCells(s) \subseteq f.shot
  BY <1>3 DEF CheckKill
<1>6. c \in f.ship
  BY DEF LoneShip
<1>7. Kill(marked, c).shot = marked.shot \cup (Surroundings(ShipCells(s)) \cap Cells)
  BY <1>3 DEF Kill, MarkShot, Fields
<1>8. ShotField(f, c) = IF CheckKill(marked, c) THEN Kill(marked, c) ELSE marked
  BY <1>6 DEF ShotField
<1> HIDE DEF marked
<1>9. ShotField(f, c).shot =
          f.shot \cup {c} \cup
          (IF ShipCells(s) \subseteq f.shot \cup {c}
           THEN Surroundings(ShipCells(s)) \cap Cells ELSE {})
  BY <1>1, <1>4, <1>7, <1>8
<1> QED
  BY <1>4, <1>5, <1>9 DEF marked

-----------------------------------------------------------------------------
(* A ship accepted by set_ship touches no ship cell of the field. *)
LEMMA AcceptedIsApart ==
    ASSUME NEW f \in Fields,
           NEW s \in [x : Int, y : Int, length : Int, dir : {"h", "v"}],
           CanSetShip(f, s), NEW c \in ShipCells(s), NEW d \in f.ship
    PROVE  ~Touching(c, d) /\ ~Touching(d, c)
<1>1. Clearance(s) \cap f.ship = {}
  BY DEF CanSetShip
<1>2. c \in Int \X Int /\ d \in Int \X Int
  BY FieldAssumption DEF CanSetShip, Cells, Fields
<1>3. Touching(c, d) <=> Touching(d, c)
  BY <1>2 DEF Touching
<1>4. ~Touching(c, d)
  BY <1>1, <1>2, ClearanceCoversTouching
<1> QED
  BY <1>3, <1>4

LEMMA AroundTouches ==
    ASSUME NEW c \in Int \X Int, NEW d \in Around(c)
    PROVE  Touching(c, d)
<1>1. c[1] \in Int /\ c[2] \in Int
  OBVIOUS
<1>2. CASE d \in Cross(c)
  BY <1>1, <1>2 DEF Cross, Touching
<1>3. CASE d \in Corners(c)
  BY <1>1, <1>3 DEF Corners, Touching
<1> QED
  BY <1>2, <1>3 DEF Around

(* Every ship cell of a field belongs to a ship that stands alone: what set_ship makes of
   a field, and all that a player's ships have to be for the walks to be right. *)
Ships == [x : Int, y : Int, length : Int, dir : {"h", "v"}]

FieldSound(f) == \A c \in f.ship : \E s \in Ships : LoneShip(f, s) /\ c \in ShipCells(s)

LEMMA SameShipsSound ==
    ASSUME NEW f, NEW g, g.ship = f.ship, FieldSound(f)
    PROVE  FieldSound(g)
BY DEF FieldSound, LoneShip

LEMMA PlacedIsSound ==
    ASSUME NEW f \in Fields, FieldSound(f), NEW s \in Ships, CanSetShip(f, s)
    PROVE  FieldSound(SetShip(f, s))
<1> DEFINE g == SetShip(f, s)
<1>1. g.ship = f.ship \cup ShipCells(s)
  BY DEF SetShip, Fields
<1>2. \A c \in ShipCells(s), d \in f.ship : ~Touching(c, d) /\ ~Touching(d, c)
  BY AcceptedIsApart DEF Ships
<1>3. s.length \in Lengths /\ s.dir \in {"h", "v"} /\ s.x \in Int /\ s.y \in Int
  BY DEF CanSetShip, Ships
<1> HIDE DEF g
<1>4. LoneShip(g, s)
  BY <1>1, <1>2, <1>3 DEF LoneShip
<1>5. ASSUME NEW t \in Ships, LoneShip(f, t) PROVE LoneShip(g, t)
  BY <1>1, <1>2, <1>5 DEF LoneShip
<1> QED
  BY <1>1, <1>4, <1>5 DEF FieldSound, g

(* Nobody has placed anything. *)
LEMMA NothingIsSound == \A f : f.ship = {} => FieldSound(f)
BY DEF FieldSound

(* A shot takes one cell of the fleet: a kill marks no cell of another ship. *)
LEMMA ShotTakesOne ==
    ASSUME NEW f \in Fields, FieldSound(f), NEW c \in Cells
    PROVE  LET g == ShotField(f, c)
           IN  /\ g \in Fields /\ g.ship = f.ship /\ FieldSound(g)
               /\ f.shot \cup {c} \subseteq g.shot
               /\ g.ship \ g.shot = (f.ship \ f.shot) \ {c}
               /\ c \notin f.ship => g.shot = f.shot \cup {c}
<1> DEFINE g == ShotField(f, c)
<1>1. g \in Fields /\ g.ship = f.ship
  BY ShotFieldType, ShotSinks
<1>2. CASE c \notin f.ship
  <2>1. g.shot = f.shot \cup {c}
    BY <1>2 DEF ShotField, MarkShot, Fields
  <2> HIDE DEF g
  <2> QED
    BY <1>1, <1>2, <2>1, SameShipsSound DEF g
<1>3. CASE c \in f.ship
  <2>1. PICK s \in Ships : LoneShip(f, s) /\ c \in ShipCells(s)
    BY <1>3 DEF FieldSound
  <2>2. g.shot = f.shot \cup {c} \cup
                 (IF ShipCells(s) \subseteq f.shot \cup {c}
                  THEN Surroundings(ShipCells(s)) \cap Cells ELSE {})
    BY <2>1, ShotAtLoneShip
  <2>3. ASSUME NEW d \in Surroundings(ShipCells(s)), d \in f.ship PROVE d \in ShipCells(s)
    <3>1. PICK e \in ShipCells(s) : d \in Around(e)
      BY DEF Surroundings
    <3>2. e \in Int \X Int
      BY <2>1, <3>1, ShipCellPlace DEF LoneShip, ShipCells
    <3>3. Touching(e, d)
      BY <3>1, <3>2, AroundTouches
    <3> QED
      BY <2>1, <2>3, <3>1, <3>3 DEF LoneShip
  <2> HIDE DEF g
  <2>4. g.ship \ g.shot = (f.ship \ f.shot) \ {c}
    BY <1>1, <2>2, <2>3
  <2> QED
    BY <1>1, <1>3, <2>2, <2>4, SameShipsSound DEF g
<1> QED
  BY <1>2, <1>3
=============================================================================
