---------------------------- MODULE BoardProofs ----------------------------
(* The invariants of Board, for every size of the board, every quota, every length of
   ship and every choice of placements. *)
EXTENDS Board, FieldProofs, FiniteSetTheorems

(* field and fleet agree on where ships are: the first half of FleetOnField,
   which makes the checks of set_ship, made on cells, checks on ships. *)
FleetIsShip == field.ship = UNION fleet

ShipInv == TypeOK /\ FleetIsShip /\ ShipsApart

LEMMA InitShipInv == Init => ShipInv
<1> SUFFICES ASSUME Init PROVE ShipInv
  OBVIOUS
<1>1. TypeOK
  BY EmptyFieldType DEF Init, TypeOK
<1>2. FleetIsShip
  BY DEF Init, FleetIsShip, EmptyField
<1>3. ShipsApart
  BY DEF Init, ShipsApart
<1> QED
  BY <1>1, <1>2, <1>3 DEF ShipInv

(* The placement of a ship that both copies take. *)
LEMMA PlaceShipShipInv ==
    ASSUME ShipInv, NEW s \in Placements, PlaceShip(s)
    PROVE  ShipInv'
<1>1. s.dir \in {"h", "v"} /\ CanSetShip(mine, s)
  BY DEF PlaceShip, CanSetShip
<1>2. s \in [x : Int, y : Int, length : Int, dir : {"h", "v"}]
  BY <1>1, BoardAssumption
<1>3. field \in Fields /\ mine \in Fields /\ fleet \subseteq SUBSET Cells
  BY DEF ShipInv, TypeOK
<1>4. mine' \in Fields
  BY <1>1, <1>3, SetShipType DEF PlaceShip
<1>5. CASE UNCHANGED <<field, fleet>>
  <2>1. TypeOK'
    BY <1>4, <1>5 DEF ShipInv, TypeOK, PlaceShip
  <2> QED
    BY <1>5, <2>1 DEF ShipInv, FleetIsShip, ShipsApart
<1>6. CASE /\ CanSetShip(field, s)
           /\ field' = SetShip(field, s)
           /\ fleet' = fleet \cup {ShipCells(s)}
  <2>1. field' \in Fields
    BY <1>3, <1>6, SetShipType
  <2>2. ShipCells(s) \in SUBSET Cells
    BY <1>6 DEF CanSetShip
  <2>3. TypeOK'
    BY <1>3, <1>4, <1>6, <2>1, <2>2 DEF ShipInv, TypeOK, PlaceShip
  <2>4. FleetIsShip'
    <3>1. field'.ship = field.ship \cup ShipCells(s)
      BY <1>3, <1>6 DEF SetShip, Fields
    <3> QED
      BY <1>6, <3>1 DEF ShipInv, FleetIsShip
  <2>5. ShipsApart'
    <3> SUFFICES ASSUME NEW A \in fleet', NEW B \in fleet', A # B,
                        NEW c \in A, NEW d \in B
                 PROVE  ~Touching(c, d)
      BY DEF ShipsApart
    <3>1. CASE A \in fleet /\ B \in fleet
      BY <3>1 DEF ShipInv, ShipsApart
    <3>2. CASE A = ShipCells(s) /\ B \in fleet
      <4>1. d \in field.ship
        BY <3>2 DEF ShipInv, FleetIsShip
      <4> QED
        BY <1>2, <1>3, <1>6, <3>2, <4>1, AcceptedIsApart
    <3>3. CASE B = ShipCells(s) /\ A \in fleet
      <4>1. c \in field.ship
        BY <3>3 DEF ShipInv, FleetIsShip
      <4> QED
        BY <1>2, <1>3, <1>6, <3>3, <4>1, AcceptedIsApart
    <3> QED
      BY <1>6, <3>1, <3>2, <3>3
  <2> QED
    BY <2>3, <2>4, <2>5 DEF ShipInv
<1> QED
  BY <1>5, <1>6 DEF PlaceShip

(* A shot leaves the ships of the server's copy where they are. *)
LEMMA ShootShipInv ==
    ASSUME ShipInv, NEW c \in Cells, Shoot(c)
    PROVE  ShipInv'
<1>1. field \in Fields /\ mine \in Fields /\ view \in Fields
  BY DEF ShipInv, TypeOK
<1>2. field' \in Fields
  BY <1>1, ShotFieldType DEF Shoot
<1>3. mine' \in Fields /\ view' \in Fields
  BY <1>1, ShotAnswerType, CopyAnswerType DEF Shoot
<1>4. TypeOK'
  BY <1>2, <1>3 DEF ShipInv, TypeOK, Shoot
<1>5. field'.ship = field.ship
  <2>1. MarkShot(field, c) \in Fields /\ MarkShot(field, c).ship = field.ship
    BY <1>1, MarkShotType DEF MarkShot, Fields
  <2>2. Kill(MarkShot(field, c), c).ship = MarkShot(field, c).ship
    BY <2>1 DEF Kill, Fields
  <2> QED
    BY <2>1, <2>2 DEF Shoot, ShotField
<1> QED
  BY <1>4, <1>5 DEF ShipInv, FleetIsShip, ShipsApart, Shoot

LEMMA NextShipInv == ShipInv /\ [Next]_vars => ShipInv'
<1> SUFFICES ASSUME ShipInv, [Next]_vars PROVE ShipInv'
  OBVIOUS
<1>1. CASE \E s \in Placements : PlaceShip(s)
  BY <1>1, PlaceShipShipInv
<1>2. CASE Ready
  BY <1>2 DEF ShipInv, TypeOK, FleetIsShip, ShipsApart, Ready
<1>3. CASE \E c \in Cells : Shoot(c)
  BY <1>3, ShootShipInv
<1>4. CASE LoseElsewhere
  BY <1>4 DEF ShipInv, TypeOK, FleetIsShip, ShipsApart, LoseElsewhere
<1>5. CASE NewGame
  <2>1. field' \in Fields /\ mine' \in Fields /\ view' \in Fields
    BY <1>5, ClearType DEF NewGame, ShipInv, TypeOK
  <2>2. TypeOK'
    BY <1>5, <2>1 DEF NewGame, TypeOK
  <2>3. field'.ship = {} /\ fleet' = {}
    BY <1>5 DEF NewGame, Clear, ShipInv, TypeOK, Fields
  <2> QED
    BY <2>2, <2>3 DEF ShipInv, FleetIsShip, ShipsApart
<1>6. CASE UNCHANGED vars
  BY <1>6 DEF ShipInv, TypeOK, FleetIsShip, ShipsApart, vars
<1> QED
  BY <1>1, <1>2, <1>3, <1>4, <1>5, <1>6 DEF Next

-----------------------------------------------------------------------------
(* What the shots do, on top of where the ships are. *)
Laid == [x : Int, y : Int, length : Lengths, dir : {"h", "v"}]

(* Every ship of the fleet was laid by one placement. *)
FleetLaid == \A A \in fleet : \E s \in Laid : A = ShipCells(s)

(* The counters of set_ship bound the ships of each length. *)
FleetCounted ==
    \A l \in Lengths :
        /\ Cardinality({A \in fleet : Cardinality(A) = l}) <= field.placed[l]
        /\ field.placed[l] <= Quota[l]

NoneFired == phase = "placing" => fired = {}

IInv ==
    /\ ShipInv
    /\ FleetLaid
    /\ FleetCounted
    /\ NoneFired
    /\ ShotsAreFiredOrAroundSunk
    /\ CopiesAgree
    /\ SunkFleetEndsGame

LEMMA ShipStandsAlone ==
    ASSUME ShipInv, NEW s \in Laid, ShipCells(s) \in fleet
    PROVE  LoneShip(field, s)
<1>1. s.length \in Lengths /\ s.dir \in {"h", "v"} /\ s.x \in Int /\ s.y \in Int
  BY DEF Laid
<1>2. ShipCells(s) \subseteq field.ship
  BY DEF ShipInv, FleetIsShip
<1>3. ASSUME NEW c \in ShipCells(s), NEW d \in field.ship, Touching(c, d)
      PROVE  d \in ShipCells(s)
  <2>1. PICK B \in fleet : d \in B
    BY DEF ShipInv, FleetIsShip
  <2> QED
    BY <1>3, <2>1 DEF ShipInv, ShipsApart
<1> QED
  BY <1>1, <1>2, <1>3 DEF LoneShip

LEMMA OneShipPerCell ==
    ASSUME ShipInv, NEW A \in fleet, NEW B \in fleet, NEW c \in A, c \in B
    PROVE  A = B
<1>1. c \in Int \X Int
  BY FieldAssumption DEF ShipInv, TypeOK, Cells
<1>2. Touching(c, c)
  BY <1>1 DEF Touching
<1> QED
  BY <1>2 DEF ShipInv, ShipsApart

Sunk(cells) == {A \in fleet : A \subseteq cells}

(* A shot ship cell was fired at: the surroundings of a sunk ship hold no ship. *)
LEMMA ShotShipsWereFiredAt ==
    ASSUME ShipInv, ShotsAreFiredOrAroundSunk
    PROVE  field.ship \cap field.shot \subseteq fired
<1> SUFFICES ASSUME NEW d \in field.ship, d \in field.shot, d \notin fired
             PROVE  FALSE
  OBVIOUS
<1>1. d \in Surroundings(UNION Sunk(fired))
  BY DEF ShotsAreFiredOrAroundSunk, Sunk
<1>2. PICK A \in Sunk(fired) : \E c \in A : d \in Around(c)
  BY <1>1 DEF Surroundings
<1>3. PICK c \in A : d \in Around(c)
  BY <1>2
<1>4. c \in Int \X Int
  BY <1>2, FieldAssumption DEF ShipInv, TypeOK, Cells, Sunk
<1>5. Touching(c, d)
  BY <1>3, <1>4, AroundTouches
<1>6. PICK B \in fleet : d \in B
  BY DEF ShipInv, FleetIsShip
<1>7. A = B
  BY <1>2, <1>5, <1>6 DEF ShipInv, ShipsApart, Sunk
<1> QED
  BY <1>2, <1>6, <1>7 DEF Sunk

(* A ship of length n has n cells. *)
LEMMA ShipSize ==
    ASSUME NEW s \in Laid
    PROVE  /\ IsFiniteSet(ShipCells(s)) /\ Cardinality(ShipCells(s)) = s.length
           /\ ShipCells(s) # {}
<1>1. s.length \in Nat /\ s.length >= 1 /\ s.x \in Int /\ s.y \in Int
  BY FieldAssumption DEF Laid, Lengths
<1> DEFINE turns == 0 .. s.length - 1
           cell == [i \in turns |-> ShipCell(s, i)]
<1>2. cell \in Bijection(turns, ShipCells(s))
  <2>1. cell \in [turns -> ShipCells(s)]
    BY DEF ShipCells
  <2>2. \A i, j \in turns : cell[i] = cell[j] => i = j
    BY <1>1 DEF ShipCell
  <2>3. \A c \in ShipCells(s) : \E i \in turns : cell[i] = c
    BY DEF ShipCells
  <2> QED
    BY <2>1, <2>2, <2>3 DEF Bijection, Injection, Surjection, IsInjective
<1>3. IsFiniteSet(turns) /\ Cardinality(turns) = s.length
  BY <1>1, FS_Interval
<1>4. IsFiniteSet(ShipCells(s)) /\ Cardinality(ShipCells(s)) = s.length
  <2> HIDE DEF turns, cell
  <2>1. ExistsBijection(turns, ShipCells(s))
    BY <1>2 DEF ExistsBijection
  <2> QED
    BY <1>3, <2>1, FS_Bijection
<1>5. ShipCells(s) # {}
  BY <1>1 DEF ShipCells
<1> QED
  BY <1>4, <1>5

LEMMA FleetIsFinite ==
    ASSUME ShipInv
    PROVE  IsFiniteSet(fleet)
<1>1. IsFiniteSet(Cells)
  <2> DEFINE row == 0 .. Size - 1
  <2>1. IsFiniteSet(row)
    BY FieldAssumption, FS_Interval
  <2> HIDE DEF row
  <2>2. IsFiniteSet(row \X row)
    BY <2>1, FS_Product
  <2> QED
    BY <2>2 DEF Cells, row
<1>2. IsFiniteSet(SUBSET Cells)
  BY <1>1, FS_SUBSET
<1> QED
  BY <1>2, FS_Subset DEF ShipInv, TypeOK

LEMMA InitIInv == Init => IInv
<1> SUFFICES ASSUME Init PROVE IInv
  OBVIOUS
<1>1. ShipInv /\ fleet = {} /\ fired = {} /\ field = EmptyField
  BY InitShipInv DEF Init
<1>2. FleetCounted
  <2>1. \A l \in Lengths : {A \in fleet : Cardinality(A) = l} = {}
    BY <1>1
  <2>2. Cardinality({}) = 0
    BY FS_EmptySet
  <2> QED
    BY <1>1, <2>1, <2>2, FieldAssumption DEF FleetCounted, EmptyField
<1>3. ShotsAreFiredOrAroundSunk
  BY <1>1 DEF ShotsAreFiredOrAroundSunk, Surroundings, EmptyField
<1>4. CopiesAgree
  BY DEF Init, CopiesAgree, EmptyField
<1> QED
  BY <1>1, <1>2, <1>3, <1>4 DEF IInv, FleetLaid, NoneFired, SunkFleetEndsGame

(* The owner's copy takes what the server's takes; where a ship is accepted nothing has
   been shot. *)
LEMMA PlaceShipIInv ==
    ASSUME IInv, NEW s \in Placements, PlaceShip(s)
    PROVE  IInv'
<1> USE DEF IInv
<1>1. mine = field /\ field \in Fields /\ fleet \subseteq SUBSET Cells /\ fired \subseteq Cells
  BY DEF CopiesAgree, ShipInv, TypeOK
<1>2. /\ CanSetShip(field, s) /\ phase = "placing" /\ UNCHANGED <<view, phase, fired>>
      /\ field' = SetShip(field, s) /\ mine' = field'
      /\ fleet' = fleet \cup {ShipCells(s)}
  BY <1>1 DEF PlaceShip
<1>3. ShipInv'
  BY PlaceShipShipInv
<1>4. s \in Laid /\ ShipCells(s) # {}
  <2>1. s \in Laid
    BY <1>2, BoardAssumption DEF CanSetShip, Laid
  <2> QED
    BY <2>1, ShipSize
<1>5. /\ field'.ship = field.ship \cup ShipCells(s)
      /\ field'.shot = field.shot
      /\ field'.placed = [field.placed EXCEPT ![s.length] = @ + 1]
  BY <1>1, <1>2 DEF SetShip, Fields
<1>6. ShipCells(s) \cap field.shot = {}
  <2>1. ASSUME NEW c \in ShipCells(s) PROVE c \in Clearance(s)
    BY DEF Clearance, Cross
  <2> QED
    BY <1>2, <2>1 DEF CanSetShip
<1>7. FleetLaid'
  BY <1>2, <1>4 DEF FleetLaid
<1>8. FleetCounted'
  <2> SUFFICES ASSUME NEW l \in Lengths
               PROVE  /\ Cardinality({A \in fleet' : Cardinality(A) = l}) <= field'.placed[l]
                      /\ field'.placed[l] <= Quota[l]
    BY DEF FleetCounted
  <2> DEFINE of == {A \in fleet : Cardinality(A) = l}
             new == {A \in fleet' : Cardinality(A) = l}
  <2>1. Cardinality(of) <= field.placed[l] /\ field.placed[l] <= Quota[l]
    BY DEF FleetCounted
  <2>2. IsFiniteSet(of)
    BY FleetIsFinite, FS_Subset
  <2>3. Cardinality(ShipCells(s)) = s.length /\ s.length \in Lengths
    BY <1>4, ShipSize DEF Laid
  <2>4. /\ field.placed[l] \in Nat /\ Quota[l] \in Nat /\ Cardinality(of) \in Nat
        /\ field.placed[s.length] # Quota[s.length]
    BY <1>1, <1>2, <2>2, FieldAssumption, FS_CardinalityType DEF Fields, CanSetShip
  <2>5. CASE s.length = l
    <3>1. new = of \cup {ShipCells(s)}
      BY <1>2, <2>3, <2>5
    <3>2. Cardinality(of \cup {ShipCells(s)}) \in {Cardinality(of), Cardinality(of) + 1}
      <4> HIDE DEF of
      <4> QED
        BY <2>2, FS_AddElement
    <3>3. field'.placed[l] = field.placed[l] + 1
      BY <1>1, <1>5, <2>5 DEF Fields
    <3> HIDE DEF of, new
    <3>4. Cardinality(new) <= field'.placed[l] /\ field'.placed[l] <= Quota[l]
      BY <2>1, <2>4, <2>5, <3>1, <3>2, <3>3
    <3> QED
      BY <3>4 DEF new
  <2>6. CASE s.length # l
    <3>1. new = of
      BY <1>2, <2>3, <2>6
    <3>2. field'.placed[l] = field.placed[l]
      BY <1>1, <1>5, <2>6 DEF Fields
    <3> QED
      BY <2>1, <3>1, <3>2
  <2> QED
    BY <2>5, <2>6
<1>9. NoneFired' /\ SunkFleetEndsGame'
  BY <1>2 DEF NoneFired, SunkFleetEndsGame
<1>10. ShotsAreFiredOrAroundSunk'
  <2>1. fired \subseteq field.shot
    BY DEF ShotsAreFiredOrAroundSunk
  <2>2. ~(ShipCells(s) \subseteq fired)
    BY <1>4, <1>6, <2>1
  <2>3. {A \in fleet' : A \subseteq fired'} = {A \in fleet : A \subseteq fired}
    BY <1>2, <2>2
  <2> QED
    BY <1>2, <1>5, <2>3 DEF ShotsAreFiredOrAroundSunk
<1>11. CopiesAgree'
  BY <1>2, <1>5, <1>6 DEF CopiesAgree
<1> QED
  BY <1>3, <1>7, <1>8, <1>9, <1>10, <1>11

(* A shot, at the sea or at a ship. *)
LEMMA ShootIInv ==
    ASSUME IInv, NEW c \in Cells, Shoot(c)
    PROVE  IInv'
<1> USE DEF IInv
<1>1. /\ mine = field /\ view.shot = field.shot /\ view.ship = field.ship \cap field.shot
      /\ field \in Fields /\ view \in Fields /\ fleet \subseteq SUBSET Cells
      /\ fired \subseteq Cells
  BY DEF CopiesAgree, ShipInv, TypeOK
<1>2. /\ c \notin field.shot /\ phase = "firing" /\ UNCHANGED fleet
      /\ field' = ShotField(field, c) /\ fired' = fired \cup {c}
      /\ mine' = CopyAnswer(field, c, ShotAnswer(field, c))
      /\ view' = CopyAnswer(view, c, ShotAnswer(field, c))
      /\ phase' = IF ShotAnswer(field, c) = "g" THEN "end" ELSE "firing"
  BY <1>1 DEF Shoot
<1>3. ShipInv' /\ field.ship = UNION fleet
  BY ShootShipInv DEF ShipInv, FleetIsShip
<1>4. field'.ship = field.ship /\ field'.placed = field.placed
  BY <1>1, <1>2, ShotSinks DEF ShotField, MarkShot, Kill, Fields
<1>5. c \notin fired /\ fired \subseteq field.shot
  BY <1>2 DEF ShotsAreFiredOrAroundSunk
<1>6. FleetLaid' /\ FleetCounted' /\ NoneFired'
  BY <1>2, <1>4 DEF FleetLaid, FleetCounted, NoneFired
<1>7. CASE c \notin field.ship
  <2>1. ShotAnswer(field, c) = "m" /\ field' = MarkShot(field, c)
    BY <1>2, <1>7 DEF ShotAnswer, ShotField
  <2>2. field'.shot = field.shot \cup {c}
    BY <1>1, <2>1 DEF MarkShot, Fields
  <2>3. \A A \in fleet : c \notin A
    BY <1>3, <1>7
  <2>4. {A \in fleet' : A \subseteq fired'} = {A \in fleet : A \subseteq fired}
    BY <1>2, <2>3
  <2>5. ShotsAreFiredOrAroundSunk'
    BY <1>2, <2>2, <2>4 DEF ShotsAreFiredOrAroundSunk
  <2>6. SunkFleetEndsGame'
    BY <1>2, <2>3 DEF SunkFleetEndsGame
  <2>7. mine' = field'
    <3>1. field.ship \ {c} = field.ship
      BY <1>7
    <3>2. MarkMiss(field, c) = MarkShot(field, c)
      BY <1>1, <3>1 DEF MarkMiss, MarkShot, Fields
    <3> QED
      BY <1>2, <2>1, <3>2 DEF CopyAnswer
  <2>8. view'.shot = field'.shot /\ view'.ship = view.ship
    BY <1>1, <1>2, <1>7, <2>1, <2>2 DEF CopyAnswer, MarkMiss, Fields
  <2>9. CopiesAgree'
    BY <1>1, <1>4, <1>7, <2>2, <2>7, <2>8 DEF CopiesAgree
  <2> QED
    BY <1>3, <1>6, <2>5, <2>6, <2>9
<1>8. CASE c \in field.ship
  <2>1. PICK A \in fleet : c \in A
    BY <1>3, <1>8
  <2>2. PICK s \in Laid : A = ShipCells(s)
    BY <2>1 DEF FleetLaid
  <2>3. LoneShip(field, s)
    BY <2>1, <2>2, ShipStandsAlone
  <2> DEFINE killed == A \subseteq field.shot \cup {c}
  <2>4. /\ CheckKill(MarkShot(field, c), c) <=> killed
        /\ field'.shot = field.shot \cup {c} \cup
                         (IF killed THEN Surroundings(A) \cap Cells ELSE {})
    BY <1>1, <1>2, <2>1, <2>2, <2>3, ShotAtLoneShip
  <2>5. A \subseteq field.ship
    BY <1>3
  <2>6. killed <=> A \subseteq fired'
    BY <1>2, <1>5, <2>5, ShotShipsWereFiredAt
  <2>7. ~(A \subseteq fired)
    BY <1>5, <2>1
  <2>8. \A B \in fleet : B # A => c \notin B
    BY <2>1, OneShipPerCell
  <2>9. {B \in fleet' : B \subseteq fired'} =
            {B \in fleet : B \subseteq fired} \cup (IF killed THEN {A} ELSE {})
    <3> HIDE DEF killed
    <3>1. ASSUME NEW B \in fleet
          PROVE  B \subseteq fired' <=> B \subseteq fired \/ (B = A /\ killed)
      <4>1. CASE B = A
        BY <2>6, <2>7, <4>1
      <4>2. CASE B # A
        BY <1>2, <2>8, <4>2
      <4> QED
        BY <4>1, <4>2
    <3> QED
      BY <1>2, <2>1, <3>1
  <2>10. ShotsAreFiredOrAroundSunk'
    <3> DEFINE sunk == {B \in fleet : B \subseteq fired}
    <3>1. field.shot = fired \cup (Surroundings(UNION sunk) \cap Cells)
      BY DEF ShotsAreFiredOrAroundSunk
    <3>2. UNION (sunk \cup {A}) = (UNION sunk) \cup A
      OBVIOUS
    <3>3. Surroundings((UNION sunk) \cup A) = Surroundings(UNION sunk) \cup Surroundings(A)
      BY DEF Surroundings
    <3> HIDE DEF killed
    <3>4. CASE killed
      <4>1. UNION {B \in fleet' : B \subseteq fired'} = (UNION sunk) \cup A
        BY <2>9, <3>2, <3>4
      <4>2. field'.shot = field.shot \cup {c} \cup (Surroundings(A) \cap Cells)
        BY <2>4, <3>4
      <4>3. field'.shot = fired' \cup (Surroundings((UNION sunk) \cup A) \cap Cells)
        BY <1>2, <3>1, <3>3, <4>2
      <4> QED
        BY <4>1, <4>3 DEF ShotsAreFiredOrAroundSunk
    <3>5. CASE ~killed
      <4>1. {B \in fleet' : B \subseteq fired'} = sunk
        BY <2>9, <3>5
      <4>2. field'.shot = field.shot \cup {c}
        BY <2>4, <3>5
      <4>3. field'.shot = fired' \cup (Surroundings(UNION sunk) \cap Cells)
        BY <1>2, <3>1, <4>2
      <4> QED
        BY <4>1, <4>3 DEF ShotsAreFiredOrAroundSunk
    <3> QED
      BY <3>4, <3>5
  <2>11. SunkFleetEndsGame'
    <3> SUFFICES ASSUME \A B \in fleet : B \subseteq fired', ShotAnswer(field, c) # "g"
                 PROVE  FALSE
      BY <1>2 DEF SunkFleetEndsGame
    <3>1. fired' \subseteq field'.shot
      BY <1>2, <1>5, <2>4
    <3>2. field'.ship \subseteq field'.shot
      BY <1>3, <1>4, <3>1
    <3> QED
      BY <1>2, <1>8, <3>2 DEF ShotAnswer, GameFinished
  <2>12. ShotAnswer(field, c) = "g" => killed
    <3> SUFFICES ASSUME ShotAnswer(field, c) = "g", ~killed PROVE FALSE
      OBVIOUS
    <3>1. field'.ship \subseteq field'.shot
      BY <1>1, <1>2, ShotSinks DEF GameFinished
    <3>2. field'.shot = field.shot \cup {c}
      BY <2>4
    <3> QED
      BY <1>4, <2>5, <3>1, <3>2
  <2>13. /\ killed  => ShotAnswer(field, c) \in {"k", "g"}
         /\ ~killed => ShotAnswer(field, c) = "h"
    <3> HIDE DEF killed
    <3> QED
      BY <1>8, <2>4, <2>12 DEF ShotAnswer
  <2>14. mine' = field'
    <3>1. MarkHit(field, c) = MarkShot(field, c)
      BY <1>1, <1>8 DEF MarkHit, MarkShot, Fields
    <3> HIDE DEF killed
    <3> QED
      BY <1>2, <1>8, <2>4, <2>13, <3>1 DEF CopyAnswer, ShotField
  <2>15. view'.shot = field'.shot /\ view'.ship = field'.ship \cap field'.shot
    <3> DEFINE hit == MarkHit(view, c)
    <3>1. hit.ship = view.ship \cup {c} /\ hit.shot = view.shot \cup {c}
      BY <1>1 DEF MarkHit, Fields
    <3>2. CASE ~killed
      <4>1. view' = hit
        BY <1>2, <2>13, <3>2 DEF CopyAnswer
      <4> QED
        BY <1>1, <1>4, <1>8, <2>4, <3>1, <3>2, <4>1
    <3>3. CASE killed
      <4>1. A \subseteq hit.ship /\ hit.ship \subseteq field.ship
        BY <1>1, <1>8, <2>5, <3>1, <3>3
      <4>2. LoneShip(hit, s)
        <5> HIDE DEF hit
        <5> QED
          BY <2>2, <2>3, <4>1 DEF LoneShip
      <4>3. Walked(hit, c) = A
        <5> HIDE DEF hit
        <5> QED
          BY <2>1, <2>2, <4>2, WalkedIsTheShip
      <4>4. view' = Kill(hit, c)
        BY <1>2, <2>13, <3>3 DEF CopyAnswer
      <4>5. view'.ship = hit.ship /\ view'.shot = hit.shot \cup (Surroundings(A) \cap Cells)
        BY <1>1, <4>3, <4>4 DEF Kill, MarkHit, Fields
      <4>6. view'.shot = field'.shot
        BY <1>1, <2>4, <3>1, <3>3, <4>5
      <4>7. ASSUME NEW d \in field.ship, d \in Surroundings(A) PROVE d \in A
        <5>1. PICK e \in A : d \in Around(e)
          BY <4>7 DEF Surroundings
        <5>2. e \in Int \X Int
          BY <1>1, FieldAssumption DEF Cells
        <5>3. Touching(e, d)
          BY <5>1, <5>2, AroundTouches
        <5> QED
          BY <2>2, <2>3, <5>3 DEF LoneShip
      <4>8. field'.ship \cap field'.shot = field.ship \cap (field.shot \cup {c})
        BY <1>4, <2>4, <3>3, <4>7
      <4> QED
        BY <1>1, <1>8, <3>1, <4>5, <4>6, <4>8
    <3> QED
      BY <3>2, <3>3
  <2>16. CopiesAgree'
    BY <2>14, <2>15 DEF CopiesAgree
  <2> QED
    BY <1>3, <1>6, <2>10, <2>11, <2>16
<1> QED
  BY <1>7, <1>8

LEMMA NewGameIInv ==
    ASSUME IInv, NewGame
    PROVE  IInv'
<1>1. ShipInv'
  BY NextShipInv DEF IInv, Next
<1>2. /\ fleet' = {} /\ fired' = {} /\ phase' = "placing"
      /\ field'.shot = {} /\ field'.ship = {} /\ field'.placed = field.placed
      /\ view'.shot = {} /\ view'.ship = {} /\ mine' = field'
  BY DEF NewGame, Clear, IInv, ShipInv, TypeOK, Fields, CopiesAgree
<1>3. FleetCounted'
  <2>1. \A l \in Lengths : {A \in fleet' : Cardinality(A) = l} = {}
    BY <1>2
  <2>2. Cardinality({}) = 0
    BY FS_EmptySet
  <2>3. \A l \in Lengths : field.placed[l] \in Nat /\ field.placed[l] <= Quota[l]
    BY DEF IInv, FleetCounted, ShipInv, TypeOK, Fields
  <2> QED
    BY <1>2, <2>1, <2>2, <2>3 DEF FleetCounted
<1>4. ShotsAreFiredOrAroundSunk'
  BY <1>2 DEF ShotsAreFiredOrAroundSunk, Surroundings
<1> QED
  BY <1>1, <1>2, <1>3, <1>4
     DEF IInv, FleetLaid, NoneFired, CopiesAgree, SunkFleetEndsGame

LEMMA NextIInv == IInv /\ [Next]_vars => IInv'
<1> SUFFICES ASSUME IInv, [Next]_vars PROVE IInv'
  OBVIOUS
<1>1. ShipInv'
  BY NextShipInv DEF IInv
<1>2. CASE \E s \in Placements : PlaceShip(s)
  BY <1>2, PlaceShipIInv
<1>3. CASE Ready
  <2>1. /\ UNCHANGED <<field, mine, view, fleet, fired>> /\ phase = "placing"
        /\ phase' = "firing"
    BY <1>3 DEF Ready
  <2>2. SunkFleetEndsGame'
    <3> SUFFICES ASSUME NEW A \in fleet PROVE ~(A \subseteq fired)
      BY <2>1 DEF SunkFleetEndsGame
    <3>1. A # {}
      BY ShipSize DEF IInv, FleetLaid
    <3> QED
      BY <2>1, <3>1 DEF IInv, NoneFired
  <2> QED
    BY <1>1, <2>1, <2>2
       DEF IInv, FleetLaid, FleetCounted, NoneFired, ShotsAreFiredOrAroundSunk, CopiesAgree
<1>4. CASE \E c \in Cells : Shoot(c)
  BY <1>4, ShootIInv
<1>5. CASE LoseElsewhere
  BY <1>1, <1>5
     DEF LoseElsewhere, IInv, FleetLaid, FleetCounted, NoneFired,
         ShotsAreFiredOrAroundSunk, CopiesAgree, SunkFleetEndsGame
<1>6. CASE NewGame
  BY <1>6, NewGameIInv
<1>7. CASE UNCHANGED vars
  BY <1>1, <1>7
     DEF vars, IInv, FleetLaid, FleetCounted, NoneFired,
         ShotsAreFiredOrAroundSunk, CopiesAgree, SunkFleetEndsGame
<1> QED
  BY <1>2, <1>3, <1>4, <1>5, <1>6, <1>7 DEF Next

LEMMA AlwaysIInv == Spec => []IInv
  BY InitIInv, NextIInv, PTL DEF Spec

-----------------------------------------------------------------------------
(* Every copy of the field is a field at every step: nothing is ever placed or
   marked off the board. *)
THEOREM BoardTypeCorrect == Spec => []TypeOK
<1>1. ShipInv => TypeOK
  BY DEF ShipInv
<1> QED
  BY InitShipInv, NextShipInv, <1>1, PTL DEF Spec

(* The ships of a field never touch, on boards of every size and for
   ships of every length. *)
THEOREM BoardShipsApart == Spec => []ShipsApart
<1>1. ShipInv => ShipsApart
  BY DEF ShipInv
<1> QED
  BY InitShipInv, NextShipInv, <1>1, PTL DEF Spec

(* The ship cells are those of the ships accepted, and no more of a length than its quota,
   however many games the same counters have seen. *)
THEOREM BoardFleetOnField == Spec => []FleetOnField
<1>1. IInv => FleetOnField
  <2> SUFFICES ASSUME IInv, NEW l \in Lengths
               PROVE  Cardinality({A \in fleet : Cardinality(A) = l}) <= Quota[l]
    BY DEF FleetOnField, IInv, ShipInv, FleetIsShip
  <2> DEFINE of == {A \in fleet : Cardinality(A) = l}
  <2>1. IsFiniteSet(of)
    BY FleetIsFinite, FS_Subset DEF IInv
  <2>2. Cardinality(of) \in Nat
    BY <2>1, FS_CardinalityType
  <2>3. /\ Cardinality(of) <= field.placed[l] /\ field.placed[l] <= Quota[l]
        /\ field.placed[l] \in Nat /\ Quota[l] \in Nat
    BY FieldAssumption DEF IInv, FleetCounted, ShipInv, TypeOK, Fields
  <2> HIDE DEF of
  <2>4. Cardinality(of) <= Quota[l]
    BY <2>2, <2>3
  <2> QED
    BY <2>4 DEF of
<1> QED
  BY AlwaysIInv, <1>1, PTL

(* The attacker's copy and the owner's never part from the server's. *)
THEOREM BoardCopiesAgree == Spec => []CopiesAgree
<1>1. IInv => CopiesAgree
  BY DEF IInv
<1> QED
  BY AlwaysIInv, <1>1, PTL

(* A game whose last ship is sunk is over. *)
THEOREM BoardSunkFleetEndsGame == Spec => []SunkFleetEndsGame
<1>1. IInv => SunkFleetEndsGame
  BY DEF IInv
<1> QED
  BY AlwaysIInv, <1>1, PTL

(* check_kill is right about every ship, of whatever length and from whichever of its cells
   it starts. *)
THEOREM BoardKilledIsWholeShip == Spec => []KilledIsWholeShip
<1>1. IInv => KilledIsWholeShip
  <2> SUFFICES ASSUME IInv, NEW A \in fleet, NEW c \in A \cap field.shot
               PROVE  CheckKill(field, c) <=> A \subseteq field.shot
    BY DEF KilledIsWholeShip
  <2>1. PICK s \in Laid : A = ShipCells(s)
    BY DEF IInv, FleetLaid
  <2>2. LoneShip(field, s) /\ field \in Fields
    BY <2>1, ShipStandsAlone DEF IInv, ShipInv, TypeOK
  <2> QED
    BY <2>1, <2>2, ShotAtLoneShip
<1> QED
  BY AlwaysIInv, <1>1, PTL

(* kill marks the surroundings of sunk ships only, and gives no ship cell away. *)
THEOREM BoardShotsAreFiredOrAroundSunk == Spec => []ShotsAreFiredOrAroundSunk
<1>1. IInv => ShotsAreFiredOrAroundSunk
  BY DEF IInv
<1> QED
  BY AlwaysIInv, <1>1, PTL
=============================================================================
