------------------------------- MODULE MCGame -------------------------------
(* A board of three files and five ranks, with a promotion zone of two.      *)
EXTENDS Game

At(f, r) == SquareAt(f, r)
B(k) == Piece(k, Black)
W(k) == Piece(k, White)
Hand(k) == [EmptyHand EXCEPT ![k] = 1]
Both(b, w) == [c \in Colors |-> IF c = Black THEN b ELSE w]

(* An open position with a rook behind a pawn. *)
Middle == SetUp(
    (At(1,4) :> B("King")) @@ (At(2,4) :> B("Rook")) @@ (At(2,3) :> B("Pawn")) @@
    (At(0,2) :> B("Silver")) @@ (At(1,0) :> W("King")) @@ (At(0,0) :> W("Lance")) @@
    (At(2,0) :> W("Bishop")),
    Both(Hand("Knight"), Hand("Pawn")), Black)
(* Pins and discovered checks on both kings. *)
Pinned == SetUp(
    (At(0,4) :> B("King")) @@ (At(0,3) :> B("Gold")) @@ (At(0,1) :> W("Rook")) @@
    (At(2,0) :> W("King")) @@ (At(2,2) :> B("Silver")) @@ (At(2,4) :> B("Lance")),
    Both(Hand("Pawn"), EmptyHand), Black)
(* A pawn drop that would mate. *)
Uchifuzume == SetUp(
    (At(2,4) :> B("King")) @@ (At(1,2) :> B("Gold")) @@ (At(0,0) :> W("King")) @@
    (At(1,0) :> W("Knight")) @@ (At(2,2) :> Promoted(W("Pawn"))),
    Both(Hand("Pawn"), Hand("Gold")), Black)
(* Black answers a double check. *)
Doubled == SetUp(
    (At(1,4) :> B("King")) @@ (At(1,1) :> Promoted(W("Rook"))) @@ (At(0,2) :> W("Knight")) @@
    (At(2,0) :> W("King")) @@ (At(0,1) :> B("Knight")),
    Both(Hand("Lance"), EmptyHand), Black)

(* Mates by a silver that promotes behind the king, by big pieces, by small   *)
(* ones and by drops.                                                        *)
SilverMate == SetUp(
    (At(1,4) :> B("King")) @@ (At(0,4) :> B("Lance")) @@ (At(2,4) :> B("Rook")) @@
    (At(1,1) :> B("Silver")) @@ (At(1,2) :> W("King")),
    Both(EmptyHand, EmptyHand), Black)
BigMates == SetUp(
    (At(0,4) :> B("King")) @@ (At(1,2) :> Promoted(B("Bishop"))) @@ (At(2,3) :> Promoted(B("Rook"))) @@
    (At(1,0) :> W("King")) @@ (At(0,1) :> W("Gold")),
    Both(EmptyHand, EmptyHand), Black)
SmallMates == SetUp(
    (At(0,4) :> B("King")) @@ (At(1,2) :> B("Gold")) @@ (At(0,2) :> B("Pawn")) @@
    (At(2,3) :> B("Lance")) @@ (At(0,3) :> B("Knight")) @@ (At(1,0) :> W("King")),
    Both(EmptyHand, EmptyHand), Black)
DroppedMate == SetUp(
    (At(2,4) :> B("King")) @@ (At(1,2) :> B("Pawn")) @@ (At(0,3) :> B("Lance")) @@
    (At(2,3) :> B("Lance")) @@ (At(1,0) :> W("King")) @@ (At(0,0) :> W("Lance")) @@
    (At(2,0) :> W("Knight")),
    Both([EmptyHand EXCEPT !["Silver"] = 1, !["Knight"] = 1, !["Bishop"] = 1, !["Lance"] = 1],
         EmptyHand), Black)
KnightMate == SetUp(
    (At(0,4) :> B("King")) @@ (At(1,4) :> B("Knight")) @@ (At(1,2) :> B("Pawn")) @@
    (At(1,0) :> W("King")) @@ (At(0,0) :> W("Lance")) @@ (At(2,0) :> W("Silver")) @@
    (At(0,1) :> W("Knight")) @@ (At(2,1) :> W("Knight")),
    Both(EmptyHand, EmptyHand), Black)
PawnMate == SetUp(
    (At(2,4) :> B("King")) @@ (At(0,4) :> B("Knight")) @@ (At(1,3) :> B("Pawn")) @@
    (At(0,3) :> B("Lance")) @@ (At(2,3) :> B("Lance")) @@ (At(1,1) :> W("King")) @@
    (At(1,0) :> W("Lance")),
    Both(EmptyHand, EmptyHand), Black)

MCStarts == {Middle, Pinned, Uchifuzume, Doubled,
             SilverMate, BigMates, SmallMates, DroppedMate, KnightMate, PawnMate}

=============================================================================
