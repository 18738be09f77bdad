------------------------------ MODULE PvLines ------------------------------
(***************************************************************************)
(* What a go puts on the wire: PV lines while a worker searches, and at    *)
(* the end the chosen worker's line with a ponder move, the final lines    *)
(* and the reply.  A bare best move is given a ponder move, and in         *)
(* ConsiderationMode a line is walked on, from the shared table, where     *)
(* other positions' entries may be found and every probe may give another  *)
(* answer.                                                                 *)
(***************************************************************************)
EXTENDS ScanRules, RepetitionRule

CONSTANTS
    Reports,    \* what a worker may hold when lines are shown, with the options in force
    Stored,     \* the move fragments a table entry may hold
    LineBound   \* bound on a walked line, MAX_PLY in the code

VARIABLES
    report, \* [root, best, lines, pvIdx, candidate, isMain, sent, depth, all, consider,
            \*  resignAt]; pvIdx is past the lines once the search is over
    final,  \* [best, lines, sent], <<>> before the ponder move is looked for
    walk,   \* the line being shown: its index, the position reached, the moves up to it
    shown,  \* the lines shown before the reply
    reply   \* [resign, moves], <<>> before

pvVars == <<report, final, walk, shown, reply>>

Unset == -32001
DrawScore == 0
ToCp(v) == IF v < 0 THEN -((100 * (-v)) \div 90) ELSE (100 * v) \div 90

----------------------------------------------------------------------------
(* A probe misses, or hits an entry with or without a move.                *)

Probes ==
    [hit : {FALSE}, move : {<<>>}] \cup [hit : {TRUE}, move : {<<>>} \cup {<<f>> : f \in Stored}]

(* pseudo_legal and is_legal are the rules themselves, as Game shows; moves  *)
(* that should promote are refused unless all moves are generated.          *)
LegalMove(p, m) ==
    /\ IF m.drop THEN p.hands[p.stm][m.piece.kind] > 0 /\ m \in DropsOf(p, m.piece.kind)
       ELSE m.from \in PiecesScan(p.board, p.stm) /\ m \in BoardMovesOf(p, m.from)
    /\ IsLegalReference(p, m) /\ ~IsUchifuzumeAfterDrop(p, m)

Playable(p, probe) ==
    {m \in IF probe.move = <<>> THEN {} ELSE ToSet(ToMove(p, probe.move[1])) :
        /\ LegalMove(p, m)
        /\ m.drop \/ m.promote \/ PlainMoveOk(p, m.piece, m, report.all)}

(* do_move: the position, and the chain its repetitions are found in.       *)
Start == [pos |-> report.root, chain |-> <<>>,
          root |-> RootState(report.root.board.squares, report.root.hands, report.root.stm)]
Played(at, m) ==
    LET p == After(at.pos, m)
        last == IF at.chain = <<>> THEN at.root ELSE at.chain[Len(at.chain)]
    IN  [at EXCEPT !.pos = p,
                   !.chain = Append(@, StateAfterMove(last, p.board.squares, p.hands, at.pos.stm,
                                                      InCheckScan(p.board, p.stm)))]

(* extract_ponder: the table's move, or on a miss the previous iteration's   *)
(* second move, which may have followed another first move.                 *)
\* Mutant of PonderMoves: the candidate is taken without asking the generator.
PonderMovesUnasked(child, probe) ==
    IF probe.hit THEN Playable(child, probe) ELSE ToSet(report.candidate)

PonderMoves(child, probe) ==
    IF probe.hit THEN Playable(child, probe)
    ELSE {m \in ToSet(report.candidate) : LegalMove(child, m)}

(* Line 1 becomes what is replied; an extended or another worker's line has  *)
(* not been shown.                                                          *)
Midway == report.pvIdx <= Len(report.lines)
Chosen(best) ==
    /\ final' = [best |-> best, lines |-> [report.lines EXCEPT ![1] = best],
                 sent |-> report.sent /\ report.isMain /\ best = report.best]
    /\ UNCHANGED <<report, walk, shown, reply>>

ExtractPonder ==
    LET best == report.best IN
    /\ final = <<>>
    /\ IF Len(best.pv) # 1 THEN Chosen(best)
       ELSE \E probe \in Probes :
              LET found == PonderMoves(After(report.root, best.pv[1]), probe)
              IN  \/ found = {} /\ Chosen(best)
                  \/ \E m \in found : Chosen([best EXCEPT !.pv = Append(@, m)])

(* The score judged is the one printed, 0 when none was. *)
ResignByValue ==
    LET best == final.best IN
    /\ best.score # Unset
    /\ ToCp(IF best.uci = Unset THEN 0 ELSE best.uci) <= -report.resignAt

----------------------------------------------------------------------------
(* build_pv_infos: only the line being searched may carry a bound.          *)

Showing ==
    /\ final # <<>> /\ reply = <<>>
    /\ ~final.sent \/ ResignByValue
    /\ walk.index <= Len(final.lines)
CurrentLine == final.lines[walk.index]
Updated == CurrentLine.score # Unset

Unsearched == report.depth = 1 /\ ~Updated /\ walk.index > 1

Info(moves) ==
    LET v == IF Updated THEN CurrentLine.uci ELSE CurrentLine.previous
    IN  [multipv |-> walk.index, pv |-> moves,
         depth |-> IF Updated \/ report.depth = 1 THEN report.depth ELSE report.depth - 1,
         score |-> IF v = Unset THEN DrawScore ELSE v,
         bound |-> IF walk.index = report.pvIdx /\ Updated THEN CurrentLine.bound ELSE "exact"]

NextLine(infos) ==
    /\ shown' = shown \o infos
    /\ walk' = [index |-> walk.index + 1, at |-> Start, moves |-> <<>>]
    /\ UNCHANGED <<report, final, reply>>

ShowLine ==
    /\ Showing
    /\ \/ Unsearched /\ NextLine(<<>>)
       \/ ~Unsearched /\ ~report.consider /\ NextLine(<<Info(CurrentLine.pv)>>)

(* consideration_pv: the searched line first, then the table's moves, up to  *)
(* a repetition.                                                            *)
Repeats == walk.moves # <<>> /\ QuickRepetition(walk.at.chain, walk.at.root) # "None"

\* Mutant of Goes: a repeated position is walked through.
GoesRound == Len(walk.moves) < LineBound

Goes == Len(walk.moves) < LineBound /\ ~Repeats

Onward(probe) ==
    IF Len(walk.moves) < Len(CurrentLine.pv) THEN {CurrentLine.pv[Len(walk.moves) + 1]}
    ELSE Playable(walk.at.pos, probe)

Walking == Showing /\ report.consider /\ ~Unsearched

WalkOn ==
    /\ Walking /\ Goes
    /\ \E probe \in Probes : \E m \in Onward(probe) :
          walk' = [walk EXCEPT !.at = Played(@, m), !.moves = Append(@, m)]
    /\ UNCHANGED <<report, final, shown, reply>>

WalkEnds ==
    /\ Walking
    /\ ~Goes \/ \E probe \in Probes : Onward(probe) = {}
    /\ NextLine(<<Info(walk.moves)>>)

SendReply ==
    /\ ~Midway /\ final # <<>> /\ reply = <<>> /\ ~Showing
    /\ reply' = IF ResignByValue THEN [resign |-> TRUE, moves |-> <<>>]
                ELSE [resign |-> FALSE,
                      moves |-> SubSeq(final.best.pv, 1, IF Len(final.best.pv) > 1 THEN 2 ELSE 1)]
    /\ UNCHANGED <<report, final, walk, shown>>

PvInit ==
    /\ report \in Reports
    /\ final = IF Midway THEN [best |-> report.best, lines |-> report.lines, sent |-> FALSE]
               ELSE <<>>
    /\ shown = <<>> /\ reply = <<>>
    /\ walk = [index |-> 1, at |-> Start, moves |-> <<>>]

PvNext == ExtractPonder \/ ShowLine \/ WalkOn \/ WalkEnds \/ SendReply

PvSpec == PvInit /\ [][PvNext]_pvVars

----------------------------------------------------------------------------
(* Properties.                                                             *)

(* The boards of a line, and whether its moves are legal one after another, *)
(* by the rules walked square by square.                                    *)
Grown(ps, m) == Append(ps, After(ps[Len(ps)], m))
Boards(start, moves) == FoldLeft(Grown, <<start>>, moves)
LegalLine(start, moves) ==
    LET ps == Boards(start, moves) IN \A i \in DOMAIN moves : LegalMove(ps[i], moves[i])

(* A walked line meets no position twice before its last, as far as the     *)
(* repetition query looks back.                                             *)
Diagram(p) == <<p.board.squares, p.hands, p.stm>>
NeverRound(start, moves) ==
    LET ps == Boards(start, moves) IN
    \A i, j \in DOMAIN moves :
        i < j /\ j - i <= MaxRepetitionPly => Diagram(ps[i]) # Diagram(ps[j])

PrefixOf(a, b) == Len(a) <= Len(b) /\ SubSeq(b, 1, Len(a)) = a

(* A worker holds lines of legal moves from the position it was given.      *)
IsPosition(p) ==
    /\ {"board", "hands", "stm"} \subseteq DOMAIN p /\ "squares" \in DOMAIN p.board
    /\ DOMAIN p.board.squares = Squares /\ p.stm \in Colors
    /\ \A sq \in Squares : "color" \in DOMAIN Get(p.board, sq)
IsList(s) == s \in Seq(ToSet(s))
IsSearched(start, l) ==
    /\ DOMAIN l = {"pv", "score", "uci", "previous", "bound"}
    /\ IsList(l.pv) /\ l.pv # <<>> /\ LegalLine(start, l.pv)

ASSUME ReportsAssumption ==
    \A r \in Reports :
        /\ IsPosition(r.root) /\ IsSearched(r.root, r.best) /\ r.pvIdx \in Int
        /\ IsList(r.lines) /\ r.lines # <<>>
        /\ \A l \in ToSet(r.lines) : IsSearched(r.root, l)

(* Whatever the shared table answers, every line shown and the reply are     *)
(* legal play.  The first line the GUI was last shown begins with the best  *)
(* move and the ponder move it is given, unless a repetition cut it; with   *)
(* no line shown now, the reply is the one the main worker showed.  A       *)
(* resignation has shown the score it was decided on.                       *)
EndRight ==
    /\ reply # <<>> \/ Midway => \A i \in DOMAIN shown :
          /\ LegalLine(report.root, shown[i].pv)
          /\ report.consider => NeverRound(report.root, shown[i].pv)
          /\ shown[i].score # Unset
    /\ reply # <<>> =>
          /\ LegalLine(report.root, reply.moves)
          /\ IF reply.resign THEN shown # <<>> /\ ToCp(shown[1].score) <= -report.resignAt
             ELSE IF shown = <<>> THEN report.isMain /\ PrefixOf(reply.moves, report.best.pv)
             ELSE PrefixOf(reply.moves, shown[1].pv) \/ PrefixOf(shown[1].pv, reply.moves)

=============================================================================
