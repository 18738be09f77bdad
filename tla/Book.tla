-------------------------------- MODULE Book --------------------------------
(***************************************************************************)
(* The opening book: the name list and the reload at isready, the reader   *)
(* of attic-storage, and the probe of attic-search from a position to a    *)
(* move, a ponder move and the lines reported for it.                      *)
(*                                                                         *)
(* A file is its header, the index records it holds and the move records   *)
(* after them; offsets count move records. An open file keeps its content. *)
(***************************************************************************)
EXTENDS ScanRules

CONSTANTS
    Disks,          \* what the disk may hold: functions from names to files
    BookOptions,    \* settings read at isready: [base, onTheFly, ignorePly]
    BookConfigs,    \* settings read at go
    BookRoots,      \* positions of go, each with its ply
    SeriesBound     \* no disk numbers a file this high

VARIABLES
    disk,       \* the files there are
    signature,  \* what the books were loaded for, <<>> before the first isready
    library,    \* the loaded books, [books, ignorePly]
    probed      \* the probe of the last go, as <<probe>>, or <<>>

bookVars == <<disk, signature, library, probed>>

----------------------------------------------------------------------------
(* Positions as the book sees them: board, hands, side to move and ply.    *)

Child(p, m) == [After(p, m) EXCEPT !.ply = @ + 1]

Code(piece) ==
    IF piece = NoPiece THEN 0
    ELSE (IF piece.kind = "King" THEN 8 ELSE CHOOSE i \in DOMAIN HandOrder : HandOrder[i] = piece.kind)
         + (IF piece.promoted THEN 8 ELSE 0) + (IF piece.color = White THEN 16 ELSE 0)

(* The packed key: all of the position except its ply, in a total order. *)
Packed(p) ==
    <<IF p.stm = White THEN 1 ELSE 0>>
    \o [i \in DOMAIN AllSquares |-> Code(Get(p.board, AllSquares[i]))]
    \o [i \in DOMAIN HandOrder |-> p.hands[Black][HandOrder[i]]]
    \o [i \in DOMAIN HandOrder |-> p.hands[White][HandOrder[i]]]
Less(a, b) == \E i \in DOMAIN a : a[i] < b[i] /\ \A j \in 1..(i - 1) : a[j] = b[j]

(* The position turned half round, colors and hands swapped. *)
Turned(sq) == Files * Ranks - 1 - sq
Flipped(p) ==
    [p EXCEPT !.board = BoardOf([sq \in {Turned(s) : s \in p.board.occupied} |->
                  [Get(p.board, Turned(sq)) EXCEPT !.color = Flip(@)]]),
              !.hands = [c \in Colors |-> p.hands[Flip(c)]],
              !.stm = Flip(@)]

(* A 16-bit move has no piece, except the kind it drops. *)
Move16(m) == [drop |-> IF m.drop THEN m.piece.kind ELSE "None", from |-> m.from, to |-> m.to,
              promote |-> m.promote]

FlipMove16(m16) ==
    [m16 EXCEPT !.to = Turned(@), !.from = IF m16.drop = "None" THEN Turned(@) ELSE @]

(* The legal move that a stored one stands for, if any. *)
Widen(legal, m16) == {m \in legal : Move16(m) = m16}

----------------------------------------------------------------------------
(* The reader.  An answer is <<>> for a miss and <<list>> for a hit.       *)

Missed == <<>>

Opens(file, onTheFly) ==
    file.head = "whole" /\ (~onTheFly => Len(file.index) = file.count)

DecodeMove(file, r) ==
    [move16 |-> r.move16, value |-> r.value, count |-> 0, depth |-> IF file.depths THEN r.depth ELSE 0]

(* The moves of an index record, none of them when the region is too short. *)
(* Reading nothing past the end of a file succeeds, slicing memory does not. *)
ReadMoves(book, e) ==
    LET end == e.offset + e.moveCount
        list == [i \in 1..e.moveCount |-> DecodeMove(book.file, book.file.moves[e.offset + i])]
    IN  IF end <= Len(book.file.moves) \/ (book.onTheFly /\ e.moveCount = 0) THEN <<list>> ELSE Missed

(* The binary search over the records the header declares. *)
ProbeFile(book, key, ply, ignorePly) ==
    LET n == book.file.count
        find[left \in 0..n, right \in 0..n] ==
            LET middle == left + (right - left) \div 2
                e == book.file.index[middle + 1]
            IN  IF left >= right \/ middle >= Len(book.file.index) THEN Missed
                ELSE IF Less(key, e.packed) THEN find[left, middle]
                ELSE IF Less(e.packed, key) THEN find[middle + 1, right]
                ELSE IF ~ignorePly /\ e.ply # ply THEN Missed
                ELSE ReadMoves(book, e)
    IN  find[0, n]

----------------------------------------------------------------------------
(* From books to a sorted list.                                            *)

(* By count, then by value; equal moves keep the order of the file. *)
Better(a, b) == a.count > b.count \/ (a.count = b.count /\ a.value > b.value)
Precedes(list, i, j) ==
    Better(list[i], list[j]) \/ (i < j /\ ~Better(list[j], list[i]))
SortBookMoves(list) ==
    [k \in DOMAIN list |->
        list[CHOOSE i \in DOMAIN list :
                Cardinality({j \in DOMAIN list : Precedes(list, j, i)}) = k - 1]]

(* The position itself, and only when that misses its flipped image. *)
FindInBook(book, ignorePly, p, flipped) ==
    LET views == <<[pos |-> p, turned |-> FALSE]>>
                 \o (IF flipped THEN <<[pos |-> Flipped(p), turned |-> TRUE]>> ELSE <<>>)
        back(r, turned) == IF turned THEN [r EXCEPT !.move16 = FlipMove16(@)] ELSE r
        answer(found, view) ==
            [k \in DOMAIN found |->
                SortBookMoves([i \in DOMAIN found[k] |-> back(found[k][i], view.turned)])]
    IN  FoldLeft(LAMBDA found, view :
                    IF found # Missed THEN found
                    ELSE answer(ProbeFile(book, Packed(view.pos), p.ply, ignorePly), view),
                 Missed, views)

(* The first book with moves answers alone. *)
FindInBooks(p, flipped) ==
    FoldLeft(LAMBDA found, book :
                IF found \in {Missed, <<Missed>>}
                THEN FindInBook(book, library.ignorePly, p, flipped) ELSE found,
             Missed, library.books)
Entries(answer) == IF answer = Missed THEN <<>> ELSE answer[1]

----------------------------------------------------------------------------
(* Selection.                                                              *)

DepthLimit(cfg, stm) == IF cfg.v2 THEN cfg.depthFor[stm] ELSE cfg.depth
EvalDiffFor(cfg, stm) == IF cfg.v2 THEN cfg.diffFor[stm] ELSE cfg.diff
Larger(a, b) == IF a > b THEN a ELSE b

(* The first move of the answer to p, if it is legal there. *)
FirstBookMove(p, flipped) ==
    UNION {Widen(LegalMoves(p), raw[1].move16) : raw \in {Entries(FindInBooks(p, flipped))} \ {<<>>}}

(* A line of first moves from the candidate on. *)
BuildPv(p, cfg, first) ==
    LET step(walk, k) ==
            IF walk.ended THEN walk
            ELSE LET next == FirstBookMove(walk.pos, cfg.flipped) IN
                 IF next = {} THEN [walk EXCEPT !.ended = TRUE]
                 ELSE LET m == CHOOSE x \in next : TRUE
                      IN  [walk EXCEPT !.pv = Append(@, m), !.pos = Child(@, m)]
    IN  FoldLeft(step, [pv |-> <<first>>, pos |-> Child(p, first), ended |-> FALSE],
                 [i \in 1..(Larger(cfg.pvMoves, 1) - 1) |-> i]).pv

(* Illegal entries are dropped with a notice. *)
Candidates(legal, raw) ==
    FlattenSeq([i \in DOMAIN raw |->
        LET wide == Widen(legal, raw[i].move16) IN
        IF wide = {} THEN <<>>
        ELSE <<[mv |-> CHOOSE m \in wide : TRUE, value |-> raw[i].value,
                depth |-> raw[i].depth, count |-> raw[i].count]>>])

SumCounts(cands) == FoldLeft(LAMBDA sum, c : sum + c.count, 0, cands)

Narrowed(cands, cfg) ==
    LET total == SumCounts(cands)
    IN  IF ~cfg.v2 /\ cfg.narrow /\ total # 0
        THEN SelectSeq(cands, LAMBDA c : 10 * c.count >= total) ELSE cands

\* Mutant of WithinLimits: moves too shallow are left out one by one.
WithinLimitsEach(cands, cfg, stm) ==
    SelectSeq(cands, LAMBDA c :
        /\ c.depth >= DepthLimit(cfg, stm)
        /\ c.value >= Larger(cands[1].value - EvalDiffFor(cfg, stm), cfg.limitFor[stm]))

(* A first move too shallow clears the entry; else the values decide. *)
WithinLimits(cands, cfg, stm) ==
    IF cands = <<>> \/ (DepthLimit(cfg, stm) # 0 /\ cands[1].depth < DepthLimit(cfg, stm)) THEN <<>>
    ELSE SelectSeq(cands, LAMBDA c :
            c.value >= Larger(cands[1].value - EvalDiffFor(cfg, stm), cfg.limitFor[stm]))

(* What the draws may pick. *)
Pickable(cands, cfg) ==
    IF ~cfg.v2 /\ cfg.consider /\ SumCounts(cands) # 0
    THEN {i \in DOMAIN cands : cands[i].count > 0} ELSE DOMAIN cands

----------------------------------------------------------------------------
(* Reloading.  A name is an index (Base for the plain one) and an ending.  *)

Base == -1
OtherExt(ext) == IF ext = "ybb" THEN "db" ELSE "ybb"
Numbered(base, i) ==
    LET primary == [index |-> i, ext |-> base.ext]
    IN  IF primary \in DOMAIN disk THEN primary ELSE [primary EXCEPT !.ext = OtherExt(@)]

(* The numbered files up to the first gap, then the plain one. *)
BookNames(base) ==
    LET n == IF base.ext \notin {"ybb", "db"} THEN 0
             ELSE CHOOSE k \in 0..SeriesBound :
                    /\ Numbered(base, k) \notin DOMAIN disk
                    /\ \A i \in 0..(k - 1) : Numbered(base, i) \in DOMAIN disk
    IN  [i \in 1..n |-> Numbered(base, i - 1)] \o <<base>>

Resolved(name) ==
    LET sibling == [name EXCEPT !.ext = "ybb"]
    IN  IF name \notin DOMAIN disk /\ name.ext = "db" /\ sibling \in DOMAIN disk THEN sibling ELSE name

OpenedBooks(names, onTheFly) ==
    FlattenSeq([i \in DOMAIN names |->
        LET name == Resolved(names[i]) IN
        IF name.ext = "ybb" /\ name \in DOMAIN disk /\ Opens(disk[name], onTheFly)
        THEN <<[file |-> disk[name], onTheFly |-> onTheFly]>> ELSE <<>>])

ReloadBook(opt) ==
    LET names == BookNames(opt.base)
        asked == <<names, opt.onTheFly, opt.ignorePly>>
    IN  /\ signature # asked
        /\ signature' = asked
        /\ library' = [books |-> OpenedBooks(names, opt.onTheFly), ignorePly |-> opt.ignorePly]
        /\ probed' = <<>>
        /\ UNCHANGED disk

----------------------------------------------------------------------------
(* Probing.                                                                *)

Miss == [hit |-> FALSE]
BuildInfoLines(p, cfg, cands) ==
    [i \in DOMAIN cands |-> [multipv |-> i, score |-> cands[i].value, depth |-> cands[i].depth,
                             pv |-> BuildPv(p, cfg, cands[i].mv)]]
Hit(p, cfg, cands, c) ==
    [hit |-> TRUE, best |-> c.mv, value |-> c.value,
     ponder |-> FirstBookMove(Child(p, c.mv), cfg.flipped), lines |-> BuildInfoLines(p, cfg, cands)]

Probed(p, cfg, result) ==
    /\ probed' = <<[pos |-> p, cfg |-> cfg, result |-> result]>>
    /\ UNCHANGED <<disk, signature, library>>

(* BookIgnoreRate drew the book away, or the game is past BookMoves. *)
ProbeSkipped(p, cfg) ==
    /\ library.books # <<>> /\ probed = <<>>
    /\ cfg.ignoreRate > 0 \/ p.ply > cfg.bookMoves
    /\ Probed(p, cfg, Miss)

ProbeBook(p, cfg) ==
    /\ library.books # <<>> /\ probed = <<>>
    /\ cfg.ignoreRate < 100 /\ p.ply <= cfg.bookMoves
    /\ LET cands == Candidates(LegalMoves(p), Entries(FindInBooks(p, cfg.flipped)))
           left == WithinLimits(Narrowed(cands, cfg), cfg, p.stm)
       IN  \/ left = <<>> /\ Probed(p, cfg, Miss)
           \/ \E i \in Pickable(left, cfg) : Probed(p, cfg, Hit(p, cfg, cands, left[i]))

(* Files come and go between two commands. *)
ChangeDisk ==
    /\ \E d \in Disks : disk # d /\ disk' = d
    /\ probed' = <<>>
    /\ UNCHANGED <<signature, library>>

BookInit ==
    /\ disk \in Disks
    /\ signature = <<>>
    /\ library = [books |-> <<>>, ignorePly |-> FALSE]
    /\ probed = <<>>

BookNext ==
    \/ ChangeDisk
    \/ \E opt \in BookOptions : ReloadBook(opt)
    \/ \E p \in BookRoots, cfg \in BookConfigs : ProbeSkipped(p, cfg) \/ ProbeBook(p, cfg)

BookSpec == BookInit /\ [][BookNext]_bookVars

----------------------------------------------------------------------------
(* Properties.                                                             *)

(* A book a writer would make: sorted, whole, its lists inside the file. *)
WellFormed(file) ==
    /\ Len(file.index) = file.count
    /\ \A i, j \in DOMAIN file.index : i < j => Less(file.index[i].packed, file.index[j].packed)
    /\ \A e \in Range(file.index) : e.offset + e.moveCount <= Len(file.moves)

(* What a book says of a position, read off without searching or sorting:    *)
(* its own record, or else the record of the flipped position.              *)
RecordsOf(file, p) ==
    {e \in Range(file.index) : e.packed = Packed(p) /\ (library.ignorePly \/ e.ply = p.ply)}
Listed(file, e) == {file.moves[e.offset + i] : i \in 1..e.moveCount}
Says(file, p, flipped) ==
    LET own == RecordsOf(file, p) IN
    IF own # {} THEN UNION {Listed(file, e) : e \in own}
    ELSE IF ~flipped THEN {}
    ELSE UNION {{[r EXCEPT !.move16 = FlipMove16(@)] : r \in Listed(file, e)} :
                    e \in RecordsOf(file, Flipped(p))}

TheBooksSay(p, flipped) ==
    LET speaking == {i \in DOMAIN library.books : Says(library.books[i].file, p, flipped) # {}}
    IN  IF speaking = {} THEN {}
        ELSE Says(library.books[CHOOSE i \in speaking : \A j \in speaking : i <= j].file, p, flipped)
LegalIn(legal, records) == {r \in records : Widen(legal, r.move16) # {}}

(* A hit is a legal move of the first book that knows the position, within   *)
(* the margins of that book's best legal move; a miss means there is none.   *)
Acceptable(p, cfg, r, among) ==
    /\ \A s \in among : r.value >= s.value - EvalDiffFor(cfg, p.stm)
    /\ r.value >= cfg.limitFor[p.stm]

AnswerRight(probe) ==
    LET p == probe.pos
        cfg == probe.cfg
        among == LegalIn(LegalMoves(p), TheBooksSay(p, cfg.flipped))
        deep == DepthLimit(cfg, p.stm) = 0
                \/ \E s \in among : /\ \A t \in among : s.value >= t.value
                                    /\ s.depth >= DepthLimit(cfg, p.stm)
        good == {r \in among : deep /\ Acceptable(p, cfg, r, among)}
    IN  IF probe.result.hit
        THEN /\ \E r \in good : r.move16 = Move16(probe.result.best) /\ r.value = probe.result.value
             /\ Len(probe.result.lines) = Cardinality(among)
        ELSE good = {} \/ cfg.ignoreRate > 0 \/ p.ply > cfg.bookMoves

(* Whatever the file holds, what is played, pondered and shown is legal.     *)
LineLegal(p, pv) ==
    FoldLeft(LAMBDA w, m : [ok |-> w.ok /\ m \in LegalMoves(w.pos), pos |-> Child(w.pos, m)],
             [ok |-> TRUE, pos |-> p], pv).ok
AnswerLegal(probe) ==
    probe.result.hit =>
        /\ probe.result.best \in LegalMoves(probe.pos)
        /\ probe.result.ponder \subseteq LegalMoves(Child(probe.pos, probe.result.best))
        /\ \A l \in Range(probe.result.lines) :
              Len(l.pv) \in 1..Larger(probe.cfg.pvMoves, 1) /\ LineLegal(probe.pos, l.pv)

(* The game looks the same from the other side, so a flipped move is as good *)
(* in the position as the stored one was in its image.                      *)
FlipIsSymmetry(p) ==
    {Move16(m) : m \in LegalMoves(Flipped(p))} = {FlipMove16(Move16(m)) : m \in LegalMoves(p)}

BookAnswers ==
    \A probe \in Range(probed) :
        /\ AnswerLegal(probe)
        /\ (\A b \in Range(library.books) : WellFormed(b.file)) => AnswerRight(probe)
        /\ FlipIsSymmetry(probe.pos)
=============================================================================
