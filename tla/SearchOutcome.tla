---------------------------- MODULE SearchOutcome ----------------------------
(***************************************************************************)
(* What a go ends in and what it hands to the next one: the declaration,   *)
(* resignation or book reply that needs no search, the vote among the     *)
(* workers' results, and the score carried over, whose sign follows the    *)
(* parity of the plies. Scores keep the code's values.                     *)
(***************************************************************************)
EXTENDS Declaration

CONSTANTS
    Games,          \* positions with their ply, as the position command gives them
    GamePlies,      \* how far a game is played
    Rules,          \* the entering-king rules chosen
    Votes,          \* what a worker may report: [score, pv0, pvLen, depth]
    WorkerCount,
    GoBound         \* gos in a behaviour

(* A game starts with a side to move at some ply. *)
ASSUME GamesAssumption ==
    \A p \in Games : {"ply", "stm"} \subseteq DOMAIN p /\ p.ply \in Nat /\ p.stm \in Colors

(* Any reports, but that a worker whose lowest score stands has finished no   *)
(* iteration.                                                               *)
ASSUME VotesAssumption ==
    /\ WorkerCount \in Nat \ {0}
    /\ \A v \in Votes :
          /\ v.score \in Int /\ v.score >= -32001 /\ v.pvLen \in Nat /\ v.depth \in Nat
          /\ v.score = -32001 => v.depth = 0

VARIABLES
    game,       \* the last positions of the game, one or two
    carry,      \* [score, ply] of the last go, and the color it was for
    go,         \* the go at work or done and not joined, <<>> when there is none
    gos

outcomeVars == <<game, carry, go, gos>>

Infinite == 32001
MateInMaxPly == 32000 - 246
IsWin(v) == v >= MateInMaxPly
IsLoss(v) == v <= -MateInMaxPly

----------------------------------------------------------------------------
(* select_best_worker.                                                     *)

VotingValue(reports, i) ==
    (reports[i].score - Min({r.score : r \in Range(reports)}) + 14) * reports[i].depth
AddVote(reports, votes, i) == [votes EXCEPT ![reports[i].pv0] = @ + VotingValue(reports, i)]
Tally(reports) ==
    FoldLeft(LAMBDA votes, i : AddVote(reports, votes, i),
             [mv \in {r.pv0 : r \in Range(reports)} |-> 0], [i \in DOMAIN reports |-> i])
VotesFor(reports, mv) == Tally(reports)[mv]
Weight(reports, i) == IF reports[i].pvLen > 2 THEN VotingValue(reports, i) ELSE 0

(* The mutant of ProvenLoss: a worker that finished nothing has lost. *)
ScoredLoss(v) == IsLoss(v)

ProvenLoss(v) == v # -Infinite /\ IsLoss(v)

OutVoted(reports, best, i) ==
    LET votes == VotesFor(reports, reports[best].pv0)
        new == VotesFor(reports, reports[i].pv0)
    IN  \/ IsWin(reports[i].score) \/ ProvenLoss(reports[i].score)
        \/ /\ ~IsLoss(reports[i].score)
           /\ \/ new > votes
              \/ new = votes /\ Weight(reports, i) > Weight(reports, best)

BetterOf(reports, best, i) ==
    LET better == IF IsWin(reports[best].score) THEN reports[i].score > reports[best].score
                  ELSE IF ProvenLoss(reports[best].score)
                  THEN ProvenLoss(reports[i].score) /\ reports[i].score < reports[best].score
                  ELSE OutVoted(reports, best, i)
    IN  IF better THEN i ELSE best
SelectBestWorker(reports) ==
    FoldLeft(LAMBDA best, i : BetterOf(reports, best, i), 1, [i \in DOMAIN reports |-> i])

----------------------------------------------------------------------------
(* The score carried from one go to the next.                              *)

Done == go # <<>> => go.ended
NewGameCarry == [score |-> Infinite, ply |-> 0, pov |-> Black]

(* A go without a search carries the score of a move never searched. *)
Carried ==
    IF go = <<>> THEN carry
    ELSE [score |-> IF go.chosen = 0 THEN -Infinite ELSE go.reports[go.chosen].score,
          ply |-> go.root.ply, pov |-> go.root.stm]

SeedScore(c, root) ==
    LET flip == (c.ply - root.ply) % 2 = 1
    IN  [score |-> IF c.score # Infinite /\ flip THEN -c.score ELSE c.score,
         pov |-> IF flip THEN Flip(c.pov) ELSE c.pov]

Current == game[Len(game)]
OutcomeInit ==
    /\ \E p \in Games : game = <<p>>
    /\ carry = NewGameCarry /\ go = <<>> /\ gos = 0

(* position: the game goes on, whether or not a search runs. *)
PlayMove ==
    /\ Current.ply < GamePlies
    /\ \E m \in LegalMoves(Current) :
          game' = <<Current, [After(Current, m) EXCEPT !.ply = @ + 1]>>
    /\ UNCHANGED <<carry, go, gos>>

(* go: a stochastic ponder searches the position before the last move. *)
StartGo ==
    /\ Done /\ gos < GoBound
    /\ carry' = Carried
    /\ \E root \in Range(game), rule \in Rules :
          LET ekr == EnteringKingConfig(rule, root)
          IN  go' = [root |-> root, ekr |-> ekr, seed |-> SeedScore(carry', root),
                         reports |-> <<>>, chosen |-> 0, node |-> root,
                         ended |-> LegalMoves(root) = {} \/ Declares(root, ekr)]
    /\ gos' = gos + 1
    /\ UNCHANGED game

BookReply ==
    /\ ~Done /\ go.node = go.root
    /\ go' = [go EXCEPT !.ended = TRUE]
    /\ UNCHANGED <<game, carry, gos>>

(* Past its first moves the last go of a behaviour shows nothing new. *)
Searching == go # <<>> /\ ~go.ended /\ gos < GoBound

(* A worker at a node looks for a declaration with the root's thresholds. *)
Visit ==
    /\ Searching /\ go.node = go.root
    /\ \E m \in LegalMoves(go.node) : go' = [go EXCEPT !.node = After(@, m)]
    /\ UNCHANGED <<game, carry, gos>>

(* The results are collected, the main worker's first, and voted on. *)
Conclude ==
    /\ Searching /\ go.node = go.root
    /\ \E reports \in [1..WorkerCount -> Votes] :
          go' = [go EXCEPT !.reports = reports, !.chosen = SelectBestWorker(reports),
                                   !.ended = TRUE]
    /\ UNCHANGED <<game, carry, gos>>

NewGame ==
    /\ Done
    /\ carry' = NewGameCarry /\ go' = <<>>
    /\ \E p \in Games : game' = <<p>>
    /\ UNCHANGED gos

OutcomeNext == PlayMove \/ StartGo \/ BookReply \/ Visit \/ Conclude \/ NewGame

OutcomeSpec == OutcomeInit /\ [][OutcomeNext]_outcomeVars

----------------------------------------------------------------------------
(* Properties.                                                             *)

Scores(reports) == {r.score : r \in Range(reports)}
Lexical(a, b) == a[1] < b[1] \/ (a[1] = b[1] /\ a[2] <= b[2])

(* Workers that prove the same thing agree: of several mates the shortest is *)
(* played, of several losses the lowest, and of scores that decide nothing   *)
(* the move the workers gave most votes, with the weightiest report of those *)
(* level. A worker that finished nothing adds nothing to the votes: when it  *)
(* is chosen although another one finished, then for the move of such a one. *)
VoteRight(reports, chosen) ==
    LET best == reports[chosen]
        open == {i \in DOMAIN reports : ~IsWin(reports[i].score) /\ ~IsLoss(reports[i].score)}
        finished == {i \in open : reports[i].depth > 0}
        rank(i) == <<VotesFor(reports, reports[i].pv0), Weight(reports, i)>>
    IN  /\ (\E v \in Scores(reports) : IsWin(v)) /\ (\A v \in Scores(reports) : ~ProvenLoss(v))
               => best.score = Max(Scores(reports))
        /\ (\E v \in Scores(reports) : ProvenLoss(v)) /\ (\A v \in Scores(reports) : ~IsWin(v))
               => best.score = Min({v \in Scores(reports) : ProvenLoss(v)})
        /\ (\A v \in Scores(reports) : v = -Infinite \/ (~IsWin(v) /\ ~IsLoss(v)))
               => /\ \A i \in open : Lexical(rank(i), rank(chosen))
                  /\ best.score = -Infinite /\ finished # {}
                        => \E i \in finished : reports[i].pv0 = best.pv0

(* The workers' vote is right, and a score handed to the next go is seen from *)
(* the side that go thinks for.                                             *)
VoteAndCarryRight ==
    go # <<>> =>
        /\ go.chosen # 0 => VoteRight(go.reports, go.chosen)
        /\ go.seed.score \notin {-Infinite, Infinite} => go.seed.pov = go.root.stm

(* So they are, and the declaration rules hold at every node.               *)
OutcomeRight == VoteAndCarryRight /\ (go # <<>> => DeclarationSound(go.ekr, go.node))

=============================================================================
