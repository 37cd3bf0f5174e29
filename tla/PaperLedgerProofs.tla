------------------------- MODULE PaperLedgerProofs -------------------------
(***************************************************************************)
(* Proofs about PaperLedger, for any number of cycles, any calendar and    *)
(* any number of crashes.                                                  *)
(*                                                                         *)
(* Why the ledger implements the life of one position: the states of the   *)
(* row only move forward, so a row whose state is still the one a cycle    *)
(* read is, but for its mark, the row it read.  The compare-and-set on the *)
(* state alone therefore acts on the reason, entry and dates the cycle saw.*)
(***************************************************************************)
EXTENDS PaperLedger, TLAPS

Rank(s) == CASE s = "PAPER_PENDING" -> 0
             [] s = "PAPER_OPEN" -> 1
             [] s = "EXIT_SIGNALLED" -> 2
             [] OTHER -> 3

\* The fields a row has in each state.
RowInv ==
  paper # None =>
    /\ paper.state = "PAPER_PENDING" => paper.entry = None /\ paper.exit = None /\ paper.reason = None
    /\ paper.state = "PAPER_OPEN" => paper.entry # None /\ paper.exit = None /\ paper.reason = None
    /\ paper.state = "EXIT_SIGNALLED" => paper.exit = None /\ paper.reason # None

\* What a cycle read is not ahead of the row, and is the row while the states agree.
SeenInv ==
  \A c \in Cycle : run[c].seen # None =>
    /\ paper # None
    /\ Rank(run[c].seen.state) <= Rank(paper.state)
    /\ run[c].seen.created = paper.created
    /\ run[c].seen.state = paper.state => run[c].seen.reason = paper.reason

\* What a cycle that settles has decided.
SettleInv ==
  \A c \in Cycle : run[c].pc = "settle" =>
    /\ run[c].seen # None /\ run[c].seen.state \in {"PAPER_OPEN", "EXIT_SIGNALLED"}
    /\ run[c].reason \in Reason
    /\ run[c].seen.state = "EXIT_SIGNALLED" => run[c].reason = run[c].seen.reason

\* A cycle that looks at the records has a card.
CardInv == \A c \in Cycle : run[c].pc \in {"heads", "append"} => run[c].card # None

IInv == TablesOK /\ CardInv /\ RowInv /\ SeenInv /\ SettleInv /\ NoLookahead

-----------------------------------------------------------------------------
LEMMA Nones ==
  /\ None \notin Time /\ None \notin Price /\ None \notin Reason /\ None \notin Row
  /\ None \notin Verdict
BY NoneAssumption

LEMMA InitIInv == Init => IInv
<1> SUFFICES ASSUME Init PROVE IInv
  OBVIOUS
<1>1. 0 \in Time
  BY TimeAssumption DEF Time
<1>2. NoSpot \in Spot /\ Idle \in Locals
  BY <1>1 DEF NoSpot, Spot, Level, Idle, Locals, Steps, Kind
<1>3. TablesOK
  BY <1>1, <1>2 DEF Init, TablesOK, Idle
<1> QED BY <1>3 DEF Init, IInv, CardInv, RowInv, SeenInv, SettleInv, NoLookahead, Idle

(* A step of a cycle changes the locals of that cycle only. *)
LEMMA OthersKeep ==
  ASSUME NEW c \in Cycle, NEW r, run' = [run EXCEPT ![c] = r], TablesOK
  PROVE  /\ run'[c] = r
         /\ \A d \in Cycle : d # c => run'[d] = run[d]
BY DEF TablesOK

(* Steps that only move a cycle on, or end it. *)
LEMMA QuietStep ==
  ASSUME IInv, NEW c \in Cycle, NEW r \in Locals, run' = [run EXCEPT ![c] = r],
         UNCHANGED paper, r.pc \notin {"track", "settle"}, r.seen = run[c].seen \/ r.seen = None,
         r.pc \in {"heads", "append"} => r.card # None,
         recs' \in Seq(Rec), events' \in [Kind -> Nat], clock' \in Time, stored' \in Spot,
         crashes' \in Nat
  PROVE  IInv'
<1>1. run'[c] = r /\ \A d \in Cycle : d # c => run'[d] = run[d]
  BY OthersKeep DEF IInv
<1>2. TablesOK'
  BY <1>1 DEF IInv, TablesOK
<1>3. RowInv' /\ NoLookahead'
  BY DEF IInv, RowInv, NoLookahead
<1>4. SeenInv'
  BY <1>1 DEF IInv, SeenInv
<1>5. SettleInv' /\ CardInv'
  BY <1>1 DEF IInv, SettleInv, CardInv
<1> QED BY <1>2, <1>3, <1>4, <1>5 DEF IInv

LEMMA GotoType ==
  ASSUME NEW l \in Locals, NEW s \in Steps
  PROVE  [l EXCEPT !.pc = s] \in Locals /\ [l EXCEPT !.pc = s].pc = s
         /\ [l EXCEPT !.pc = s].seen = l.seen /\ [l EXCEPT !.pc = s].card = l.card
BY DEF Locals

LEMMA IdleType == Idle \in Locals /\ Idle.pc = "idle" /\ Idle.seen = None
<1>1. 0 \in Time
  BY TimeAssumption DEF Time
<1> QED BY <1>1 DEF NoSpot, Spot, Level, Idle, Locals, Steps, Kind

LEMMA GotoStep ==
  ASSUME IInv, NEW c \in Cycle, NEW s \in Steps \ {"track", "settle"}, Goto(c, s),
         s \in {"heads", "append"} => run[c].card # None,
         UNCHANGED paper, recs' \in Seq(Rec), events' \in [Kind -> Nat], UNCHANGED world
  PROVE  IInv'
<1>1. run' = [run EXCEPT ![c] = [run[c] EXCEPT !.pc = s]]
  BY DEF Goto
<1>2. run[c] \in Locals
  BY DEF IInv, TablesOK
<1> DEFINE r == [run[c] EXCEPT !.pc = s]
<1>3. r \in Locals /\ r.pc = s /\ r.seen = run[c].seen /\ r.card = run[c].card
  BY <1>2, GotoType
<1>4. clock' \in Time /\ stored' \in Spot /\ crashes' \in Nat
  BY DEF world, IInv, TablesOK
<1> QED BY <1>1, <1>3, <1>4, QuietStep

LEMMA DoneStep ==
  ASSUME IInv, NEW c \in Cycle, Done(c), UNCHANGED <<paper, recs, clock, stored>>,
         events' \in [Kind -> Nat], crashes' \in Nat
  PROVE  IInv'
BY IdleType, QuietStep DEF Done, IInv, TablesOK

(* A successful move: the row advances, one cycle goes on to write the event. *)
LEMMA MoveStep ==
  ASSUME IInv, NEW c \in Cycle, NEW row, NEW k \in Kind, Move(c, row, k),
         run[c].seen # None,
         Swapped(c) => /\ row \in Row /\ Rank(paper.state) < Rank(row.state)
                       /\ row.created = paper.created
                       /\ (RowInv /\ NoLookahead)'
  PROVE  IInv'
<1>1. CASE ~Swapped(c)
  BY <1>1, DoneStep DEF Move, world, IInv, TablesOK
<1>2. CASE Swapped(c)
  <2>1. /\ paper' = row /\ run' = [run EXCEPT ![c] = [run[c] EXCEPT !.pc = "event", !.kind = k]]
        /\ UNCHANGED <<world, recs, events>>
    BY <1>2 DEF Move
  <2>2. run[c] \in Locals
    BY DEF IInv, TablesOK
  <2> DEFINE r == [run[c] EXCEPT !.pc = "event", !.kind = k]
  <2>3. r \in Locals /\ r.pc = "event" /\ r.seen = run[c].seen
    BY <2>2 DEF Locals, Steps
  <2>4. run'[c] = r /\ \A d \in Cycle : d # c => run'[d] = run[d]
    BY <2>1, OthersKeep DEF IInv
  <2>5. TablesOK'
    BY <1>2, <2>1, <2>3, <2>4 DEF IInv, TablesOK, world
  <2>6. SeenInv'
    <3>1. Rank(paper.state) \in Int /\ Rank(row.state) \in Int
      BY DEF Rank
    <3>2. ASSUME NEW d \in Cycle, run'[d].seen # None
          PROVE  /\ paper' # None
                 /\ Rank(run'[d].seen.state) <= Rank(paper'.state)
                 /\ run'[d].seen.created = paper'.created
                 /\ run'[d].seen.state # paper'.state
      <4>1. run'[d].seen = run[d].seen
        BY <2>3, <2>4
      <4>2. /\ Rank(run[d].seen.state) <= Rank(paper.state)
            /\ run[d].seen.created = paper.created
        BY <3>2, <4>1 DEF IInv, SeenInv
      <4>3. Rank(run[d].seen.state) \in Int
        BY DEF Rank
      <4>4. Rank(run[d].seen.state) < Rank(row.state)
        BY <1>2, <3>1, <4>2, <4>3
      <4>5. run[d].seen.state # row.state
        BY <3>1, <4>4
      <4>6. row # None
        BY <1>2, Nones
      <4>7. row.created = paper.created
        BY <1>2
      <4> QED BY <2>1, <3>1, <4>1, <4>2, <4>3, <4>4, <4>5, <4>6, <4>7
    <3> QED BY <3>2 DEF SeenInv
  <2>7. SettleInv' /\ CardInv'
    BY ZenonT(60), <2>3, <2>4 DEF IInv, SettleInv, CardInv
  <2> QED BY <1>2, <2>5, <2>6, <2>7 DEF IInv
<1> QED BY <1>1, <1>2

-----------------------------------------------------------------------------
(* Reading *)

LEMMA StartInv == ASSUME IInv, NEW c \in Cycle, Start(c) PROVE IInv'
<1> DEFINE r == [run[c] EXCEPT !.now = clock, !.pc = "market"]
<1>1. run' = [run EXCEPT ![c] = r]
  BY DEF Start
<1>2. run[c] \in Locals /\ clock \in Time
  BY DEF IInv, TablesOK
<1>3. r \in Locals /\ r.pc = "market" /\ r.seen = run[c].seen
  BY <1>2 DEF Locals, Steps
<1> QED BY <1>1, <1>3, QuietStep DEF Start, world, IInv, TablesOK

LEMMA ReadMarketInv == ASSUME IInv, NEW c \in Cycle, ReadMarket(c) PROVE IInv'
<1>1. PICK v \in Verdict \union {None} :
        run' = [run EXCEPT ![c] = [run[c] EXCEPT !.spot = stored, !.card = v,
                                                 !.pc = IF v = None THEN "read" ELSE "heads"]]
  BY ZenonT(60) DEF ReadMarket
<1> DEFINE r == [run[c] EXCEPT !.spot = stored, !.card = v,
                               !.pc = IF v = None THEN "read" ELSE "heads"]
<1>2. run[c] \in Locals /\ stored \in Spot
  BY DEF IInv, TablesOK
<1>3. /\ r \in Locals /\ r.pc \in {"read", "heads"} /\ r.seen = run[c].seen
      /\ r.pc = "heads" => r.card # None
  BY <1>2 DEF Locals, Steps
<1> QED BY <1>1, <1>3, QuietStep DEF ReadMarket, world, IInv, TablesOK

LEMMA ReadHeadsInv == ASSUME IInv, NEW c \in Cycle, ReadHeads(c) PROVE IInv'
<1> run[c].card # None
  BY DEF ReadHeads, IInv, CardInv
<1>1. CASE Goto(c, "append")
  BY <1>1, GotoStep DEF ReadHeads, world, IInv, TablesOK, Steps
<1>2. CASE \E i \in Newest :
             run' = [run EXCEPT ![c] = [run[c] EXCEPT !.head = i,
                       !.pc = IF recs[i].verdict = run[c].card THEN "open" ELSE "append"]]
  <2>1. PICK i \in Newest :
          run' = [run EXCEPT ![c] = [run[c] EXCEPT !.head = i,
                    !.pc = IF recs[i].verdict = run[c].card THEN "open" ELSE "append"]]
    BY <1>2
  <2> DEFINE r == [run[c] EXCEPT !.head = i,
                    !.pc = IF recs[i].verdict = run[c].card THEN "open" ELSE "append"]
  <2>2. run[c] \in Locals /\ i \in Nat
    BY DEF IInv, TablesOK, Newest
  <2>3. /\ r \in Locals /\ r.pc \in {"open", "append"} /\ r.seen = run[c].seen
        /\ r.card = run[c].card
    BY <2>2 DEF Locals, Steps
  <2> QED BY <2>1, <2>3, QuietStep DEF ReadHeads, world, IInv, TablesOK
<1> QED BY <1>1, <1>2 DEF ReadHeads

LEMMA ReadPapersInv == ASSUME IInv, NEW c \in Cycle, ReadPapers(c) PROVE IInv'
<1>1. CASE Done(c)
  BY <1>1, DoneStep DEF ReadPapers, world, IInv, TablesOK
<1>2. CASE /\ paper # None /\ paper.state \in Active
           /\ run' = [run EXCEPT ![c] = [run[c] EXCEPT !.seen = paper, !.pc = "track"]]
  <2> DEFINE r == [run[c] EXCEPT !.seen = paper, !.pc = "track"]
  <2>1. run[c] \in Locals /\ paper \in Row
    BY <1>2 DEF IInv, TablesOK
  <2>2. r \in Locals /\ r.pc = "track" /\ r.seen = paper
    BY <2>1 DEF Locals, Steps
  <2>3. run'[c] = r /\ \A d \in Cycle : d # c => run'[d] = run[d]
    BY <1>2, OthersKeep DEF IInv
  <2>4. UNCHANGED <<world, recs, paper, events>>
    BY DEF ReadPapers
  <2>5. TablesOK'
    BY <1>2, <2>2, <2>3, <2>4 DEF IInv, TablesOK, world
  <2>6. SeenInv'
    <3>1. Rank(paper.state) <= Rank(paper.state)
      BY DEF Rank
    <3>2. ASSUME NEW d \in Cycle, run'[d].seen # None
          PROVE  /\ paper # None
                 /\ Rank(run'[d].seen.state) <= Rank(paper.state)
                 /\ run'[d].seen.created = paper.created
                 /\ run'[d].seen.state = paper.state => run'[d].seen.reason = paper.reason
      <4>1. CASE d = c
        BY <1>2, <2>2, <2>3, <3>1, <4>1
      <4>2. CASE d # c
        BY <2>3, <3>2, <4>2 DEF IInv, SeenInv
      <4> QED BY <4>1, <4>2
    <3> QED BY <2>4, <3>2 DEF SeenInv
  <2>7. RowInv' /\ NoLookahead' /\ SettleInv' /\ CardInv'
    BY ZenonT(60), <2>2, <2>3, <2>4 DEF IInv, RowInv, NoLookahead, SettleInv, CardInv
  <2> QED BY <2>5, <2>6, <2>7 DEF IInv
<1> QED BY <1>1, <1>2 DEF ReadPapers

-----------------------------------------------------------------------------
(* The records and the events *)

LEMMA AppendInv ==
  ASSUME IInv, NEW c \in Cycle, AppendRec(c) \/ AppendRecEvent(c) \/ OpenEvent(c) \/ AppendEvent(c)
  PROVE  IInv'
<1>1. run[c] \in Locals /\ recs \in Seq(Rec) /\ events \in [Kind -> Nat]
  BY DEF IInv, TablesOK
<1>2. CASE AppendRec(c)
  <2>1. CASE run[c].card \in Verdict
    <3>1. [verdict |-> run[c].card, created |-> run[c].now, supersedes |-> run[c].head] \in Rec
      BY <1>1, <2>1 DEF Rec, Locals
    <3> QED BY <1>1, <1>2, <3>1, GotoStep DEF AppendRec, world, Steps
  <2>2. CASE run[c].card = None
    BY <2>2, <1>2 DEF IInv, CardInv, AppendRec
  <2> QED BY <1>1, <2>1, <2>2 DEF Locals
<1>3. CASE AppendRecEvent(c)
  <2>1. events' \in [Kind -> Nat]
    BY <1>1, <1>3 DEF AppendRecEvent, Kind
  <2> QED BY <1>1, <1>3, <2>1, GotoStep DEF AppendRecEvent, world, Steps
<1>4. CASE OpenEvent(c)
  <2>1. events' \in [Kind -> Nat]
    BY <1>1, <1>4 DEF OpenEvent, Kind
  <2> QED BY <1>1, <1>4, <2>1, GotoStep DEF OpenEvent, world, Steps
<1>5. CASE AppendEvent(c)
  <2>1. events' \in [Kind -> Nat]
    BY <1>1, <1>5 DEF AppendEvent, Locals
  <2> QED BY <1>1, <1>5, <2>1, DoneStep DEF AppendEvent, world, IInv, TablesOK
<1> QED BY <1>2, <1>3, <1>4, <1>5

-----------------------------------------------------------------------------
(* The position *)

(* When the compare-and-set succeeds, the row is the one the cycle read. *)
LEMMA SwappedRow ==
  ASSUME IInv, NEW c \in Cycle, run[c].pc \in {"track", "settle"}
  PROVE  /\ run[c].seen # None /\ run[c] \in Locals
         /\ Swapped(c) => /\ paper \in Row /\ paper # None
                          /\ paper.state = run[c].seen.state
                          /\ paper.created = run[c].seen.created
                          /\ paper.reason = run[c].seen.reason
BY DEF IInv, TablesOK, SeenInv, Swapped

LEMMA OpenPaperInv == ASSUME IInv, NEW c \in Cycle, OpenPaper(c) PROVE IInv'
<1>1. CASE UNCHANGED paper /\ Goto(c, "read")
  BY <1>1, GotoStep DEF OpenPaper, world, IInv, TablesOK, Steps
<1>2. CASE paper = None /\ Goto(c, "openEvent") /\ \E i \in {"stock", "option"} : paper' = NewRow(c, i)
  <2>1. PICK i \in {"stock", "option"} : paper' = NewRow(c, i)
    BY <1>2
  <2>2. run[c] \in Locals
    BY DEF IInv, TablesOK
  <2>3. /\ paper' \in Row /\ paper' # None /\ paper'.state = "PAPER_PENDING"
        /\ paper'.entry = None /\ paper'.exit = None /\ paper'.reason = None
    BY <2>1, <2>2, Nones DEF NewRow, Row, Active, Locals
  <2> DEFINE r == [run[c] EXCEPT !.pc = "openEvent"]
  <2>4. run'[c] = r /\ \A d \in Cycle : d # c => run'[d] = run[d]
    BY <1>2, OthersKeep DEF Goto, IInv
  <2>5. r \in Locals /\ r.pc = "openEvent" /\ r.seen = run[c].seen
    BY <2>2 DEF Locals, Steps
  <2>6. \A d \in Cycle : run[d].seen = None
    BY <1>2 DEF IInv, SeenInv
  <2>7. \A d \in Cycle : run[d].pc \notin {"track", "settle"}
    BY <2>6 DEF IInv, TablesOK
  <2>8. \A d \in Cycle : run'[d].seen = None /\ run'[d].pc \notin {"track", "settle"}
    BY <2>4, <2>5, <2>6, <2>7
  <2>9. run' \in [Cycle -> Locals]
    BY <1>2, <2>2, <2>5 DEF Goto, IInv, TablesOK
  <2>10. TablesOK'
    BY <2>3, <2>8, <2>9 DEF IInv, TablesOK, OpenPaper, world
  <2>11. RowInv' /\ NoLookahead'
    BY <2>3 DEF RowInv, NoLookahead
  <2>12. SeenInv' /\ SettleInv'
    BY <2>8 DEF SeenInv, SettleInv
  <2>13. CardInv'
    BY <2>4, <2>5 DEF IInv, CardInv
  <2> QED BY <2>10, <2>11, <2>12, <2>13 DEF IInv
<1> QED BY <1>1, <1>2 DEF OpenPaper

LEMMA ExpireInv == ASSUME IInv, NEW c \in Cycle, Expire(c) PROVE IInv'
<1> DEFINE row == [paper EXCEPT !.state = "CLOSED_SIMULATED", !.exitAt = run[c].now,
                                !.reason = "unfilled"]
<1>1. run[c].pc = "track" /\ run[c].seen.state = "PAPER_PENDING" /\ Move(c, row, "paper_expired")
  BY DEF Expire
<1>2. ASSUME Swapped(c)
      PROVE  /\ row \in Row /\ Rank(paper.state) < Rank(row.state)
             /\ row.created = paper.created
             /\ (RowInv /\ NoLookahead)'
  <2>1. paper \in Row /\ paper.state = "PAPER_PENDING" /\ run[c].now \in Time /\ paper # None
    BY <1>1, <1>2, SwappedRow DEF Locals
  <2>2. /\ row \in Row /\ row.state = "CLOSED_SIMULATED"
        /\ row.created = paper.created /\ row.entry = paper.entry
    BY <2>1 DEF Row, Reason
  <2>3. paper' = row /\ paper.entry = None
    BY <1>1, <1>2, <2>1 DEF Move, IInv, RowInv
  <2> QED BY <2>1, <2>2, <2>3 DEF Rank, RowInv, NoLookahead
<1>3. run[c].seen # None
  BY <1>1, SwappedRow
<1> QED BY <1>1, <1>2, <1>3, MoveStep DEF Kind

LEMMA FillPrice ==
  ASSUME IInv, NEW c \in Cycle, Fillable(c), run[c].seen # None
  PROVE  LET p == IF run[c].seen.instrument = "stock" THEN run[c].spot ELSE QuoteOf(c)
         IN  /\ p \in Price /\ p # None /\ p.at > run[c].seen.created
             /\ p.level \in {"entry", "quote"}
<1>1. /\ run[c].spot \in Spot /\ run[c].now \in Time /\ run[c].seen \in Row
  BY DEF IInv, TablesOK, Locals
<1>2. run[c].spot.at > run[c].seen.created /\ run[c].spot.at <= run[c].now
  BY <1>1 DEF Fillable, Fresh, Usable, Spot, Time
<1>3. run[c].now > run[c].seen.created
  BY <1>1, <1>2 DEF Spot, Time, Row
<1>4. QuoteOf(c) \in Price /\ QuoteOf(c).at = run[c].now /\ QuoteOf(c).level = "quote"
  BY <1>1 DEF QuoteOf, Price
<1>5. run[c].spot \in Price /\ run[c].spot.level = "entry"
  BY <1>1 DEF Fillable, Spot, Price
<1> QED BY <1>2, <1>3, <1>4, <1>5, Nones

LEMMA FillInv == ASSUME IInv, NEW c \in Cycle, Fill(c) PROVE IInv'
<1> DEFINE p == IF run[c].seen.instrument = "stock" THEN run[c].spot ELSE QuoteOf(c)
<1> DEFINE row == [paper EXCEPT !.state = "PAPER_OPEN", !.entryAt = run[c].now, !.entry = p,
                                !.markAt = run[c].now]
<1>1. /\ run[c].pc = "track" /\ run[c].seen.state = "PAPER_PENDING" /\ Fillable(c)
      /\ Move(c, row, "paper_fill")
  BY DEF Fill
<1>2. run[c].seen # None /\ run[c].now \in Time
  BY <1>1, SwappedRow DEF Locals
<1>3. p \in Price /\ p # None /\ p.at > run[c].seen.created /\ p.level \in {"entry", "quote"}
  BY <1>1, <1>2, FillPrice
<1>4. ASSUME Swapped(c)
      PROVE  /\ row \in Row /\ Rank(paper.state) < Rank(row.state)
             /\ row.created = paper.created
             /\ (RowInv /\ NoLookahead)'
  <2> HIDE DEF p
  <2>1. /\ paper \in Row /\ paper.state = "PAPER_PENDING" /\ paper # None
        /\ paper.created = run[c].seen.created
    BY <1>1, <1>4, SwappedRow
  <2>2. /\ row \in Row /\ row.state = "PAPER_OPEN" /\ row.created = paper.created
        /\ row.entry = p /\ row.entryAt = run[c].now /\ row.exit = paper.exit
        /\ row.reason = paper.reason
    BY <1>2, <1>3, <2>1 DEF Row, Active
  <2>3. paper' = row /\ paper.exit = None /\ paper.reason = None
    BY <1>1, <1>4, <2>1 DEF Move, IInv, RowInv
  <2>4. run[c].now \in LiveTimes /\ Day[run[c].now] = OppDay
    BY <1>1 DEF Fillable, Fresh, Usable, Today
  <2> QED BY <1>3, <2>1, <2>2, <2>3, <2>4 DEF Rank, RowInv, NoLookahead
<1> QED BY <1>1, <1>2, <1>4, MoveStep DEF Kind

LEMMA CloseInv == ASSUME IInv, NEW c \in Cycle, Close(c) PROVE IInv'
<1> DEFINE row == [paper EXCEPT !.state = "CLOSED_SIMULATED", !.exitAt = run[c].now,
                                !.exit = run[c].price, !.reason = run[c].reason]
<1>1. run[c].pc = "settle" /\ run[c].price # None /\ Move(c, row, "paper_exit")
  BY DEF Close
<1>2. /\ run[c].seen # None /\ run[c].reason \in Reason
      /\ run[c].seen.state \in {"PAPER_OPEN", "EXIT_SIGNALLED"}
  BY <1>1 DEF IInv, SettleInv
<1>3. ASSUME Swapped(c)
      PROVE  /\ row \in Row /\ Rank(paper.state) < Rank(row.state)
             /\ row.created = paper.created
             /\ (RowInv /\ NoLookahead)'
  <2>1. /\ paper \in Row /\ paper.state \in {"PAPER_OPEN", "EXIT_SIGNALLED"} /\ paper # None
        /\ run[c].now \in Time /\ run[c].price \in Price
    BY <1>1, <1>2, <1>3, SwappedRow DEF Locals
  <2>2. /\ row \in Row /\ row.state = "CLOSED_SIMULATED" /\ row.created = paper.created
        /\ row.entry = paper.entry /\ row.entryAt = paper.entryAt
    BY <1>2, <2>1 DEF Row
  <2>3. paper' = row
    BY <1>1, <1>3 DEF Move
  <2> QED BY <2>1, <2>2, <2>3 DEF Rank, RowInv, NoLookahead, IInv
<1> QED BY <1>1, <1>2, <1>3, MoveStep DEF Kind

LEMMA SignalInv == ASSUME IInv, NEW c \in Cycle, Signal(c) PROVE IInv'
<1> DEFINE row == [paper EXCEPT !.state = "EXIT_SIGNALLED", !.exitAt = run[c].now,
                                !.reason = run[c].reason]
<1>1. run[c].pc = "settle" /\ run[c].seen.state = "PAPER_OPEN" /\ Move(c, row, "exit_signalled")
  BY DEF Signal
<1>2. run[c].seen # None /\ run[c].reason \in Reason
  BY <1>1 DEF IInv, SettleInv
<1>3. ASSUME Swapped(c)
      PROVE  /\ row \in Row /\ Rank(paper.state) < Rank(row.state)
             /\ row.created = paper.created
             /\ (RowInv /\ NoLookahead)'
  <2>1. paper \in Row /\ paper.state = "PAPER_OPEN" /\ paper # None /\ run[c].now \in Time
    BY <1>1, <1>2, <1>3, SwappedRow DEF Locals
  <2>2. /\ row \in Row /\ row.state = "EXIT_SIGNALLED" /\ row.created = paper.created
        /\ row.entry = paper.entry /\ row.entryAt = paper.entryAt /\ row.exit = paper.exit
        /\ row.reason = run[c].reason
    BY <1>2, <2>1 DEF Row, Active
  <2>3. paper' = row /\ paper.exit = None
    BY <1>1, <1>3, <2>1 DEF Move, IInv, RowInv
  <2> QED BY <1>2, <2>1, <2>2, <2>3, Nones DEF Rank, RowInv, NoLookahead, IInv
<1> QED BY <1>1, <1>2, <1>3, MoveStep DEF Kind

LEMMA AbandonInv == ASSUME IInv, NEW c \in Cycle, Abandon(c) PROVE IInv'
<1> DEFINE row == [paper EXCEPT !.state = "UNRESOLVED"]
<1>1. run[c].pc = "settle" /\ run[c].seen.state = "EXIT_SIGNALLED" /\ Move(c, row, "unresolved")
  BY DEF Abandon
<1>2. run[c].seen # None
  BY <1>1 DEF IInv, SettleInv
<1>3. ASSUME Swapped(c)
      PROVE  /\ row \in Row /\ Rank(paper.state) < Rank(row.state)
             /\ row.created = paper.created
             /\ (RowInv /\ NoLookahead)'
  <2>1. paper \in Row /\ paper.state = "EXIT_SIGNALLED" /\ paper # None
    BY <1>1, <1>2, <1>3, SwappedRow
  <2>2. /\ row \in Row /\ row.state = "UNRESOLVED" /\ row.created = paper.created
        /\ row.entry = paper.entry /\ row.entryAt = paper.entryAt
    BY <2>1 DEF Row
  <2>3. paper' = row
    BY <1>1, <1>3 DEF Move
  <2> QED BY <2>1, <2>2, <2>3 DEF Rank, RowInv, NoLookahead, IInv
<1> QED BY <1>1, <1>2, <1>3, MoveStep DEF Kind

LEMMA LeaveInv ==
  ASSUME IInv, NEW c \in Cycle, LeavePending(c) \/ LeaveSignalled(c) PROVE IInv'
BY DoneStep DEF LeavePending, LeaveSignalled, world, IInv, TablesOK

(* What a deciding cycle settles on: a reason, which is the one of the signal if there was
   one, and a price or none. *)
LEMMA DecidedType ==
  ASSUME IInv, NEW c \in Cycle, run[c].pc = "track",
         NEW b \in BarExits(c), NEW against \in BOOLEAN, NEW quoted \in BOOLEAN
  PROVE  /\ ExitReason(c, b, against) \in Reason \union {None}
         /\ run[c].seen.state = "EXIT_SIGNALLED" => ExitReason(c, b, against) = run[c].seen.reason
         /\ ExitPrice(c, b, quoted) \in Price \union {None}
<1>1. run[c] \in Locals /\ run[c].seen \in Row
  BY SwappedRow DEF Locals
<1>2. b \in {None} \union Reason
  BY DEF BarExits, Reason
<1>3. ExitReason(c, b, against) \in Reason \union {None}
  <2>1. run[c].seen.reason \in Reason \union {None}
    BY <1>1 DEF Row
  <2> QED BY <1>2, <2>1 DEF ExitReason, Reason
<1>4. ExitPrice(c, b, quoted) \in Price \union {None}
  <2>1. run[c].spot \in Price /\ QuoteOf(c) \in Price
    BY <1>1 DEF Locals, Spot, Price, QuoteOf
  <2>2. [level |-> "bar", at |-> run[c].now] \in Price
    BY <1>1 DEF Locals, Price
  <2> QED BY <2>1, <2>2 DEF ExitPrice
<1> QED BY <1>3, <1>4 DEF ExitReason

LEMMA DecideInv == ASSUME IInv, NEW c \in Cycle, Decide(c) PROVE IInv'
<1>1. /\ run[c].pc = "track" /\ run[c].seen.state \in {"PAPER_OPEN", "EXIT_SIGNALLED"}
      /\ run[c].seen # None /\ run[c] \in Locals /\ run[c].seen \in Row
  BY SwappedRow DEF Decide, Locals
<1>2. PICK b \in BarExits(c), against \in BOOLEAN, quoted \in BOOLEAN :
        /\ paper' = IF /\ ExitPrice(c, b, quoted) # None
                       /\ ExitPrice(c, b, quoted).level # "bar" /\ Swapped(c)
                    THEN [paper EXCEPT !.markAt = run[c].now] ELSE paper
        /\ IF ExitReason(c, b, against) = None THEN Done(c)
           ELSE run' = [run EXCEPT ![c].reason = ExitReason(c, b, against),
                                   ![c].price = ExitPrice(c, b, quoted), ![c].pc = "settle"]
  BY ZenonT(60) DEF Decide
<1> DEFINE r == ExitReason(c, b, against)
           p == ExitPrice(c, b, quoted)
           l == [run[c] EXCEPT !.reason = r, !.price = p, !.pc = "settle"]
<1>3. /\ r \in Reason \union {None} /\ p \in Price \union {None}
      /\ run[c].seen.state = "EXIT_SIGNALLED" => r = run[c].seen.reason
  BY <1>1, DecidedType
<1>4. UNCHANGED <<world, recs, events>>
  BY DEF Decide
<1> HIDE DEF r, p
<1>5. /\ paper # None /\ paper' # None /\ paper' \in Row
      /\ paper'.state = paper.state /\ paper'.entry = paper.entry /\ paper'.exit = paper.exit
      /\ paper'.reason = paper.reason /\ paper'.created = paper.created
      /\ paper'.entryAt = paper.entryAt
  <2>1. paper # None /\ paper \in Row /\ run[c].now \in Time
    BY <1>1 DEF IInv, SeenInv, TablesOK, Locals
  <2>2. CASE paper' = paper
    BY <2>1, <2>2
  <2>3. CASE paper' = [paper EXCEPT !.markAt = run[c].now]
    <3>1. [paper EXCEPT !.markAt = run[c].now] \in Row
      BY <2>1 DEF Row
    <3>2. paper' # None
      BY <2>3, <3>1, Nones
    <3> QED BY <2>1, <2>3, <3>1, <3>2 DEF Row
  <2> QED BY <1>2, <2>2, <2>3
<1>6. RowInv' /\ NoLookahead'
  BY <1>5 DEF IInv, RowInv, NoLookahead
<1>7. CASE r = None
  <2>1. run' = [run EXCEPT ![c] = Idle]
    BY <1>2, <1>7 DEF Done, r
  <2>2. run'[c] = Idle /\ \A d \in Cycle : d # c => run'[d] = run[d]
    BY <2>1, OthersKeep DEF IInv
  <2>3. Idle \in Locals /\ Idle.pc = "idle" /\ Idle.seen = None
    BY IdleType
  <2>4. run' \in [Cycle -> Locals]
    BY <2>1, <2>3 DEF IInv, TablesOK
  <2>5. TablesOK'
    BY <1>4, <1>5, <2>2, <2>3, <2>4 DEF IInv, TablesOK, world
  <2>6. SeenInv'
    BY <1>5, <2>2, <2>3 DEF IInv, SeenInv
  <2>7. SettleInv' /\ CardInv'
    BY <2>2, <2>3 DEF IInv, SettleInv, CardInv
  <2> QED BY <1>6, <2>5, <2>6, <2>7 DEF IInv
<1>8. CASE r # None
  <2>1. run' = [run EXCEPT ![c] = l]
    BY <1>2, <1>8 DEF r, p
  <2>2. run'[c] = l /\ \A d \in Cycle : d # c => run'[d] = run[d]
    BY <2>1, OthersKeep DEF IInv
  <2>3. l \in Locals /\ l.pc = "settle" /\ l.seen = run[c].seen /\ l.reason = r
    BY <1>1, <1>3 DEF Locals, Steps
  <2> HIDE DEF l
  <2>4. run' \in [Cycle -> Locals]
    BY <2>1, <2>3 DEF IInv, TablesOK
  <2>5. TablesOK'
    <3>1. run[c].seen.state \in Active
      BY <1>1 DEF Active
    <3> QED BY <1>1, <1>4, <1>5, <2>2, <2>3, <2>4, <3>1 DEF IInv, TablesOK, world
  <2>6. SeenInv'
    BY <1>5, <2>2, <2>3 DEF IInv, SeenInv
  <2>7. SettleInv'
    BY <1>1, <1>3, <1>8, <2>2, <2>3 DEF IInv, SettleInv
  <2>8. CardInv'
    BY <2>2, <2>3 DEF IInv, CardInv
  <2> QED BY <1>6, <2>5, <2>6, <2>7, <2>8 DEF IInv
<1> QED BY <1>7, <1>8

-----------------------------------------------------------------------------
(* The world, and the whole of a step *)

LEMMA WorldInv == ASSUME IInv, Tick \/ Refresh PROVE IInv'
<1>1. clock' \in Time /\ stored' \in Spot
  <2>1. CASE Tick
    BY <2>1, TimeAssumption DEF Tick, IInv, TablesOK, Time
  <2>2. CASE Refresh
    BY <2>2 DEF Refresh, IInv, TablesOK, Spot
  <2> QED BY <2>1, <2>2
<1>2. UNCHANGED <<recs, paper, events, run, crashes>>
  BY DEF Tick, Refresh
<1> QED BY <1>1, <1>2 DEF IInv, TablesOK, CardInv, RowInv, SeenInv, SettleInv, NoLookahead

LEMMA CrashInv == ASSUME IInv, NEW c \in Cycle, Crash(c) PROVE IInv'
BY DoneStep DEF Crash, IInv, TablesOK

LEMMA NextIInv == IInv /\ [Next]_vars => IInv'
<1> SUFFICES ASSUME IInv, [Next]_vars PROVE IInv'
  OBVIOUS
<1>1. CASE UNCHANGED vars
  BY <1>1 DEF vars, IInv, TablesOK, CardInv, RowInv, SeenInv, SettleInv, NoLookahead
<1>2. ASSUME NEW c \in Cycle, Step(c) \/ Crash(c) PROVE IInv'
  BY <1>2, StartInv, ReadMarketInv, ReadHeadsInv, AppendInv, OpenPaperInv, ReadPapersInv, ExpireInv, FillInv,
     LeaveInv, DecideInv, CloseInv, SignalInv, AbandonInv, CrashInv DEF Step
<1> QED BY <1>1, <1>2, WorldInv DEF Next

LEMMA IInvHolds == Spec => []IInv
BY InitIInv, NextIInv, PTL DEF Spec

\* The types of the history.
HistoryOK ==
  /\ late \in [rec: SUBSET Cycle, fill: SUBSET Cycle] /\ crossed \in [rec: BOOLEAN, fill: BOOLEAN]

LEMMA NextHistory == HistoryOK /\ [Next]_vars => HistoryOK'
<1> SUFFICES ASSUME HistoryOK, [Next]_vars PROVE HistoryOK'
  OBVIOUS
<1>1. CASE UNCHANGED vars
  BY <1>1 DEF vars, history, HistoryOK
<1>2. CASE Watch
  <2>1. late' \in [rec: SUBSET Cycle, fill: SUBSET Cycle]
    BY <1>2 DEF Watch
  <2>2. crossed' \in [rec: BOOLEAN, fill: BOOLEAN]
    BY <1>2, Zenon DEF Watch, HistoryOK
  <2> QED BY <2>1, <2>2 DEF HistoryOK
<1> QED BY <1>1, <1>2 DEF Next

(* The state of the ledger, of every cycle and of the history stays well typed. *)
THEOREM TypeCorrect == Spec => []TypeOK
<1>1. Init => HistoryOK
  BY DEF Init, HistoryOK
<1>2. IInv /\ HistoryOK => TypeOK
  BY DEF IInv, HistoryOK, TypeOK
<1> QED BY <1>1, <1>2, IInvHolds, NextHistory, PTL DEF Spec

(* No position is filled on the price that caused its publication, or outside the session of
   its opportunity, with any number of cycles and crashes. *)
THEOREM NoLookaheadHolds == Spec => []NoLookahead
BY IInvHolds, PTL DEF IInv

-----------------------------------------------------------------------------
(* The ledger implements the life of one position *)

LEMMA InitMaps == Init => Lifecycle!Init
BY DEF Init, Lifecycle!Init

(* A move either replaces the row the cycle read, or does nothing to the row. *)
LEMMA MoveEffect ==
  ASSUME NEW c, NEW row, NEW k, Move(c, row, k)
  PROVE  (Swapped(c) /\ paper' = row) \/ UNCHANGED paper
BY DEF Move

LEMMA PublishMaps ==
  ASSUME IInv, NEW c \in Cycle, OpenPaper(c) PROVE Lifecycle!Publish \/ UNCHANGED paper
<1>1. ASSUME NEW i \in {"stock", "option"}, paper = None, paper' = NewRow(c, i)
      PROVE  Lifecycle!Publish
  <2>1. paper' \in Row
    BY <1>1 DEF IInv, TablesOK, NewRow, Row, Active, Locals
  <2>2. /\ paper' # None /\ paper'.state = "PAPER_PENDING" /\ paper'.entry = None
        /\ paper'.exit = None /\ paper'.reason = None
    BY <1>1, <2>1, Nones DEF NewRow
  <2> QED BY <1>1, <2>2 DEF Lifecycle!Publish
<1> QED BY <1>1 DEF OpenPaper

LEMMA ExpireMaps ==
  ASSUME IInv, NEW c \in Cycle, Expire(c) PROVE Lifecycle!Expire \/ UNCHANGED paper
<1> DEFINE row == [paper EXCEPT !.state = "CLOSED_SIMULATED", !.exitAt = run[c].now,
                                !.reason = "unfilled"]
<1>1. run[c].pc = "track" /\ run[c].seen.state = "PAPER_PENDING" /\ Move(c, row, "paper_expired")
  BY DEF Expire
<1>2. CASE Swapped(c) /\ paper' = row
  <2>1. paper \in Row /\ paper # None /\ paper.state = "PAPER_PENDING" /\ run[c].now \in Time
    BY <1>1, <1>2, SwappedRow DEF Locals
  <2>2. /\ row \in Row /\ row.state = "CLOSED_SIMULATED" /\ row.entry = paper.entry
        /\ row.exit = paper.exit /\ row.reason = "unfilled"
    BY <2>1 DEF Row, Reason
  <2> QED BY <1>2, <2>1, <2>2, Nones DEF Lifecycle!Expire, Reason
<1> QED BY <1>1, <1>2, MoveEffect

LEMMA FillMaps ==
  ASSUME IInv, NEW c \in Cycle, Fill(c) PROVE Lifecycle!Fill \/ UNCHANGED paper
<1> DEFINE p == IF run[c].seen.instrument = "stock" THEN run[c].spot ELSE QuoteOf(c)
<1> DEFINE row == [paper EXCEPT !.state = "PAPER_OPEN", !.entryAt = run[c].now, !.entry = p,
                                !.markAt = run[c].now]
<1>1. /\ run[c].pc = "track" /\ run[c].seen.state = "PAPER_PENDING" /\ Fillable(c)
      /\ Move(c, row, "paper_fill")
  BY DEF Fill
<1>2. p \in Price
  BY <1>1, SwappedRow, FillPrice
<1>3. CASE Swapped(c) /\ paper' = row
  <2> HIDE DEF p
  <2>1. paper \in Row /\ paper # None /\ paper.state = "PAPER_PENDING" /\ run[c].now \in Time
    BY <1>1, <1>3, SwappedRow DEF Locals
  <2>2. /\ row \in Row /\ row.state = "PAPER_OPEN" /\ row.entry = p
        /\ row.exit = paper.exit /\ row.reason = paper.reason
    BY <1>2, <2>1 DEF Row, Active
  <2> QED BY <1>2, <1>3, <2>1, <2>2, Nones DEF Lifecycle!Fill
<1> QED BY <1>1, <1>3, MoveEffect

LEMMA CloseMaps ==
  ASSUME IInv, NEW c \in Cycle, Close(c) PROVE Lifecycle!Close \/ UNCHANGED paper
<1> DEFINE row == [paper EXCEPT !.state = "CLOSED_SIMULATED", !.exitAt = run[c].now,
                                !.exit = run[c].price, !.reason = run[c].reason]
<1>1. run[c].pc = "settle" /\ run[c].price # None /\ Move(c, row, "paper_exit")
  BY DEF Close
<1>2. CASE Swapped(c) /\ paper' = row
  <2>1. /\ paper \in Row /\ paper # None /\ run[c].now \in Time /\ run[c].price \in Price
        /\ paper.state = run[c].seen.state /\ paper.reason = run[c].seen.reason
    BY <1>1, <1>2, SwappedRow DEF Locals
  <2>2. /\ paper.state \in {"PAPER_OPEN", "EXIT_SIGNALLED"} /\ run[c].reason \in Reason
        /\ paper.state = "EXIT_SIGNALLED" => run[c].reason = paper.reason
    BY <1>1, <2>1 DEF IInv, SettleInv
  <2>3. /\ row \in Row /\ row.state = "CLOSED_SIMULATED" /\ row.entry = paper.entry
        /\ row.exit = run[c].price /\ row.reason = run[c].reason
    BY <2>1, <2>2 DEF Row
  <2> QED BY <1>2, <2>1, <2>2, <2>3, Nones DEF Lifecycle!Close
<1> QED BY <1>1, <1>2, MoveEffect

LEMMA SignalMaps ==
  ASSUME IInv, NEW c \in Cycle, Signal(c) PROVE Lifecycle!Signal \/ UNCHANGED paper
<1> DEFINE row == [paper EXCEPT !.state = "EXIT_SIGNALLED", !.exitAt = run[c].now,
                                !.reason = run[c].reason]
<1>1. run[c].pc = "settle" /\ run[c].seen.state = "PAPER_OPEN" /\ Move(c, row, "exit_signalled")
  BY DEF Signal
<1>2. CASE Swapped(c) /\ paper' = row
  <2>1. /\ paper \in Row /\ paper # None /\ paper.state = "PAPER_OPEN" /\ run[c].now \in Time
        /\ run[c].reason \in Reason
    BY <1>1, <1>2, SwappedRow DEF Locals, IInv, SettleInv
  <2>2. /\ row \in Row /\ row.state = "EXIT_SIGNALLED" /\ row.entry = paper.entry
        /\ row.exit = paper.exit /\ row.reason = run[c].reason
    BY <2>1 DEF Row, Active
  <2> QED BY <1>2, <2>1, <2>2, Nones DEF Lifecycle!Signal
<1> QED BY <1>1, <1>2, MoveEffect

LEMMA AbandonMaps ==
  ASSUME IInv, NEW c \in Cycle, Abandon(c) PROVE Lifecycle!Abandon \/ UNCHANGED paper
<1> DEFINE row == [paper EXCEPT !.state = "UNRESOLVED"]
<1>1. run[c].pc = "settle" /\ run[c].seen.state = "EXIT_SIGNALLED" /\ Move(c, row, "unresolved")
  BY DEF Abandon
<1>2. CASE Swapped(c) /\ paper' = row
  <2>1. paper \in Row /\ paper # None /\ paper.state = "EXIT_SIGNALLED"
    BY <1>1, <1>2, SwappedRow
  <2>2. /\ row \in Row /\ row.state = "UNRESOLVED" /\ row.entry = paper.entry
        /\ row.exit = paper.exit /\ row.reason = paper.reason
    BY <2>1 DEF Row
  <2> QED BY <1>2, <2>1, <2>2, Nones DEF Lifecycle!Abandon
<1> QED BY <1>1, <1>2, MoveEffect

(* Deciding writes at most the mark. *)
LEMMA DecideMaps ==
  ASSUME IInv, NEW c \in Cycle, Decide(c) PROVE UNCHANGED Lifecycle!vars
<1>1. paper # None /\ paper \in Row /\ run[c].now \in Time
  BY SwappedRow DEF Decide, IInv, SeenInv, TablesOK, Locals
<1>2. paper' = paper \/ paper' = [paper EXCEPT !.markAt = run[c].now]
  BY DEF Decide
<1>3. CASE paper' = [paper EXCEPT !.markAt = run[c].now]
  <2>1. [paper EXCEPT !.markAt = run[c].now] \in Row
    BY <1>1 DEF Row
  <2>2. /\ paper' # None /\ paper'.state = paper.state /\ paper'.entry = paper.entry
        /\ paper'.exit = paper.exit /\ paper'.reason = paper.reason
    BY <1>1, <1>3, <2>1, Nones DEF Row
  <2> QED BY <1>1, <2>2 DEF Lifecycle!vars
<1> QED BY <1>2, <1>3 DEF Lifecycle!vars

LEMMA NextMaps == IInv /\ [Next]_vars => [Lifecycle!Next]_(Lifecycle!vars)
<1> SUFFICES ASSUME IInv, [Next]_vars PROVE Lifecycle!Next \/ UNCHANGED Lifecycle!vars
  OBVIOUS
<1>1. UNCHANGED paper => UNCHANGED Lifecycle!vars
  BY DEF Lifecycle!vars
<1>2. ASSUME NEW c \in Cycle, Step(c) PROVE Lifecycle!Next \/ UNCHANGED Lifecycle!vars
  <2>1. CASE \/ Start(c) \/ ReadMarket(c) \/ ReadHeads(c) \/ AppendRec(c) \/ AppendRecEvent(c) \/ OpenEvent(c)
             \/ ReadPapers(c) \/ LeavePending(c) \/ LeaveSignalled(c) \/ AppendEvent(c)
    BY <1>1, <2>1 DEF Start, ReadMarket, ReadHeads, AppendRec, AppendRecEvent, OpenEvent, ReadPapers,
       LeavePending, LeaveSignalled, AppendEvent
  <2>2. CASE OpenPaper(c) \/ Expire(c) \/ Fill(c) \/ Close(c) \/ Signal(c) \/ Abandon(c)
    BY <1>1, <2>2, PublishMaps, ExpireMaps, FillMaps, CloseMaps, SignalMaps, AbandonMaps
       DEF Lifecycle!Next
  <2>3. CASE Decide(c)
    BY <2>3, DecideMaps
  <2> QED BY <1>2, <2>1, <2>2, <2>3 DEF Step
<1>3. CASE Tick \/ Refresh \/ (\E c \in Cycle : Crash(c)) \/ UNCHANGED vars
  BY <1>1, <1>3 DEF Tick, Refresh, Crash, vars
<1> QED BY <1>2, <1>3 DEF Next

(* Whatever cycles interleave, crash and retry, the row of a position goes through one life:
   published once, filled once, closed once or left unresolved, with the reason of its signal. *)
THEOREM LifecycleImplementedHolds == Spec => LifecycleImplemented
BY IInvHolds, InitMaps, NextMaps, PTL DEF Spec, LifecycleImplemented, Lifecycle!Spec
=============================================================================
