-------------------------- MODULE PaperHistoryProofs --------------------------
(***************************************************************************)
(* Proofs about what the PAPER ledger tells: its events, its               *)
(* recommendation records and its dates.                                   *)
(*                                                                         *)
(* A move and its event are two transactions, so between them the event is *)
(* owed by the cycle that moved the row.  A move is told, owed by one      *)
(* cycle, or was lost with the cycle that owed it: each crash adds at most *)
(* one lost event.  The records are one chain, and the dates are in order, *)
(* until a cycle writes after another appended, or filled, behind its back.*)
(***************************************************************************)
EXTENDS PaperLedgerProofs, FiniteSetTheorems

\* Locals l are those of a cycle that has yet to write event k.
OwesAt(l, k) ==
  \/ l.pc = "event" /\ l.kind = k
  \/ l.pc = "openEvent" /\ k = "paper_pending"
Owes(c, k) == OwesAt(run[c], k)

\* A move is told once, or owed by one cycle, and was then made.
ToldInv ==
  \A k \in Told :
    /\ events[k] <= 1
    /\ \A c, d \in Cycle : Owes(c, k) /\ Owes(d, k) => c = d
    /\ events[k] = 1 => \A c \in Cycle : ~Owes(c, k)
    /\ events[k] = 1 \/ (\E c \in Cycle : Owes(c, k)) => MayHave(paper, k)

\* The moves that nobody will tell any more.
Lost == {k \in Told : Shows(paper, k) /\ events[k] = 0 /\ \A c \in Cycle : ~Owes(c, k)}
LossInv == Cardinality(Lost) <= crashes

\* Only an expired row has the reason of an expiry.
ReasonInv ==
  /\ paper # None /\ paper.state = "EXIT_SIGNALLED" => paper.reason # "unfilled"
  /\ \A c \in Cycle :
       /\ run[c].seen # None /\ run[c].seen.state = "EXIT_SIGNALLED" =>
            run[c].seen.reason # "unfilled"
       /\ run[c].pc = "settle" => run[c].reason # "unfilled"

HistInv == ToldInv /\ LossInv

-----------------------------------------------------------------------------
(* The reason of an expiry *)

(* A cycle never decides to leave an open position for the reason of an expiry. *)
LEMMA DecidedReason ==
  ASSUME IInv, ReasonInv, NEW c \in Cycle, run[c].pc = "track",
         run[c].seen.state \in {"PAPER_OPEN", "EXIT_SIGNALLED"},
         NEW b \in BarExits(c), NEW against \in BOOLEAN
  PROVE  ExitReason(c, b, against) # "unfilled"
<1>1. run[c].seen # None
  BY SwappedRow
<1>2. b # "unfilled" \/ b = None
  BY DEF BarExits
<1>3. None # "unfilled"
  BY Nones DEF Reason
<1> QED BY <1>1, <1>2, <1>3 DEF ExitReason, ReasonInv

(* Locals that are replaced keep the invariant when they read the row, or settle for another
   reason. *)
LEMMA LocalReason ==
  ASSUME IInv, ReasonInv, NEW c \in Cycle, NEW r, run' = [run EXCEPT ![c] = r],
         r.seen = run[c].seen \/ r.seen = paper \/ r.seen = None,
         r.pc = "settle" => r.reason # "unfilled",
         paper' # None /\ paper'.state = "EXIT_SIGNALLED" => paper'.reason # "unfilled"
  PROVE  ReasonInv'
<1>1. run'[c] = r /\ \A d \in Cycle : d # c => run'[d] = run[d]
  BY OthersKeep DEF IInv
<1> QED BY <1>1 DEF ReasonInv

LEMMA MoveReason ==
  ASSUME IInv, ReasonInv, NEW c \in Cycle, NEW row, NEW k \in Kind, Move(c, row, k),
         Swapped(c) /\ row.state = "EXIT_SIGNALLED" => row.reason # "unfilled"
  PROVE  ReasonInv'
<1>1. CASE Swapped(c)
  <2> DEFINE r == [run[c] EXCEPT !.pc = "event", !.kind = k]
  <2>1. paper' = row /\ run' = [run EXCEPT ![c] = r]
    BY <1>1 DEF Move
  <2>2. r.seen = run[c].seen /\ r.pc # "settle"
    BY DEF IInv, TablesOK, Locals
  <2> QED BY <1>1, <2>1, <2>2, LocalReason
<1>2. CASE ~Swapped(c)
  <2>1. run' = [run EXCEPT ![c] = Idle] /\ paper' = paper
    BY <1>2 DEF Move, Done
  <2> QED BY <2>1, IdleType, LocalReason DEF ReasonInv
<1> QED BY <1>1, <1>2

LEMMA MovesReason ==
  ASSUME IInv, ReasonInv, NEW c \in Cycle, Expire(c) \/ Fill(c) \/ Close(c) \/ Signal(c) \/ Abandon(c)
  PROVE  ReasonInv'
<1>0. ASSUME Swapped(c), Expire(c) \/ Fill(c) \/ Close(c) \/ Signal(c) \/ Abandon(c)
      PROVE  paper \in Row /\ run[c].now \in Time /\ run[c].pc \in {"track", "settle"}
  BY <1>0, SwappedRow DEF Expire, Fill, Close, Signal, Abandon, Locals
<1>1. CASE Expire(c)
  <2> DEFINE row == [paper EXCEPT !.state = "CLOSED_SIMULATED", !.exitAt = run[c].now,
                                  !.reason = "unfilled"]
  <2>1. Move(c, row, "paper_expired")
    BY <1>1 DEF Expire
  <2>2. Swapped(c) => row.state # "EXIT_SIGNALLED"
    BY <1>0, <1>1 DEF Row
  <2> QED BY <2>1, <2>2, MoveReason DEF Kind
<1>2. CASE Fill(c)
  <2> DEFINE p == IF run[c].seen.instrument = "stock" THEN run[c].spot ELSE QuoteOf(c)
  <2> DEFINE row == [paper EXCEPT !.state = "PAPER_OPEN", !.entryAt = run[c].now, !.entry = p,
                                  !.markAt = run[c].now]
  <2>1. Move(c, row, "paper_fill")
    BY <1>2 DEF Fill
  <2> HIDE DEF p
  <2>2. Swapped(c) => row.state # "EXIT_SIGNALLED"
    BY <1>0, <1>2 DEF Row
  <2> QED BY <2>1, <2>2, MoveReason DEF Kind
<1>3. CASE Close(c)
  <2> DEFINE row == [paper EXCEPT !.state = "CLOSED_SIMULATED", !.exitAt = run[c].now,
                                  !.exit = run[c].price, !.reason = run[c].reason]
  <2>1. Move(c, row, "paper_exit")
    BY <1>3 DEF Close
  <2>2. Swapped(c) => row.state # "EXIT_SIGNALLED"
    BY <1>0, <1>3 DEF Row
  <2> QED BY <2>1, <2>2, MoveReason DEF Kind
<1>4. CASE Signal(c)
  <2> DEFINE row == [paper EXCEPT !.state = "EXIT_SIGNALLED", !.exitAt = run[c].now,
                                  !.reason = run[c].reason]
  <2>1. Move(c, row, "exit_signalled") /\ run[c].pc = "settle"
    BY <1>4 DEF Signal
  <2>2. Swapped(c) => row.reason # "unfilled"
    BY <1>0, <1>4, <2>1 DEF Row, ReasonInv
  <2> QED BY <2>1, <2>2, MoveReason DEF Kind
<1>5. CASE Abandon(c)
  <2> DEFINE row == [paper EXCEPT !.state = "UNRESOLVED"]
  <2>1. Move(c, row, "unresolved")
    BY <1>5 DEF Abandon
  <2>2. Swapped(c) => row.state # "EXIT_SIGNALLED"
    BY <1>0, <1>5 DEF Row
  <2> QED BY <2>1, <2>2, MoveReason DEF Kind
<1> QED BY <1>1, <1>2, <1>3, <1>4, <1>5

LEMMA DecideReason == ASSUME IInv, ReasonInv, NEW c \in Cycle, Decide(c) PROVE ReasonInv'
<1>1. /\ run[c].pc = "track" /\ run[c].seen.state \in {"PAPER_OPEN", "EXIT_SIGNALLED"}
      /\ run[c] \in Locals
  BY SwappedRow DEF Decide
<1>2. PICK b \in BarExits(c), against \in BOOLEAN, quoted \in BOOLEAN :
        IF ExitReason(c, b, against) = None THEN Done(c)
        ELSE run' = [run EXCEPT ![c].reason = ExitReason(c, b, against),
                                ![c].price = ExitPrice(c, b, quoted), ![c].pc = "settle"]
  BY Zenon DEF Decide
<1> DEFINE e == ExitReason(c, b, against)
           p == ExitPrice(c, b, quoted)
           l == [run[c] EXCEPT !.reason = e, !.price = p, !.pc = "settle"]
<1>3. e # "unfilled"
  BY <1>1, DecidedReason
<1>4. paper' # None /\ paper'.state = "EXIT_SIGNALLED" => paper'.reason # "unfilled"
  BY SwappedRow DEF Decide, IInv, TablesOK, Row, ReasonInv, SeenInv
<1> HIDE DEF e, p
<1>5. CASE run' = [run EXCEPT ![c] = Idle]
  BY <1>4, <1>5, IdleType, LocalReason
<1>6. CASE run' = [run EXCEPT ![c] = l]
  <2>1. l.seen = run[c].seen /\ l.reason = e
    BY <1>1 DEF Locals
  <2> QED BY <1>3, <1>4, <1>6, <2>1, LocalReason
<1> QED BY <1>2, <1>5, <1>6 DEF Done, e, p

LEMMA QuietReason ==
  ASSUME IInv, ReasonInv, NEW c \in Cycle,
         \/ Start(c) \/ ReadMarket(c) \/ ReadHeads(c) \/ AppendRec(c) \/ AppendRecEvent(c)
         \/ OpenPaper(c) \/ OpenEvent(c) \/ ReadPapers(c) \/ LeavePending(c) \/ LeaveSignalled(c)
         \/ AppendEvent(c) \/ Crash(c)
  PROVE  ReasonInv'
<1>1. run[c] \in Locals
  BY DEF IInv, TablesOK
<1>2. paper' # None /\ paper'.state = "EXIT_SIGNALLED" => paper'.reason # "unfilled"
  <2>1. paper' = paper \/ \E i \in {"stock", "option"} : paper' = NewRow(c, i)
    BY DEF Start, ReadMarket, ReadHeads, AppendRec, AppendRecEvent, OpenPaper, OpenEvent, ReadPapers,
       LeavePending, LeaveSignalled, AppendEvent, Crash
  <2> QED BY <2>1 DEF ReasonInv, NewRow
<1>3. \E r : /\ run' = [run EXCEPT ![c] = r] /\ r.pc # "settle"
             /\ r.seen = run[c].seen \/ r.seen = paper \/ r.seen = None
  <2>1. CASE \/ Done(c) \/ Goto(c, "append") \/ Goto(c, "recEvent") \/ Goto(c, "open")
             \/ Goto(c, "openEvent") \/ Goto(c, "read")
    BY <1>1, <2>1, IdleType DEF Done, Goto, Locals
  <2>2. CASE Start(c)
    <3> DEFINE r == [run[c] EXCEPT !.now = clock, !.pc = "market"]
    <3>1. run' = [run EXCEPT ![c] = r]
      BY <2>2 DEF Start
    <3>2. r.pc # "settle" /\ r.seen = run[c].seen
      BY <1>1 DEF Locals
    <3> QED BY <3>1, <3>2
  <2>3. CASE ReadMarket(c)
    <3>1. PICK v : run' = [run EXCEPT ![c] = [run[c] EXCEPT !.spot = stored, !.card = v,
                                                !.pc = IF v = None THEN "read" ELSE "heads"]]
      BY <2>3 DEF ReadMarket
    <3> DEFINE r == [run[c] EXCEPT !.spot = stored, !.card = v,
                                   !.pc = IF v = None THEN "read" ELSE "heads"]
    <3>2. r.pc # "settle" /\ r.seen = run[c].seen
      BY <1>1 DEF Locals
    <3> QED BY <3>1, <3>2
  <2>4. CASE ReadHeads(c)
    <3>1. CASE Goto(c, "append")
      BY <2>1, <3>1
    <3>2. ASSUME NEW i, run' = [run EXCEPT ![c] = [run[c] EXCEPT !.head = i,
                         !.pc = IF recs[i].verdict = run[c].card THEN "open" ELSE "append"]]
          PROVE  \E r : /\ run' = [run EXCEPT ![c] = r] /\ r.pc # "settle"
                        /\ r.seen = run[c].seen \/ r.seen = paper \/ r.seen = None
      <4> DEFINE r == [run[c] EXCEPT !.head = i,
                         !.pc = IF recs[i].verdict = run[c].card THEN "open" ELSE "append"]
      <4>1. r.pc # "settle" /\ r.seen = run[c].seen
        BY <1>1 DEF Locals
      <4> QED BY <3>2, <4>1
    <3> QED BY <2>4, <3>1, <3>2 DEF ReadHeads
  <2>5. CASE ReadPapers(c)
    BY <1>1, <2>1, <2>5 DEF ReadPapers, Locals
  <2> QED BY <2>1, <2>2, <2>3, <2>4, <2>5 DEF AppendRec, AppendRecEvent, OpenPaper, OpenEvent,
             LeavePending, LeaveSignalled, AppendEvent, Crash
<1> QED BY <1>2, <1>3, LocalReason

LEMMA NextReason == IInv /\ ReasonInv /\ [Next]_vars => ReasonInv'
<1>1. ASSUME IInv, ReasonInv, NEW c \in Cycle, Step(c) \/ Crash(c) PROVE ReasonInv'
  BY <1>1, QuietReason, MovesReason, DecideReason DEF Step
<1>2. ASSUME ReasonInv, Tick \/ Refresh \/ UNCHANGED vars PROVE ReasonInv'
  BY <1>2 DEF ReasonInv, Tick, Refresh, vars
<1> QED BY <1>1, <1>2 DEF Next

-----------------------------------------------------------------------------
(* Told, owed or lost *)

LEMMA ToldFinite == IsFiniteSet(Told)
<1>1. Told = {"paper_pending"} \union {"paper_fill"} \union {"paper_expired"}
               \union {"exit_signalled"} \union {"paper_exit"} \union {"unresolved"}
  BY DEF Told, Kind
<1> QED BY <1>1, FS_Singleton, FS_Union

LEMMA LostFinite == IsFiniteSet(Lost) /\ Cardinality(Lost) \in Nat
BY ToldFinite, FS_Subset, FS_CardinalityType DEF Lost

LEMMA LostShrinks ==
  ASSUME LossInv, Lost' \subseteq Lost, crashes' = crashes, crashes \in Nat
  PROVE  LossInv'
<1>1. IsFiniteSet(Lost') /\ Cardinality(Lost') <= Cardinality(Lost)
  BY LostFinite, FS_Subset
<1>2. Cardinality(Lost) \in Nat /\ Cardinality(Lost') \in Nat
  BY <1>1, LostFinite, FS_CardinalityType
<1> QED BY <1>1, <1>2 DEF LossInv

(* A step that makes no move, writes no event and owes none before or after. *)
LEMMA QuietHist ==
  ASSUME TablesOK, HistInv, NEW c \in Cycle, \A d \in Cycle : d # c => run'[d] = run[d],
         \A k \in Told : /\ ~OwesAt(run[c], k) /\ ~OwesAt(run'[c], k)
                         /\ events'[k] = events[k]
                         /\ MayHave(paper, k) => MayHave(paper', k)
                         /\ Shows(paper', k) => Shows(paper, k),
         crashes' = crashes
  PROVE  HistInv'
<1>1. \A k \in Told : \A d \in Cycle : Owes(d, k)' <=> Owes(d, k)
  BY DEF Owes
<1>2. ToldInv'
  BY <1>1 DEF HistInv, ToldInv
<1>3. Lost' \subseteq Lost
  BY <1>1 DEF Lost
<1> QED BY <1>2, <1>3, LostShrinks DEF HistInv, TablesOK

(* A step that makes move m, whose event the cycle then owes. *)
LEMMA TakeHist ==
  ASSUME TablesOK, HistInv, NEW c \in Cycle, NEW m \in Told,
         \A d \in Cycle : d # c => run'[d] = run[d],
         ~MayHave(paper, m), MayHave(paper', m), OwesAt(run'[c], m),
         \A k \in Told : /\ ~OwesAt(run[c], k) /\ k # m => ~OwesAt(run'[c], k)
                         /\ ~OwesAt(run[c], k)
                         /\ events'[k] = events[k]
                         /\ MayHave(paper, k) => MayHave(paper', k)
                         /\ k # m /\ Shows(paper', k) => Shows(paper, k),
         crashes' = crashes
  PROVE  HistInv'
<1>1. \A k \in Told : k # m => \A d \in Cycle : Owes(d, k)' <=> Owes(d, k)
  BY DEF Owes
<1>2. \A d \in Cycle : ~Owes(d, m) /\ (Owes(d, m)' <=> d = c)
  BY DEF Owes, HistInv, ToldInv
<1>3. events[m] # 1 /\ events'[m] = events[m]
  BY DEF HistInv, ToldInv
<1>4. ToldInv'
  <2> SUFFICES ASSUME NEW k \in Told
               PROVE  (/\ events[k] <= 1
                       /\ \A d, e \in Cycle : Owes(d, k) /\ Owes(e, k) => d = e
                       /\ events[k] = 1 => \A d \in Cycle : ~Owes(d, k)
                       /\ events[k] = 1 \/ (\E d \in Cycle : Owes(d, k)) => MayHave(paper, k))'
    BY DEF ToldInv
  <2>1. CASE k = m
    BY <1>2, <1>3, <2>1 DEF HistInv, ToldInv
  <2>2. CASE k # m
    BY <1>1, <2>2 DEF HistInv, ToldInv
  <2> QED BY <2>1, <2>2
<1>5. Lost' \subseteq Lost
  <2>1. m \notin Lost'
    BY <1>2 DEF Lost
  <2> QED BY <1>1, <2>1 DEF Lost
<1> QED BY <1>4, <1>5, LostShrinks DEF HistInv, TablesOK

(* A step that writes the event m the cycle owes, and owes nothing after. *)
LEMMA TellHist ==
  ASSUME TablesOK, HistInv, NEW c \in Cycle, NEW m \in Kind,
         \A d \in Cycle : d # c => run'[d] = run[d],
         \A k \in Told : (OwesAt(run[c], k) <=> k = m) /\ ~OwesAt(run'[c], k),
         events' = [events EXCEPT ![m] = @ + 1], paper' = paper, crashes' = crashes
  PROVE  HistInv'
<1>1. \A k \in Told : /\ k # m => (events'[k] = events[k] /\ \A d \in Cycle : Owes(d, k)' <=> Owes(d, k))
                      /\ k = m => events'[k] = events[k] + 1
  BY DEF Owes, TablesOK, Told
<1>2. ASSUME m \in Told
      PROVE  events[m] = 0 /\ MayHave(paper, m) /\ \A d \in Cycle : ~Owes(d, m)'
  <2>1. Owes(c, m)
    BY <1>2 DEF Owes
  <2>2. events[m] = 0
    BY <1>2, <2>1 DEF HistInv, ToldInv, TablesOK, Told
  <2>3. \A d \in Cycle : ~Owes(d, m)'
    BY <1>2, <2>1 DEF Owes, HistInv, ToldInv
  <2> QED BY <1>2, <2>1, <2>2, <2>3 DEF HistInv, ToldInv
<1>3. ToldInv'
  <2> SUFFICES ASSUME NEW k \in Told
               PROVE  (/\ events[k] <= 1
                       /\ \A d, e \in Cycle : Owes(d, k) /\ Owes(e, k) => d = e
                       /\ events[k] = 1 => \A d \in Cycle : ~Owes(d, k)
                       /\ events[k] = 1 \/ (\E d \in Cycle : Owes(d, k)) => MayHave(paper, k))'
    BY DEF ToldInv
  <2>1. CASE k = m
    BY <1>1, <1>2, <2>1
  <2>2. CASE k # m
    BY <1>1, <2>2 DEF HistInv, ToldInv
  <2> QED BY <2>1, <2>2
<1>4. Lost' \subseteq Lost
  BY <1>1, <1>2 DEF Lost
<1> QED BY <1>3, <1>4, LostShrinks DEF HistInv, TablesOK

(* A crash loses the event the cycle owed, if it owed one. *)
LEMMA CrashHist == ASSUME TablesOK, HistInv, NEW c \in Cycle, Crash(c) PROVE HistInv'
<1>1. /\ run'[c] = Idle /\ \A d \in Cycle : d # c => run'[d] = run[d]
      /\ paper' = paper /\ events' = events /\ crashes' = crashes + 1
  BY OthersKeep DEF Crash, Done
<1>2. \A k \in Told, d \in Cycle : Owes(d, k)' <=> d # c /\ Owes(d, k)
  BY <1>1, IdleType DEF Owes, OwesAt
<1>3. ToldInv'
  BY <1>1, <1>2 DEF HistInv, ToldInv
<1>4. PICK m : \A k \in Told : Owes(c, k) => k = m
  BY DEF Owes, OwesAt
<1>5. Lost' \subseteq Lost \union {m}
  BY <1>1, <1>2, <1>4 DEF Lost
<1>6. IsFiniteSet(Lost \union {m}) /\ Cardinality(Lost \union {m}) <= Cardinality(Lost) + 1
  <2>1. /\ IsFiniteSet(Lost \union {m})
        /\ \/ Cardinality(Lost \union {m}) = Cardinality(Lost)
           \/ Cardinality(Lost \union {m}) = Cardinality(Lost) + 1
    BY LostFinite, FS_AddElement, Zenon
  <2> QED BY <2>1, LostFinite
<1>7. IsFiniteSet(Lost') /\ Cardinality(Lost') <= Cardinality(Lost \union {m})
  BY <1>5, <1>6, FS_Subset
<1>8. Cardinality(Lost) \in Nat /\ Cardinality(Lost') \in Nat /\ Cardinality(Lost \union {m}) \in Nat
  BY <1>6, <1>7, LostFinite, FS_CardinalityType
<1>9. LossInv'
  BY <1>1, <1>6, <1>7, <1>8 DEF HistInv, LossInv, TablesOK
<1> QED BY <1>3, <1>9 DEF HistInv

-----------------------------------------------------------------------------
(* The moves *)

(* A successful move owes its event; a failed one ends the cycle. *)
LEMMA MoveHist ==
  ASSUME IInv, HistInv, NEW c \in Cycle, NEW row, NEW m \in Told, Move(c, row, m),
         run[c].pc \in {"track", "settle"},
         Swapped(c) => /\ ~MayHave(paper, m) /\ MayHave(row, m)
                       /\ \A k \in Told : /\ MayHave(paper, k) => MayHave(row, k)
                                          /\ k # m /\ Shows(row, k) => Shows(paper, k)
  PROVE  HistInv'
<1>1. \A k : ~OwesAt(run[c], k)
  BY DEF OwesAt
<1>2. TablesOK /\ events' = events /\ crashes' = crashes /\ run[c] \in Locals
  BY DEF IInv, TablesOK, Move, world
<1>3. CASE Swapped(c)
  <2> DEFINE r == [run[c] EXCEPT !.pc = "event", !.kind = m]
  <2>1. paper' = row /\ run' = [run EXCEPT ![c] = r]
    BY <1>3 DEF Move
  <2>2. r.pc = "event" /\ r.kind = m
    BY <1>2 DEF Locals
  <2>3. run'[c] = r /\ \A d \in Cycle : d # c => run'[d] = run[d]
    BY <2>1, OthersKeep DEF IInv
  <2>4. \A k : OwesAt(run'[c], k) <=> k = m
    BY <2>2, <2>3 DEF OwesAt
  <2> QED BY <1>1, <1>2, <1>3, <2>1, <2>3, <2>4, TakeHist
<1>4. CASE ~Swapped(c)
  <2>1. paper' = paper /\ run' = [run EXCEPT ![c] = Idle]
    BY <1>4 DEF Move, Done
  <2>2. run'[c] = Idle /\ \A d \in Cycle : d # c => run'[d] = run[d]
    BY <2>1, OthersKeep DEF IInv
  <2>3. \A k : ~OwesAt(run'[c], k)
    BY <2>2, IdleType DEF OwesAt
  <2> QED BY <1>1, <1>2, <2>1, <2>2, <2>3, QuietHist
<1> QED BY <1>3, <1>4

(* The row a swap acts on, with what its state says of its fields. *)
LEMMA SwapActs ==
  ASSUME IInv, ReasonInv, NEW c \in Cycle, run[c].pc \in {"track", "settle"}, Swapped(c)
  PROVE  /\ paper \in Row /\ paper # None /\ paper.state = run[c].seen.state
         /\ run[c].now \in Time
         /\ paper.state = "PAPER_PENDING" => paper.entry = None /\ paper.exit = None
                                             /\ paper.reason = None
         /\ paper.state = "PAPER_OPEN" => paper.exit = None /\ paper.reason = None
         /\ paper.state = "EXIT_SIGNALLED" => paper.exit = None /\ paper.reason # None
                                              /\ paper.reason # "unfilled"
BY SwappedRow DEF Locals, IInv, RowInv, ReasonInv

LEMMA ExpireHist == ASSUME IInv, ReasonInv, HistInv, NEW c \in Cycle, Expire(c) PROVE HistInv'
<1> DEFINE row == [paper EXCEPT !.state = "CLOSED_SIMULATED", !.exitAt = run[c].now,
                                !.reason = "unfilled"]
<1>1. run[c].pc = "track" /\ run[c].seen.state = "PAPER_PENDING" /\ Move(c, row, "paper_expired")
  BY DEF Expire
<1>2. ASSUME Swapped(c)
      PROVE  /\ ~MayHave(paper, "paper_expired") /\ MayHave(row, "paper_expired")
             /\ \A k \in Told : /\ MayHave(paper, k) => MayHave(row, k)
                                /\ k # "paper_expired" /\ Shows(row, k) => Shows(paper, k)
  <2>1. /\ paper \in Row /\ paper # None /\ paper.state = "PAPER_PENDING"
        /\ paper.entry = None /\ paper.exit = None /\ paper.reason = None /\ run[c].now \in Time
    BY <1>1, <1>2, SwapActs
  <2>2. /\ row \in Row /\ row # None /\ row.state = "CLOSED_SIMULATED" /\ row.reason = "unfilled"
        /\ row.entry = paper.entry /\ row.exit = paper.exit
    <3>1. /\ row \in Row /\ row.state = "CLOSED_SIMULATED" /\ row.reason = "unfilled"
          /\ row.entry = paper.entry /\ row.exit = paper.exit
      BY <2>1 DEF Row, Reason
    <3> QED BY <3>1, Nones
  <2>3. "unfilled" # None
    BY Nones DEF Reason
  <2> HIDE DEF row
  <2> QED BY <2>1, <2>2, <2>3 DEF MayHave, Shows, Told, Kind
<1> QED BY <1>1, <1>2, MoveHist DEF Told, Kind

LEMMA FillHist == ASSUME IInv, ReasonInv, HistInv, NEW c \in Cycle, Fill(c) PROVE HistInv'
<1> DEFINE p == IF run[c].seen.instrument = "stock" THEN run[c].spot ELSE QuoteOf(c)
<1> DEFINE row == [paper EXCEPT !.state = "PAPER_OPEN", !.entryAt = run[c].now, !.entry = p,
                                !.markAt = run[c].now]
<1>1. /\ run[c].pc = "track" /\ run[c].seen.state = "PAPER_PENDING" /\ Fillable(c)
      /\ Move(c, row, "paper_fill")
  BY DEF Fill
<1>2. p \in Price /\ p # None
  BY <1>1, SwappedRow, FillPrice
<1>3. ASSUME Swapped(c)
      PROVE  /\ ~MayHave(paper, "paper_fill") /\ MayHave(row, "paper_fill")
             /\ \A k \in Told : /\ MayHave(paper, k) => MayHave(row, k)
                                /\ k # "paper_fill" /\ Shows(row, k) => Shows(paper, k)
  <2> HIDE DEF p
  <2>1. /\ paper \in Row /\ paper # None /\ paper.state = "PAPER_PENDING"
        /\ paper.entry = None /\ paper.exit = None /\ paper.reason = None /\ run[c].now \in Time
    BY <1>1, <1>3, SwapActs
  <2>2. /\ row \in Row /\ row # None /\ row.state = "PAPER_OPEN" /\ row.reason = None
        /\ row.entry # None /\ row.exit = None
    <3>1. /\ row \in Row /\ row.state = "PAPER_OPEN" /\ row.reason = paper.reason
          /\ row.entry = p /\ row.exit = paper.exit
      BY <1>2, <2>1 DEF Row, Active
    <3> QED BY <1>2, <2>1, <3>1, Nones
  <2>3. "unfilled" # None
    BY Nones DEF Reason
  <2> HIDE DEF row
  <2> QED BY <2>1, <2>2, <2>3 DEF MayHave, Shows, Told, Kind
<1> QED BY <1>1, <1>3, MoveHist DEF Told, Kind

LEMMA CloseHist == ASSUME IInv, ReasonInv, HistInv, NEW c \in Cycle, Close(c) PROVE HistInv'
<1> DEFINE row == [paper EXCEPT !.state = "CLOSED_SIMULATED", !.exitAt = run[c].now,
                                !.exit = run[c].price, !.reason = run[c].reason]
<1>1. run[c].pc = "settle" /\ run[c].price # None /\ Move(c, row, "paper_exit")
  BY DEF Close
<1>2. /\ run[c].seen.state \in {"PAPER_OPEN", "EXIT_SIGNALLED"}
      /\ run[c].reason \in Reason /\ run[c].reason # "unfilled"
  BY <1>1 DEF IInv, SettleInv, ReasonInv
<1>3. ASSUME Swapped(c)
      PROVE  /\ ~MayHave(paper, "paper_exit") /\ MayHave(row, "paper_exit")
             /\ \A k \in Told : /\ MayHave(paper, k) => MayHave(row, k)
                                /\ k # "paper_exit" /\ Shows(row, k) => Shows(paper, k)
  <2>1. /\ paper \in Row /\ paper # None /\ paper.state \in {"PAPER_OPEN", "EXIT_SIGNALLED"}
        /\ paper.exit = None /\ paper.reason # "unfilled" /\ run[c].now \in Time
    BY <1>1, <1>2, <1>3, SwapActs, Nones DEF Reason
  <2>2. run[c].price \in Price
    BY <1>1 DEF IInv, TablesOK, Locals
  <2>3. /\ row \in Row /\ row # None /\ row.state = "CLOSED_SIMULATED" /\ row.reason = run[c].reason
        /\ row.entry = paper.entry /\ row.exit # None
    <3>1. /\ row \in Row /\ row.state = "CLOSED_SIMULATED" /\ row.reason = run[c].reason
          /\ row.entry = paper.entry /\ row.exit = run[c].price
      BY <1>2, <2>1, <2>2 DEF Row
    <3> QED BY <1>1, <3>1, Nones
  <2> HIDE DEF row
  <2> QED BY <1>2, <2>1, <2>3 DEF MayHave, Shows, Told, Kind
<1> QED BY <1>1, <1>3, MoveHist DEF Told, Kind

LEMMA SignalHist == ASSUME IInv, ReasonInv, HistInv, NEW c \in Cycle, Signal(c) PROVE HistInv'
<1> DEFINE row == [paper EXCEPT !.state = "EXIT_SIGNALLED", !.exitAt = run[c].now,
                                !.reason = run[c].reason]
<1>1. run[c].pc = "settle" /\ run[c].seen.state = "PAPER_OPEN" /\ Move(c, row, "exit_signalled")
  BY DEF Signal
<1>2. run[c].reason \in Reason /\ run[c].reason # "unfilled"
  BY <1>1 DEF IInv, SettleInv, ReasonInv
<1>3. ASSUME Swapped(c)
      PROVE  /\ ~MayHave(paper, "exit_signalled") /\ MayHave(row, "exit_signalled")
             /\ \A k \in Told : /\ MayHave(paper, k) => MayHave(row, k)
                                /\ k # "exit_signalled" /\ Shows(row, k) => Shows(paper, k)
  <2>1. /\ paper \in Row /\ paper # None /\ paper.state = "PAPER_OPEN"
        /\ paper.exit = None /\ paper.reason # "unfilled" /\ run[c].now \in Time
    BY <1>1, <1>3, SwapActs, Nones DEF Reason
  <2>2. /\ row \in Row /\ row # None /\ row.state = "EXIT_SIGNALLED" /\ row.reason = run[c].reason
        /\ row.entry = paper.entry /\ row.exit = paper.exit
    <3>1. /\ row \in Row /\ row.state = "EXIT_SIGNALLED" /\ row.reason = run[c].reason
          /\ row.entry = paper.entry /\ row.exit = paper.exit
      BY <1>2, <2>1 DEF Row, Active
    <3> QED BY <3>1, Nones
  <2> HIDE DEF row
  <2> QED BY <1>2, <2>1, <2>2 DEF MayHave, Shows, Told, Kind
<1> QED BY <1>1, <1>3, MoveHist DEF Told, Kind

LEMMA AbandonHist == ASSUME IInv, ReasonInv, HistInv, NEW c \in Cycle, Abandon(c) PROVE HistInv'
<1> DEFINE row == [paper EXCEPT !.state = "UNRESOLVED"]
<1>1. run[c].pc = "settle" /\ run[c].seen.state = "EXIT_SIGNALLED" /\ Move(c, row, "unresolved")
  BY DEF Abandon
<1>2. ASSUME Swapped(c)
      PROVE  /\ ~MayHave(paper, "unresolved") /\ MayHave(row, "unresolved")
             /\ \A k \in Told : /\ MayHave(paper, k) => MayHave(row, k)
                                /\ k # "unresolved" /\ Shows(row, k) => Shows(paper, k)
  <2>1. /\ paper \in Row /\ paper # None /\ paper.state = "EXIT_SIGNALLED"
        /\ paper.reason # "unfilled"
    BY <1>1, <1>2, SwapActs
  <2>2. /\ row \in Row /\ row # None /\ row.state = "UNRESOLVED" /\ row.reason = paper.reason
        /\ row.entry = paper.entry /\ row.exit = paper.exit
    BY <2>1, Nones DEF Row
  <2> HIDE DEF row
  <2> QED BY <2>1, <2>2 DEF MayHave, Shows, Told, Kind
<1> QED BY <1>1, <1>2, MoveHist DEF Told, Kind

-----------------------------------------------------------------------------
(* The other steps of a cycle *)

LEMMA PublishHist ==
  ASSUME IInv, HistInv, NEW c \in Cycle, OpenPaper(c), paper' # paper PROVE HistInv'
<1>1. PICK i \in {"stock", "option"} : paper' = NewRow(c, i)
  BY DEF OpenPaper
<1>2. paper = None /\ run' = [run EXCEPT ![c] = [run[c] EXCEPT !.pc = "openEvent"]]
      /\ run[c].pc = "open" /\ UNCHANGED <<world, recs, events>>
  BY DEF OpenPaper, Goto
<1>3. run'[c].pc = "openEvent" /\ \A d \in Cycle : d # c => run'[d] = run[d]
  BY <1>2 DEF IInv, TablesOK, Locals
<1>4. paper' \in Row
  BY <1>1 DEF IInv, TablesOK, NewRow, Row, Active, Locals
<1>5. /\ paper' # None /\ paper'.state = "PAPER_PENDING" /\ paper'.entry = None
      /\ paper'.exit = None /\ paper'.reason = None
  BY <1>1, <1>4, Nones DEF NewRow
<1>6. "unfilled" # None
  BY Nones DEF Reason
<1>7. /\ MayHave(paper', "paper_pending") /\ \A k \in Told : ~MayHave(paper, k)
      /\ \A k \in Told : k # "paper_pending" => ~Shows(paper', k)
  BY <1>2, <1>5, <1>6 DEF MayHave, Shows, Told, Kind
<1>8. OwesAt(run'[c], "paper_pending")
  BY <1>3 DEF OwesAt
<1>9. \A k \in Told : ~OwesAt(run[c], k) /\ (k # "paper_pending" => ~OwesAt(run'[c], k))
  BY <1>2, <1>3 DEF OwesAt
<1>10. "paper_pending" \in Told /\ TablesOK /\ events' = events /\ crashes' = crashes
  BY <1>2 DEF Told, Kind, world, IInv
<1> QED BY <1>3, <1>7, <1>8, <1>9, <1>10, TakeHist

LEMMA EventHist ==
  ASSUME IInv, HistInv, NEW c \in Cycle, OpenEvent(c) \/ AppendEvent(c) PROVE HistInv'
<1>1. TablesOK /\ run[c] \in Locals
  BY DEF IInv, TablesOK
<1>2. CASE OpenEvent(c)
  <2>1. /\ run' = [run EXCEPT ![c] = [run[c] EXCEPT !.pc = "read"]] /\ run[c].pc = "openEvent"
        /\ events' = [events EXCEPT !["paper_pending"] = @ + 1]
        /\ paper' = paper /\ crashes' = crashes
    BY <1>2 DEF OpenEvent, Goto, world
  <2>2. run'[c].pc = "read" /\ \A d \in Cycle : d # c => run'[d] = run[d]
    BY <1>1, <2>1 DEF TablesOK, Locals
  <2>3. \A k \in Told : (OwesAt(run[c], k) <=> k = "paper_pending") /\ ~OwesAt(run'[c], k)
    BY <2>1, <2>2 DEF OwesAt
  <2> QED BY <1>1, <2>1, <2>2, <2>3, TellHist DEF Kind
<1>3. CASE AppendEvent(c)
  <2>1. /\ run' = [run EXCEPT ![c] = Idle] /\ run[c].pc = "event"
        /\ events' = [events EXCEPT ![run[c].kind] = @ + 1]
        /\ paper' = paper /\ crashes' = crashes
    BY <1>3 DEF AppendEvent, Done, world
  <2>2. run'[c] = Idle /\ \A d \in Cycle : d # c => run'[d] = run[d]
    BY <2>1, OthersKeep DEF IInv
  <2>3. \A k \in Told : (OwesAt(run[c], k) <=> k = run[c].kind) /\ ~OwesAt(run'[c], k)
    BY <2>1, <2>2, IdleType DEF OwesAt
  <2>4. run[c].kind \in Kind
    BY <1>1 DEF Locals
  <2> QED BY <1>1, <2>1, <2>2, <2>3, <2>4, TellHist
<1> QED BY <1>2, <1>3

LEMMA QuietHists ==
  ASSUME IInv, HistInv, NEW c \in Cycle,
         \/ Start(c) \/ ReadMarket(c) \/ ReadHeads(c) \/ AppendRec(c) \/ AppendRecEvent(c)
         \/ (OpenPaper(c) /\ paper' = paper) \/ ReadPapers(c) \/ LeavePending(c)
         \/ LeaveSignalled(c) \/ Decide(c)
  PROVE  HistInv'
<1>1. TablesOK /\ run[c] \in Locals
  BY DEF IInv, TablesOK
<1>2. crashes' = crashes /\ \A k \in Told : events'[k] = events[k]
  BY <1>1 DEF Start, ReadMarket, ReadHeads, AppendRec, AppendRecEvent, OpenPaper, ReadPapers,
     LeavePending, LeaveSignalled, Decide, world, TablesOK, Told
<1>3. run[c].pc \notin {"event", "openEvent"}
  BY DEF Start, ReadMarket, ReadHeads, AppendRec, AppendRecEvent, OpenPaper, ReadPapers,
     LeavePending, LeaveSignalled, Decide
<1>4. run'[c].pc \notin {"event", "openEvent"} /\ \A d \in Cycle : d # c => run'[d] = run[d]
  <2>1. CASE \/ Done(c) \/ Goto(c, "append") \/ Goto(c, "recEvent") \/ Goto(c, "open")
             \/ Goto(c, "read")
    BY <1>1, <2>1, IdleType DEF TablesOK, Done, Goto, Locals
  <2>2. CASE Start(c)
    BY <1>1, <2>2 DEF TablesOK, Start, Locals
  <2>3. CASE ReadMarket(c)
    <3>1. PICK v : run' = [run EXCEPT ![c] = [run[c] EXCEPT !.spot = stored, !.card = v,
                                                !.pc = IF v = None THEN "read" ELSE "heads"]]
      BY <2>3 DEF ReadMarket
    <3> QED BY <1>1, <3>1 DEF TablesOK, Locals
  <2>4. CASE ReadHeads(c)
    <3>1. \/ Goto(c, "append")
          \/ \E i : run' = [run EXCEPT ![c] = [run[c] EXCEPT !.head = i,
                              !.pc = IF recs[i].verdict = run[c].card THEN "open" ELSE "append"]]
      BY <2>4 DEF ReadHeads
    <3> QED BY ZenonT(60), <1>1, <2>1, <3>1 DEF TablesOK, Locals
  <2>5. CASE ReadPapers(c)
    BY <1>1, <2>1, <2>5 DEF TablesOK, ReadPapers, Locals
  <2>6. CASE Decide(c)
    <3>1. PICK b \in BarExits(c), against \in BOOLEAN, quoted \in BOOLEAN :
            IF ExitReason(c, b, against) = None THEN Done(c)
            ELSE run' = [run EXCEPT ![c].reason = ExitReason(c, b, against),
                                    ![c].price = ExitPrice(c, b, quoted), ![c].pc = "settle"]
      BY <2>6, Zenon DEF Decide
    <3> QED BY <1>1, <2>1, <3>1 DEF TablesOK, Locals
  <2>7. CASE \/ AppendRec(c) \/ AppendRecEvent(c) \/ (OpenPaper(c) /\ paper' = paper)
             \/ LeavePending(c) \/ LeaveSignalled(c)
    <3>1. \/ Done(c) \/ Goto(c, "recEvent") \/ Goto(c, "open") \/ Goto(c, "read")
          \/ (paper = None /\ \E i \in {"stock", "option"} : paper' = NewRow(c, i) /\ paper' = paper)
      BY <2>7 DEF AppendRec, AppendRecEvent, OpenPaper, LeavePending, LeaveSignalled
    <3>2. \A i \in {"stock", "option"} : NewRow(c, i) \in Row
      BY <1>1 DEF NewRow, Row, Active, Locals
    <3> QED BY <2>1, <3>1, <3>2, Nones
  <2> QED BY <2>2, <2>3, <2>4, <2>5, <2>6, <2>7
<1>5. \A k \in Told : ~OwesAt(run[c], k) /\ ~OwesAt(run'[c], k)
  BY <1>3, <1>4 DEF OwesAt
<1>6. \A k \in Told : (MayHave(paper', k) <=> MayHave(paper, k)) /\ (Shows(paper', k) <=> Shows(paper, k))
  <2>1. CASE paper' = paper
    BY <2>1
  <2>2. CASE Decide(c) /\ paper' # paper
    <3>1. paper \in Row /\ paper # None /\ run[c].now \in Time
      BY <1>1, <2>2, SwappedRow DEF Decide, IInv, SeenInv, TablesOK, Locals
    <3>2. paper' = [paper EXCEPT !.markAt = run[c].now]
      BY <2>2 DEF Decide
    <3>3. [paper EXCEPT !.markAt = run[c].now] \in Row
      BY <3>1 DEF Row
    <3>4. /\ paper' # None /\ paper'.state = paper.state /\ paper'.entry = paper.entry
          /\ paper'.exit = paper.exit /\ paper'.reason = paper.reason
      BY <3>1, <3>2, <3>3, Nones DEF Row
    <3> QED BY <3>1, <3>4 DEF MayHave, Shows
  <2> QED BY <2>1, <2>2 DEF Start, ReadMarket, ReadHeads, AppendRec, AppendRecEvent, OpenPaper,
             ReadPapers, LeavePending, LeaveSignalled
<1> QED BY <1>1, <1>2, <1>4, <1>5, <1>6, QuietHist

LEMMA NextHist == IInv /\ ReasonInv /\ HistInv /\ [Next]_vars => HistInv'
<1> SUFFICES ASSUME IInv, ReasonInv, HistInv, [Next]_vars PROVE HistInv'
  OBVIOUS
<1>1. ASSUME NEW c \in Cycle, Step(c) \/ Crash(c) PROVE HistInv'
  BY <1>1, ExpireHist, FillHist, CloseHist, SignalHist, AbandonHist, PublishHist, EventHist,
     QuietHists, CrashHist DEF Step, IInv
<1>2. CASE Tick \/ Refresh \/ UNCHANGED vars
  <2>1. UNCHANGED <<paper, events, run, crashes>>
    BY <1>2 DEF Tick, Refresh, vars
  <2>2. Lost' = Lost /\ \A k, c : Owes(c, k)' <=> Owes(c, k)
    BY <2>1 DEF Lost, Owes
  <2> QED BY <2>1, <2>2 DEF HistInv, ToldInv, LossInv
<1> QED BY <1>1, <1>2 DEF Next

LEMMA InitHist == Init => ReasonInv /\ HistInv
<1> SUFFICES ASSUME Init PROVE ReasonInv /\ HistInv
  OBVIOUS
<1>1. paper = None /\ crashes = 0 /\ (\A k \in Told : events[k] = 0) /\ \A c \in Cycle : run[c] = Idle
  BY DEF Init, Told
<1>2. ReasonInv
  BY <1>1, IdleType DEF ReasonInv
<1>3. ToldInv
  BY <1>1, IdleType DEF ToldInv, Owes, OwesAt
<1>4. Lost = {}
  BY <1>1 DEF Lost, Shows, MayHave
<1> QED BY <1>1, <1>2, <1>3, <1>4, FS_EmptySet DEF HistInv, LossInv

(* Whatever cycles interleave and however often they crash, the events tell each move once and
   only moves that were made; the moves they do not tell are at most as many as the crashes. *)
THEOREM HistoryCompleteHolds == Spec => []HistoryComplete
<1>1. IInv /\ HistInv => HistoryComplete
  <2> SUFFICES ASSUME IInv, HistInv, \A c \in Cycle : run[c].pc = "idle"
               PROVE  /\ \A k \in Told : events[k] <= 1 /\ (events[k] = 1 => MayHave(paper, k))
                      /\ Cardinality({k \in Told : Shows(paper, k) /\ events[k] = 0}) <= crashes
    BY DEF HistoryComplete
  <2>1. \A c \in Cycle, k \in Told : ~Owes(c, k)
    BY DEF Owes, OwesAt
  <2>2. Lost = {k \in Told : Shows(paper, k) /\ events[k] = 0}
    BY <2>1 DEF Lost
  <2> QED BY <2>2 DEF HistInv, ToldInv, LossInv
<1>2. Init => IInv /\ ReasonInv /\ HistInv
  BY InitIInv, InitHist
<1>3. (IInv /\ ReasonInv /\ HistInv) /\ [Next]_vars => (IInv /\ ReasonInv /\ HistInv)'
  BY NextIInv, NextReason, NextHist
<1> QED BY <1>1, <1>2, <1>3, PTL DEF Spec

-----------------------------------------------------------------------------
(* What a step does to the time, the spot and the record a cycle goes by *)

Keeps(c) == run'[c].now = run[c].now /\ run'[c].spot = run[c].spot
Before == {"idle", "market", "heads"}

LEMMA StepLocals ==
  ASSUME IInv, NEW c \in Cycle, Step(c) \/ Crash(c)
  PROVE  /\ \A d \in Cycle : d # c => run'[d] = run[d]
         /\ clock' = clock /\ stored' = stored
         /\ \/ run'[c] = Idle
            \/ /\ run[c].pc = "idle" /\ run'[c].pc = "market" /\ run'[c].now = clock
               /\ run'[c].spot = run[c].spot /\ run'[c].head = run[c].head
            \/ /\ run[c].pc = "market" /\ run'[c].pc \in {"read", "heads"}
               /\ run'[c].now = run[c].now /\ run'[c].spot = stored
               /\ run'[c].head = run[c].head
            \/ /\ run[c].pc = "heads" /\ run'[c].pc \in {"append", "open"} /\ Keeps(c)
            \/ /\ run[c].pc \notin Before \union {"event"}
               /\ run'[c].pc \notin Before \union {"append"}
               /\ Keeps(c) /\ run'[c].head = run[c].head
<1>1. run[c] \in Locals /\ run \in [Cycle -> Locals]
  BY DEF IInv, TablesOK
<1>2. CASE Done(c) /\ UNCHANGED <<clock, stored>>
  BY <1>1, <1>2 DEF Done
<1>3. CASE Start(c)
  BY <1>1, <1>3 DEF Start, Locals, world
<1>4. CASE ReadMarket(c)
  <2>1. PICK v : run' = [run EXCEPT ![c] = [run[c] EXCEPT !.spot = stored, !.card = v,
                                              !.pc = IF v = None THEN "read" ELSE "heads"]]
    BY <1>4 DEF ReadMarket
  <2> QED BY <1>1, <1>4, <2>1 DEF ReadMarket, Locals, world
<1>5. CASE ReadHeads(c)
  <2>1. \/ Goto(c, "append")
        \/ \E i : run' = [run EXCEPT ![c] = [run[c] EXCEPT !.head = i,
                            !.pc = IF recs[i].verdict = run[c].card THEN "open" ELSE "append"]]
    BY <1>5 DEF ReadHeads
  <2>2. run[c].pc = "heads" /\ clock' = clock /\ stored' = stored
    BY <1>5 DEF ReadHeads, world
  <2>3. CASE Goto(c, "append")
    BY <1>1, <2>2, <2>3 DEF Goto, Locals, Keeps
  <2>4. CASE \E i : run' = [run EXCEPT ![c] = [run[c] EXCEPT !.head = i,
                              !.pc = IF recs[i].verdict = run[c].card THEN "open" ELSE "append"]]
    <3>1. PICK i : run' = [run EXCEPT ![c] = [run[c] EXCEPT !.head = i,
                              !.pc = IF recs[i].verdict = run[c].card THEN "open" ELSE "append"]]
      BY <2>4
    <3> QED BY <1>1, <2>2, <3>1 DEF Locals, Keeps
  <2> QED BY <2>1, <2>3, <2>4
<1>6. CASE /\ run[c].pc \notin Before \union {"event"} /\ UNCHANGED <<clock, stored>>
           /\ \/ Goto(c, "recEvent") \/ Goto(c, "open") \/ Goto(c, "openEvent") \/ Goto(c, "read")
  BY <1>1, <1>6 DEF Goto, Locals, Keeps, Before
<1>7. CASE ReadPapers(c)
  BY <1>1, <1>2, <1>7 DEF ReadPapers, Locals, Keeps, Before, world
<1>8. CASE \E row, k : Move(c, row, k) /\ run[c].pc \notin Before \union {"event"}
  <2>1. UNCHANGED <<clock, stored>>
    BY <1>8 DEF Move, world
  <2>2. Done(c) \/ \E k : run' = [run EXCEPT ![c] = [run[c] EXCEPT !.pc = "event", !.kind = k]]
    BY <1>8, Zenon DEF Move
  <2> QED BY ZenonT(60), <1>1, <1>2, <1>8, <2>1, <2>2 DEF Locals, Keeps, Before
<1>9. CASE Decide(c)
  <2>1. PICK b \in BarExits(c), against \in BOOLEAN, quoted \in BOOLEAN :
          IF ExitReason(c, b, against) = None THEN Done(c)
          ELSE run' = [run EXCEPT ![c].reason = ExitReason(c, b, against),
                                  ![c].price = ExitPrice(c, b, quoted), ![c].pc = "settle"]
    BY <1>9, Zenon DEF Decide
  <2>2. run[c].pc = "track" /\ UNCHANGED <<clock, stored>>
    BY <1>9 DEF Decide, world
  <2> QED BY <1>1, <1>2, <2>1, <2>2 DEF Locals, Keeps, Before
<1>10. CASE Crash(c) \/ AppendEvent(c) \/ LeavePending(c) \/ LeaveSignalled(c)
  BY <1>2, <1>10 DEF Crash, AppendEvent, LeavePending, LeaveSignalled, world
<1>11. CASE AppendRec(c) \/ AppendRecEvent(c) \/ OpenPaper(c) \/ OpenEvent(c)
  BY <1>6, <1>11 DEF AppendRec, AppendRecEvent, OpenPaper, OpenEvent, world, Before
<1>12. CASE Expire(c) \/ Fill(c) \/ Close(c) \/ Signal(c) \/ Abandon(c)
  BY <1>8, <1>12 DEF Expire, Fill, Close, Signal, Abandon, Before
<1> QED BY <1>3, <1>4, <1>5, <1>7, <1>9, <1>10, <1>11, <1>12 DEF Step

-----------------------------------------------------------------------------
(* What the history says of a step *)

(* As long as no record crossed another: who appends was not late, and who was late, or rests
   while a record is appended, is late. *)
LEMMA WatchRec ==
  ASSUME Watch
  PROVE  /\ crossed.rec => crossed'.rec
         /\ \A c \in Cycle :
              /\ run'[c] # run[c] /\ recs' # recs /\ c \in late.rec => crossed'.rec
              /\ run'[c].pc \in Recording /\ c \in late.rec => c \in late'.rec
              /\ run'[c].pc \in Recording /\ run'[c] = run[c] /\ recs' # recs => c \in late'.rec
BY Zenon DEF Watch

(* The same of the writes to the position, and of its fill. *)
LEMMA WatchFill ==
  ASSUME Watch
  PROVE  /\ crossed.fill => crossed'.fill
         /\ \A c \in Cycle :
              /\ run'[c] # run[c] /\ paper' # paper /\ c \in late.fill => crossed'.fill
              /\ run'[c].pc \in Moving /\ c \in late.fill => c \in late'.fill
              /\ run'[c].pc \in Moving /\ run'[c] = run[c] /\ Entry(paper') # Entry(paper) =>
                   c \in late'.fill
BY Zenon DEF Watch

-----------------------------------------------------------------------------
(* The recommendation records *)

\* A record supersedes an earlier one of another verdict, or none.
RecsLinked ==
  \A i \in 1..Len(recs) :
    /\ recs[i].supersedes \in 0..(i - 1)
    /\ recs[i].supersedes > 0 => recs[recs[i].supersedes].verdict # recs[i].verdict

\* The record a cycle is about to supersede has another verdict than its card.
LinkInv ==
  /\ RecsLinked
  /\ \A c \in Cycle :
       /\ run[c].pc \in Before => run[c].head = 0
       /\ run[c].pc = "append" =>
            /\ run[c].head <= Len(recs)
            /\ run[c].head > 0 => recs[run[c].head].verdict # run[c].card

\* As long as no cycle appends behind another's back, the newest record is the last one, and the
\* one that a cycle which is not late supersedes.
OrderInv ==
  /\ \A c \in Cycle : run[c].now <= clock
  /\ ~crossed.rec =>
       /\ \A i \in 1..Len(recs) :
            /\ recs[i].supersedes = i - 1
            /\ recs[i].created <= clock /\ recs[i].created <= recs[Len(recs)].created
       /\ \A c \in Cycle : run[c].pc \in Recording /\ c \notin late.rec =>
            /\ \A i \in 1..Len(recs) : recs[i].created <= run[c].now
            /\ run[c].pc = "append" => run[c].head = Len(recs)

LEMMA RecsKept ==
  ASSUME NEW c \in Cycle, Step(c) \/ Crash(c), ~AppendRec(c) PROVE recs' = recs
BY DEF Step, Crash, Start, ReadMarket, ReadHeads, AppendRecEvent, OpenPaper, OpenEvent, ReadPapers,
   Expire, Fill, LeavePending, Decide, Close, Signal, Abandon, LeaveSignalled, AppendEvent, Move

(* A cycle that goes on to append a record found none, or a newest one of another verdict. *)
LEMMA ChosenHead ==
  ASSUME IInv, NEW c \in Cycle, ReadHeads(c), run'[c].pc = "append"
  PROVE  \/ recs = <<>> /\ run'[c].head = run[c].head
         \/ /\ run'[c].head \in Newest
            /\ recs[run'[c].head].verdict # run'[c].card
<1>1. run[c] \in Locals /\ run \in [Cycle -> Locals]
  BY DEF IInv, TablesOK
<1>2. CASE recs = <<>> /\ Goto(c, "append")
  BY <1>1, <1>2 DEF Goto, Locals
<1>3. CASE \E i \in Newest : run' = [run EXCEPT ![c] = [run[c] EXCEPT !.head = i,
                               !.pc = IF recs[i].verdict = run[c].card THEN "open" ELSE "append"]]
  <2>1. PICK i \in Newest : run' = [run EXCEPT ![c] = [run[c] EXCEPT !.head = i,
                               !.pc = IF recs[i].verdict = run[c].card THEN "open" ELSE "append"]]
    BY <1>3
  <2>2. /\ run'[c].head = i /\ run'[c].card = run[c].card
        /\ run'[c].pc = IF recs[i].verdict = run[c].card THEN "open" ELSE "append"
    BY <1>1, <2>1 DEF Locals
  <2>3. recs[i].verdict # run[c].card
    BY <2>2
  <2> QED BY <2>1, <2>2, <2>3
<1> QED BY <1>2, <1>3 DEF ReadHeads

(* Where a cycle stands with respect to the records: a consequence of the two lemmas above. *)
LEMMA HeadsStep ==
  ASSUME IInv, LinkInv, NEW c \in Cycle, Step(c) \/ Crash(c)
  PROVE  /\ run'[c].pc \in Before => run'[c].head = 0
         /\ run'[c].pc = "append" =>
              /\ recs' = recs
              /\ \/ recs = <<>> /\ run'[c].head = 0
                 \/ /\ run'[c].head \in Newest
                    /\ recs[run'[c].head].verdict # run'[c].card
<1>1. run'[c].pc \in Before => run'[c].head = 0
  BY StepLocals DEF LinkInv, Before, Idle
<1>2. ASSUME run'[c].pc = "append"
      PROVE  /\ recs' = recs
             /\ \/ recs = <<>> /\ run'[c].head = 0
                \/ /\ run'[c].head \in Newest
                   /\ recs[run'[c].head].verdict # run'[c].card
  <2>1. run[c].pc = "heads"
    BY <1>2, StepLocals, IdleType
  <2>2. ReadHeads(c) /\ ~AppendRec(c)
    <3>1. ~Crash(c)
      BY <1>2, OthersKeep, IdleType DEF Crash, Done, IInv
    <3>2. ~Done(c)
      BY <1>2, OthersKeep, IdleType DEF Done, IInv
    <3> QED BY <2>1, <3>1 DEF Step, Start, ReadMarket, AppendRec, AppendRecEvent, OpenPaper,
               OpenEvent, ReadPapers, Expire, Fill, LeavePending, Decide, Close, Signal, Abandon,
               LeaveSignalled, AppendEvent
  <2>3. run[c].head = 0
    BY <2>1 DEF LinkInv, Before
  <2> QED BY <1>2, <2>2, <2>3, ChosenHead, RecsKept
<1> QED BY <1>1, <1>2

(* What an appended record is. *)
LEMMA Appended ==
  ASSUME IInv, NEW c \in Cycle, AppendRec(c)
  PROVE  /\ recs \in Seq(Rec) /\ Len(recs') = Len(recs) + 1
         /\ \A i \in 1..Len(recs) : recs'[i] = recs[i]
         /\ recs'[Len(recs) + 1].verdict = run[c].card
         /\ recs'[Len(recs) + 1].created = run[c].now
         /\ recs'[Len(recs) + 1].supersedes = run[c].head
         /\ run[c].pc = "append" /\ run'[c].pc = "recEvent"
         /\ run'[c].now = run[c].now
<1> DEFINE rec == [verdict |-> run[c].card, created |-> run[c].now, supersedes |-> run[c].head]
<1>1. run[c] \in Locals /\ run \in [Cycle -> Locals] /\ recs \in Seq(Rec)
  BY DEF IInv, TablesOK
<1>2. recs' = Append(recs, rec) /\ run[c].pc = "append"
  BY DEF AppendRec
<1>3. run'[c].pc = "recEvent" /\ run'[c].now = run[c].now
  BY <1>1 DEF AppendRec, Goto, Locals
<1>4. rec \in Rec
  BY <1>1, <1>2 DEF IInv, CardInv, Rec, Locals
<1>5. /\ Len(recs') = Len(recs) + 1 /\ recs'[Len(recs) + 1] = rec
      /\ \A i \in 1..Len(recs) : recs'[i] = recs[i]
  <2> HIDE DEF rec
  <2> QED BY <1>1, <1>2, <1>4
<1> QED BY <1>1, <1>2, <1>3, <1>5

LEMMA AppendLinks == ASSUME IInv, LinkInv, NEW c \in Cycle, AppendRec(c) PROVE LinkInv'
<1>1. /\ recs \in Seq(Rec) /\ Len(recs') = Len(recs) + 1 /\ Len(recs) \in Nat
      /\ \A i \in 1..Len(recs) : recs'[i] = recs[i]
      /\ recs'[Len(recs) + 1].verdict = run[c].card
      /\ recs'[Len(recs) + 1].supersedes = run[c].head
      /\ run[c].pc = "append" /\ run'[c].pc = "recEvent"
  BY Appended
<1>2. \A d \in Cycle : d # c => run'[d] = run[d]
  BY StepLocals DEF Step
<1>3. /\ run[c].head \in 0..Len(recs)
      /\ run[c].head > 0 => recs[run[c].head].verdict # run[c].card
  BY <1>1 DEF IInv, TablesOK, Locals, LinkInv
<1>4. RecsLinked'
  <2> SUFFICES ASSUME NEW i \in 1..Len(recs')
               PROVE  /\ recs'[i].supersedes \in 0..(i - 1)
                      /\ recs'[i].supersedes > 0 =>
                           recs'[recs'[i].supersedes].verdict # recs'[i].verdict
    BY DEF RecsLinked
  <2>1. CASE i = Len(recs) + 1
    BY <1>1, <1>3, <2>1
  <2>2. CASE i \in 1..Len(recs)
    <3>1. /\ recs[i].supersedes \in 0..(i - 1)
          /\ recs[i].supersedes > 0 => recs[recs[i].supersedes].verdict # recs[i].verdict
      BY <2>2 DEF LinkInv, RecsLinked
    <3> QED BY <1>1, <2>2, <3>1
  <2> QED BY <1>1, <2>1, <2>2
<1>5. ASSUME NEW d \in Cycle
      PROVE  /\ run'[d].pc \in Before => run'[d].head = 0
             /\ run'[d].pc = "append" =>
                  /\ run'[d].head <= Len(recs')
                  /\ run'[d].head > 0 => recs'[run'[d].head].verdict # run'[d].card
  <2>1. CASE d = c
    BY <1>1, <2>1 DEF Before
  <2>2. CASE d # c
    <3>1. run'[d] = run[d] /\ run[d].head \in Nat
      BY <1>2, <2>2 DEF IInv, TablesOK, Locals
    <3> QED BY <1>1, <3>1 DEF LinkInv
  <2> QED BY <2>1, <2>2
<1> QED BY <1>4, <1>5 DEF LinkInv

LEMMA NextLink == IInv /\ LinkInv /\ [Next]_vars => LinkInv'
<1> SUFFICES ASSUME IInv, LinkInv, [Next]_vars PROVE LinkInv'
  OBVIOUS
<1>1. ASSUME NEW c \in Cycle, Step(c) \/ Crash(c), ~AppendRec(c) PROVE LinkInv'
  <2>1. recs' = recs /\ \A d \in Cycle : d # c => run'[d] = run[d]
    BY <1>1, RecsKept, StepLocals
  <2>2. run'[c].pc \in Before => run'[c].head = 0
    BY <1>1, HeadsStep
  <2>3. ASSUME run'[c].pc = "append"
        PROVE  /\ run'[c].head <= Len(recs)
               /\ run'[c].head > 0 => recs[run'[c].head].verdict # run'[c].card
    <3>1. \/ recs = <<>> /\ run'[c].head = 0
          \/ /\ run'[c].head \in 1..Len(recs)
             /\ recs[run'[c].head].verdict # run'[c].card
      BY <1>1, <2>3, HeadsStep DEF Newest
    <3> QED BY <3>1
  <2> QED BY <2>1, <2>2, <2>3 DEF LinkInv, RecsLinked
<1>2. CASE Tick \/ Refresh \/ UNCHANGED vars
  <2>1. recs' = recs /\ run' = run
    BY <1>2 DEF Tick, Refresh, vars
  <2> QED BY <2>1 DEF LinkInv, RecsLinked
<1>3. ASSUME NEW c \in Cycle, AppendRec(c) PROVE LinkInv'
  BY <1>3, AppendLinks
<1> QED BY <1>1, <1>2, <1>3 DEF Next

LEMMA InitLink == Init => LinkInv
BY IdleType DEF Init, LinkInv, RecsLinked, Idle

LEMMA LinkHolds == Spec => [](IInv /\ LinkInv)
<1>1. Init => IInv /\ LinkInv
  BY InitIInv, InitLink
<1>2. (IInv /\ LinkInv) /\ [Next]_vars => (IInv /\ LinkInv)'
  BY NextIInv, NextLink
<1> QED BY <1>1, <1>2, PTL DEF Spec

(* Even with several processes, the records of an opportunity form chains into the past: each
   supersedes nothing, or an earlier record that said something else. *)
THEOREM RecsLinkedHolds == Spec => []RecsLinked
BY LinkHolds, PTL DEF LinkInv

-----------------------------------------------------------------------------
(* Each record supersedes the one before, until a cycle appends behind another's back *)

LEMMA NewestLast ==
  ASSUME IInv, OrderInv, ~crossed.rec, NEW i \in Newest PROVE i = Len(recs)
<1>1. /\ recs \in Seq(Rec) /\ i \in 1..Len(recs)
      /\ recs[Len(recs)] \in Rec /\ recs[i] \in Rec
  BY DEF IInv, TablesOK, Newest
<1>2. recs[i].created <= recs[Len(recs)].created
  BY <1>1 DEF OrderInv
<1>3. \/ recs[Len(recs)].created < recs[i].created
      \/ recs[Len(recs)].created = recs[i].created /\ Len(recs) <= i
  BY <1>1 DEF Newest
<1> QED BY <1>1, <1>2, <1>3 DEF Rec, Time

LEMMA TimesKept ==
  ASSUME IInv, OrderInv, NEW c \in Cycle, Step(c) \/ Crash(c)
  PROVE  clock' = clock /\ \A d \in Cycle : run'[d].now <= clock
<1>1. 0 <= clock /\ clock <= clock
  BY TimeAssumption DEF IInv, TablesOK, Time
<1>2. run'[c].now <= clock
  BY <1>1, StepLocals DEF OrderInv, Keeps, Idle
<1> QED BY <1>2, StepLocals DEF OrderInv

LEMMA StepOrder ==
  ASSUME IInv, LinkInv, OrderInv, NEW c \in Cycle, Step(c) \/ Crash(c), Watch, ~AppendRec(c)
  PROVE  OrderInv'
<1>1. recs' = recs /\ clock' = clock /\ \A d \in Cycle : run'[d].now <= clock
  BY RecsKept, TimesKept
<1>2. ASSUME ~crossed'.rec, NEW d \in Cycle, run'[d].pc \in Recording, d \notin late'.rec
      PROVE  /\ \A i \in 1..Len(recs) : recs[i].created <= run'[d].now
             /\ run'[d].pc = "append" => run'[d].head = Len(recs)
  <2>1. ~crossed.rec /\ d \notin late.rec
    BY <1>2, WatchRec
  <2>2. CASE d # c
    BY <1>2, <2>1, <2>2, StepLocals DEF OrderInv
  <2>3. CASE d = c
    <3>1. \A i \in 1..Len(recs) : recs[i].created <= run'[c].now
      BY <1>2, <2>1, <2>3, StepLocals, IdleType DEF OrderInv, Keeps, Before, Recording
    <3>2. ASSUME run'[c].pc = "append" PROVE run'[c].head = Len(recs)
      <4>1. (recs = <<>> /\ run'[c].head = 0) \/ run'[c].head \in Newest
        BY <3>2, HeadsStep
      <4> QED BY <2>1, <4>1, NewestLast
    <3> QED BY <2>3, <3>1, <3>2
  <2> QED BY <2>2, <2>3
<1>3. ~crossed'.rec => ~crossed.rec
  BY WatchRec
<1> QED BY <1>1, <1>2, <1>3 DEF OrderInv

LEMMA AppendOrder ==
  ASSUME IInv, LinkInv, OrderInv, NEW c \in Cycle, AppendRec(c), Watch
  PROVE  OrderInv'
<1>1. /\ recs \in Seq(Rec) /\ Len(recs') = Len(recs) + 1 /\ Len(recs) \in Nat
      /\ \A i \in 1..Len(recs) : recs'[i] = recs[i]
      /\ recs'[Len(recs) + 1].created = run[c].now
      /\ recs'[Len(recs) + 1].supersedes = run[c].head
      /\ run[c].pc = "append" /\ run'[c].pc = "recEvent" /\ run'[c].now = run[c].now
  BY Appended
<1>2. clock' = clock /\ run[c].now <= clock /\ \A d \in Cycle : run'[d].now <= clock
  BY TimesKept DEF Step, OrderInv
<1>3. recs' # recs /\ run'[c] # run[c]
  BY <1>1
<1>4. run[c].now <= run[c].now
  BY DEF IInv, TablesOK, Locals, Time
<1>5. ASSUME ~crossed'.rec, NEW i \in 1..Len(recs')
      PROVE  /\ recs'[i].supersedes = i - 1
             /\ recs'[i].created <= clock' /\ recs'[i].created <= recs'[Len(recs')].created
  <2>1. ~crossed.rec /\ c \notin late.rec
    BY <1>3, <1>5, WatchRec
  <2>2. run[c].head = Len(recs) /\ \A j \in 1..Len(recs) : recs[j].created <= run[c].now
    BY <1>1, <2>1 DEF OrderInv, Recording
  <2>3. CASE i = Len(recs) + 1
    BY <1>1, <1>2, <1>4, <2>2, <2>3
  <2>4. CASE i \in 1..Len(recs)
    BY <1>1, <1>2, <2>1, <2>2, <2>4 DEF OrderInv
  <2> QED BY <1>1, <2>3, <2>4
<1>6. ASSUME NEW d \in Cycle, run'[d].pc \in Recording PROVE d \in late'.rec
  <2>1. d # c
    BY <1>1, <1>6 DEF Recording
  <2>2. run'[d] = run[d]
    BY <2>1, StepLocals DEF Step
  <2> QED BY <1>3, <1>6, <2>2, WatchRec
<1> QED BY <1>2, <1>5, <1>6 DEF OrderInv

LEMMA WorldOrder ==
  ASSUME IInv, OrderInv, Tick \/ Refresh, Watch PROVE OrderInv'
<1>1. recs' = recs /\ run' = run /\ clock' \in {clock, clock + 1} /\ clock \in Nat
  BY DEF Tick, Refresh, IInv, TablesOK, Time
<1>2. \A i \in 1..Len(recs) : recs[i].created \in Nat
  <2>1. recs \in Seq(Rec)
    BY DEF IInv, TablesOK
  <2>2. \A i \in 1..Len(recs) : recs[i] \in Rec
    BY <2>1
  <2> QED BY <2>2 DEF Rec, Time
<1>3. \A c \in Cycle : run[c].now \in Nat
  BY DEF IInv, TablesOK, Locals, Time
<1>4. /\ ~crossed'.rec => ~crossed.rec
      /\ \A c \in Cycle : run[c].pc \in Recording /\ c \notin late'.rec => c \notin late.rec
  BY <1>1, WatchRec
<1>5. \A c \in Cycle : run'[c].now <= clock'
  BY <1>1, <1>3 DEF OrderInv
<1>6. ASSUME ~crossed'.rec, NEW i \in 1..Len(recs)
      PROVE  /\ recs[i].supersedes = i - 1
             /\ recs[i].created <= clock' /\ recs[i].created <= recs[Len(recs)].created
  BY <1>1, <1>2, <1>4, <1>6 DEF OrderInv
<1>7. ASSUME ~crossed'.rec, NEW c \in Cycle, run[c].pc \in Recording, c \notin late'.rec
      PROVE  /\ \A i \in 1..Len(recs) : recs[i].created <= run[c].now
             /\ run[c].pc = "append" => run[c].head = Len(recs)
  BY <1>4, <1>7 DEF OrderInv
<1> QED BY <1>1, <1>5, <1>6, <1>7 DEF OrderInv

(* "A new row only when (rec, readiness) changes": consecutive records of an opportunity differ
   and each supersedes the one before, however many processes run the cycles and however often
   they crash, until a cycle appends a record after another one appended behind its back. *)
THEOREM RecsOnChangeHolds == Spec => []RecsOnChange
<1>1. LinkInv /\ OrderInv /\ IInv => RecsOnChange
  <2> SUFFICES ASSUME LinkInv, OrderInv, IInv, ~crossed.rec, NEW i \in 1..Len(recs)
               PROVE  /\ recs[i].supersedes = i - 1
                      /\ i > 1 => recs[i].verdict # recs[i - 1].verdict
    BY DEF RecsOnChange
  <2>1. recs[i].supersedes = i - 1 /\ Len(recs) \in Nat
    BY DEF OrderInv, IInv, TablesOK
  <2> QED BY <2>1 DEF LinkInv, RecsLinked
<1>2. Init => IInv /\ LinkInv /\ OrderInv
  <2>1. Init => OrderInv
    BY IdleType, TimeAssumption DEF Init, OrderInv, Idle, Recording
  <2> QED BY <2>1, InitIInv, InitLink
<1>3. IInv /\ LinkInv /\ OrderInv /\ [Next]_vars => OrderInv'
  <2> SUFFICES ASSUME IInv, LinkInv, OrderInv, [Next]_vars PROVE OrderInv'
    OBVIOUS
  <2>1. ASSUME NEW c \in Cycle, Step(c) \/ Crash(c), Watch PROVE OrderInv'
    BY <2>1, StepOrder, AppendOrder
  <2>2. CASE (Tick \/ Refresh) /\ Watch
    BY <2>2, WorldOrder
  <2>3. CASE UNCHANGED vars
    BY <2>3 DEF vars, history, OrderInv
  <2> QED BY <2>1, <2>2, <2>3 DEF Next
<1>4. (IInv /\ LinkInv /\ OrderInv) /\ [Next]_vars => (IInv /\ LinkInv /\ OrderInv)'
  BY <1>3, NextIInv, NextLink
<1> QED BY <1>1, <1>2, <1>4, PTL DEF Spec

-----------------------------------------------------------------------------
(* The dates of a position are in order, until a cycle writes it behind the back of its fill *)

\* The dates of a row.
RowDates(row) ==
  row.entry # None =>
    /\ row.entryAt # None /\ row.markAt # None
    /\ row.entry.at <= row.entryAt /\ row.entryAt <= row.markAt
    /\ row.exitAt # None => row.entryAt <= row.exitAt
    /\ row.exit # None => row.entry.at <= row.exit.at

\* The clock and the stored spot are not before the entry of a filled row.
EntryPast(row) ==
  row.entry # None =>
    /\ row.entryAt <= clock
    /\ row.instrument = "stock" => row.entry.at <= stored.at

\* A moving cycle, with locals l, goes by a time and prices not before the entry of the row.
CycleDates(row, l) ==
  l.pc \in Moving /\ row.entry # None =>
    /\ row.entryAt <= l.now
    /\ l.pc # "market" /\ row.instrument = "stock" => row.entry.at <= l.spot.at
    /\ l.pc = "settle" /\ l.price # None => row.entry.at <= l.price.at

\* Those of the position and of the cycles that are not late.
InOrder ==
  ~crossed.fill /\ paper # None =>
    /\ RowDates(paper) /\ EntryPast(paper)
    /\ \A c \in Cycle \ late.fill : CycleDates(paper, run[c])

DatesInv ==
  /\ stored.at <= clock
  /\ \A c \in Cycle :
       /\ run[c].now <= clock /\ run[c].spot.at <= stored.at
       /\ run[c].pc \in {"track", "settle"} =>
            paper # None /\ run[c].seen.instrument = paper.instrument
  /\ paper # None /\ paper.state = "PAPER_PENDING" => paper.exitAt = None
  /\ InOrder

LEMMA DateTypes ==
  ASSUME IInv
  PROVE  /\ clock \in Nat /\ stored.at \in Nat
         /\ \A c \in Cycle : /\ run[c] \in Locals /\ run[c].now \in Nat /\ run[c].spot.at \in Nat
         /\ \A t \in Time : t \in Nat
BY DEF IInv, TablesOK, Spot, Time, Locals

(* Only a cycle that has read the row tracks it, only one that has decided settles. *)
LEMMA TrackStep ==
  ASSUME IInv, NEW c \in Cycle, Step(c) \/ Crash(c)
  PROVE  /\ run'[c].pc = "track" => ReadPapers(c)
         /\ run'[c].pc = "settle" => Decide(c)
<1>1. run[c] \in Locals /\ run \in [Cycle -> Locals]
  BY DEF IInv, TablesOK
<1>2. \/ run'[c] = Idle \/ run'[c].pc \in {"market", "heads", "read", "append", "open"}
      \/ run[c].pc \notin Before
  BY StepLocals
<1>3. CASE Done(c)
  BY <1>1, <1>3, IdleType DEF Done
<1>4. CASE \/ Goto(c, "recEvent") \/ Goto(c, "open") \/ Goto(c, "openEvent") \/ Goto(c, "read")
  BY <1>1, <1>4 DEF Goto, Locals
<1>5. CASE \E row, k : Move(c, row, k)
  <2>1. Done(c) \/ \E k : run' = [run EXCEPT ![c] = [run[c] EXCEPT !.pc = "event", !.kind = k]]
    BY <1>5, Zenon DEF Move
  <2> QED BY ZenonT(60), <1>1, <1>3, <2>1 DEF Locals
<1>6. CASE ReadPapers(c) \/ Decide(c)
  <2>1. CASE ReadPapers(c)
    BY <1>1, <1>3, <2>1 DEF ReadPapers, Locals
  <2>2. CASE Decide(c)
    <3>1. PICK b \in BarExits(c), against \in BOOLEAN, quoted \in BOOLEAN :
            IF ExitReason(c, b, against) = None THEN Done(c)
            ELSE run' = [run EXCEPT ![c].reason = ExitReason(c, b, against),
                                    ![c].price = ExitPrice(c, b, quoted), ![c].pc = "settle"]
      BY <2>2, Zenon DEF Decide
    <3> QED BY <1>1, <1>3, <2>2, <3>1 DEF Locals
  <2> QED BY <1>6, <2>1, <2>2
<1>7. CASE Start(c) \/ ReadMarket(c) \/ ReadHeads(c)
  BY <1>2, <1>7, IdleType DEF Start, ReadMarket, ReadHeads, Before
<1>8. CASE AppendRec(c) \/ AppendRecEvent(c) \/ OpenPaper(c) \/ OpenEvent(c)
  BY <1>4, <1>8 DEF AppendRec, AppendRecEvent, OpenPaper, OpenEvent
<1>9. CASE Expire(c) \/ Fill(c) \/ Close(c) \/ Signal(c) \/ Abandon(c)
  BY <1>5, <1>9 DEF Expire, Fill, Close, Signal, Abandon
<1>10. CASE LeavePending(c) \/ LeaveSignalled(c) \/ AppendEvent(c) \/ Crash(c)
  BY <1>3, <1>10 DEF LeavePending, LeaveSignalled, AppendEvent, Crash
<1> QED BY <1>6, <1>7, <1>8, <1>9, <1>10 DEF Step

(* A step keeps the dates when it leaves a row, and the locals of its cycle, with them. *)
LEMMA DatesStep ==
  ASSUME IInv, DatesInv, NEW c \in Cycle, Step(c) \/ Crash(c), Watch,
         run'[c].pc \in {"track", "settle"} =>
           paper' # None /\ run'[c].seen.instrument = paper'.instrument,
         paper # None => paper' # None /\ paper'.instrument = paper.instrument,
         paper' # None /\ paper'.state = "PAPER_PENDING" => paper'.exitAt = None,
         ~crossed'.fill /\ paper' # None =>
           /\ RowDates(paper') /\ EntryPast(paper')
           /\ c \notin late'.fill => CycleDates(paper', run'[c])
           /\ paper'.entry # None /\ Entry(paper') = Entry(paper) =>
                paper'.entryAt = paper.entryAt
  PROVE  DatesInv'
<1>1. /\ clock' = clock /\ stored' = stored
      /\ \A d \in Cycle : d # c => run'[d] = run[d]
  BY StepLocals
<1>2. run'[c].now <= clock /\ run'[c].spot.at <= stored.at
  <2>1. Idle.now = 0 /\ Idle.spot.at = 0
    BY DEF Idle, NoSpot
  <2>2. 0 <= clock /\ 0 <= stored.at /\ clock <= clock /\ stored.at <= stored.at
    BY DateTypes
  <2> QED BY <2>1, <2>2, StepLocals DEF DatesInv, Keeps
<1>3. ASSUME ~crossed'.fill, paper' # None, NEW d \in Cycle, d \notin late'.fill
      PROVE  CycleDates(paper', run'[d])
  <2>1. CASE d = c
    BY <1>3, <2>1
  <2>2. ASSUME d # c, run'[d].pc \in Moving, paper'.entry # None
        PROVE  CycleDates(paper', run'[d])
    <3>1. run'[d] = run[d]
      BY <1>1, <2>2
    <3>2. ~crossed.fill /\ d \notin late.fill /\ Entry(paper') = Entry(paper)
      BY <1>3, <2>2, <3>1, WatchFill
    <3>3. paper # None /\ paper'.entry = paper.entry /\ paper'.entryAt = paper.entryAt
          /\ paper'.instrument = paper.instrument
      BY <1>3, <2>2, <3>2 DEF Entry
    <3>4. CycleDates(paper, run[d])
      BY <3>2, <3>3 DEF DatesInv, InOrder
    <3> QED BY <3>1, <3>3, <3>4 DEF CycleDates
  <2>3. CASE d # c /\ ~(run'[d].pc \in Moving /\ paper'.entry # None)
    BY <2>3 DEF CycleDates
  <2> QED BY <2>1, <2>2, <2>3
<1>4. InOrder'
  BY <1>1, <1>3 DEF InOrder, EntryPast
<1>5. ASSUME NEW d \in Cycle
      PROVE  /\ run'[d].now <= clock' /\ run'[d].spot.at <= stored'.at
             /\ run'[d].pc \in {"track", "settle"} =>
                  paper' # None /\ run'[d].seen.instrument = paper'.instrument
  <2>1. CASE d = c
    BY <1>1, <1>2, <2>1
  <2>2. CASE d # c
    BY <1>1, <2>2 DEF DatesInv
  <2> QED BY <2>1, <2>2
<1>6. stored'.at <= clock'
  BY <1>1 DEF DatesInv
<1> QED BY <1>4, <1>5, <1>6 DEF DatesInv

(* What still holds of the position when no cycle has crossed its fill. *)
LEMMA Uncrossed ==
  ASSUME DatesInv, Watch, ~crossed'.fill, paper # None, NEW c \in Cycle
  PROVE  /\ ~crossed.fill /\ RowDates(paper) /\ EntryPast(paper)
         /\ run'[c] # run[c] /\ paper' # paper => c \notin late.fill
         /\ run'[c].pc \in Moving /\ c \notin late'.fill => c \notin late.fill
         /\ c \notin late.fill => CycleDates(paper, run[c])
<1>1. ~crossed.fill
  BY WatchFill
<1> QED BY <1>1, WatchFill DEF DatesInv, InOrder

(* Locals that follow a row go on following it. *)
LEMMA FollowsOn ==
  ASSUME IInv, DatesInv, NEW c \in Cycle, Step(c) \/ Crash(c), Watch, ~crossed'.fill,
         paper # None, c \notin late'.fill, run'[c].pc # "settle"
  PROVE  CycleDates(paper, run'[c])
<1> SUFFICES ASSUME run'[c].pc \in Moving, paper.entry # None
             PROVE  /\ paper.entryAt <= run'[c].now
                    /\ run'[c].pc # "market" /\ paper.instrument = "stock" =>
                         paper.entry.at <= run'[c].spot.at
  BY DEF CycleDates
<1>1. EntryPast(paper) /\ CycleDates(paper, run[c])
  BY Uncrossed
<1>2. run'[c] # Idle
  BY IdleType DEF Moving
<1>3. CASE /\ run[c].pc = "idle" /\ run'[c].pc = "market" /\ run'[c].now = clock
  BY <1>1, <1>3 DEF EntryPast
<1>4. CASE /\ run[c].pc = "market" /\ run'[c].now = run[c].now /\ run'[c].spot = stored
  BY <1>1, <1>4 DEF EntryPast, CycleDates, Moving, Steps
<1>5. CASE /\ run[c].pc = "heads" \/ run[c].pc \notin Before \union {"event"}
           /\ Keeps(c)
  <2>1. run[c].pc \in Moving /\ run[c].pc # "market"
    BY <1>5 DEF Moving, Before, Steps, IInv, TablesOK, Locals
  <2> QED BY <1>1, <1>5, <2>1 DEF CycleDates, Keeps
<1> QED BY <1>2, <1>3, <1>4, <1>5, StepLocals

LEMMA QuietDates ==
  ASSUME IInv, DatesInv, NEW c \in Cycle, Step(c) \/ Crash(c), Watch, ~Decide(c), paper' = paper
  PROVE  DatesInv'
<1>1. run'[c].pc # "settle"
  BY TrackStep
<1>2. ASSUME run'[c].pc = "track"
      PROVE  paper # None /\ run'[c].seen = paper
  <2>1. ReadPapers(c) /\ run[c] \in Locals /\ run \in [Cycle -> Locals]
    BY <1>2, TrackStep DEF IInv, TablesOK
  <2>2. ~Done(c)
    BY <1>2, <2>1, IdleType DEF Done
  <2>3. paper # None /\ run' = [run EXCEPT ![c] = [run[c] EXCEPT !.seen = paper, !.pc = "track"]]
    BY <2>1, <2>2 DEF ReadPapers
  <2> QED BY <2>1, <2>3 DEF Locals
<1>3. ASSUME ~crossed'.fill, paper # None
      PROVE  /\ RowDates(paper) /\ EntryPast(paper)
             /\ c \notin late'.fill => CycleDates(paper, run'[c])
  BY <1>1, <1>3, Uncrossed, FollowsOn
<1>4. paper # None /\ paper.state = "PAPER_PENDING" => paper.exitAt = None
  BY DEF DatesInv
<1> QED BY <1>1, <1>2, <1>3, <1>4, DatesStep

LEMMA PublishDates ==
  ASSUME IInv, DatesInv, NEW c \in Cycle, OpenPaper(c), Watch, paper' # paper
  PROVE  DatesInv'
<1>1. PICK i \in {"stock", "option"} : paper' = NewRow(c, i) /\ paper = None
  BY DEF OpenPaper
<1>2. paper'.entry = None /\ paper'.exitAt = None
  BY <1>1 DEF NewRow
<1>3. run'[c].pc \notin {"track", "settle"}
  BY TrackStep DEF Step, OpenPaper, ReadPapers, Decide
<1> QED BY <1>1, <1>2, <1>3, DatesStep DEF Step, RowDates, EntryPast, CycleDates

(* A move of the row. *)
LEMMA MoveDates ==
  ASSUME IInv, DatesInv, NEW c \in Cycle, Step(c), ~Decide(c), Watch,
         NEW row, NEW k \in Kind, Move(c, row, k), run[c].pc \in {"track", "settle"},
         Swapped(c) =>
           /\ row.instrument = paper.instrument /\ row.state # "PAPER_PENDING"
           /\ row.entry # None /\ row.entry = paper.entry => row.entryAt = paper.entryAt,
         Swapped(c) /\ RowDates(paper) /\ CycleDates(paper, run[c]) =>
           /\ RowDates(row)
           /\ row.entry # None =>
                /\ row.entryAt <= run[c].now
                /\ row.instrument = "stock" => row.entry.at <= run[c].spot.at
  PROVE  DatesInv'
<1>1. CASE paper' = paper
  BY <1>1, QuietDates
<1>2. CASE paper' # paper
  <2>1. Swapped(c) /\ paper # None
    BY <1>2 DEF Move, Swapped
  <2>2. paper' = row /\ run' = [run EXCEPT ![c] = [run[c] EXCEPT !.pc = "event", !.kind = k]]
    BY <2>1 DEF Move
  <2>3. run'[c].pc = "event" /\ run'[c] # run[c]
    BY <2>2 DEF IInv, TablesOK, Locals
  <2>4. /\ run[c].now <= clock /\ run[c].spot.at <= stored.at
        /\ clock \in Nat /\ stored.at \in Nat /\ run[c].now \in Nat /\ run[c].spot.at \in Nat
        /\ clock' = clock /\ stored' = stored
    BY DateTypes, StepLocals DEF DatesInv
  <2>5. paper' \in Row /\ paper' # None
    <3>1. IInv'
      BY NextIInv DEF Next
    <3>2. run'[c].seen # None
      BY <2>2, SwappedRow DEF IInv, TablesOK, Locals
    <3> QED BY <3>1, <3>2 DEF IInv, SeenInv, TablesOK
  <2>6. ASSUME ~crossed'.fill
        PROVE  /\ RowDates(paper') /\ EntryPast(paper')
               /\ paper'.entry # None /\ Entry(paper') = Entry(paper) =>
                    paper'.entryAt = paper.entryAt
    <3>1. RowDates(paper) /\ CycleDates(paper, run[c])
      BY <1>2, <2>1, <2>3, <2>6, Uncrossed
    <3>2. /\ RowDates(row)
          /\ row.entry # None =>
               /\ row.entryAt <= run[c].now
               /\ row.instrument = "stock" => row.entry.at <= run[c].spot.at
      BY <2>1, <3>1
    <3>3. row.entry # None => row.entryAt \in Nat /\ row.entry.at \in Nat
      BY <2>2, <2>5, <3>2, DateTypes DEF RowDates, Row, Price
    <3>4. EntryPast(row)
      BY <2>4, <3>2, <3>3 DEF EntryPast
    <3>5. row.entry # None /\ Entry(row) = Entry(paper) => row.entryAt = paper.entryAt
      BY <2>1, <2>2, <2>5 DEF Entry
    <3> QED BY <2>2, <3>2, <3>4, <3>5
  <2>7. CycleDates(paper', run'[c])
    BY <2>3 DEF CycleDates, Moving
  <2>8. paper'.instrument = paper.instrument /\ paper'.state # "PAPER_PENDING"
    BY <2>1, <2>2
  <2> QED BY <2>1, <2>3, <2>5, <2>6, <2>7, <2>8, DatesStep
<1> QED BY <1>1, <1>2

(* The row a swap acts on, and the dates its entry already has if the cycle follows it. *)
LEMMA SwapDates ==
  ASSUME IInv, DatesInv, NEW c \in Cycle, run[c].pc \in {"track", "settle"}, Swapped(c)
  PROVE  /\ paper \in Row /\ paper # None /\ paper.state = run[c].seen.state
         /\ run[c].now \in Time /\ run[c].spot \in Spot
         /\ run[c].seen.instrument = paper.instrument
         /\ CycleDates(paper, run[c]) /\ paper.entry # None =>
              /\ paper.entryAt <= run[c].now
              /\ paper.instrument = "stock" => paper.entry.at <= run[c].spot.at
BY SwappedRow DEF DatesInv, Locals, CycleDates, Moving, Steps

LEMMA ExpireDates ==
  ASSUME IInv, DatesInv, NEW c \in Cycle, Expire(c), Watch PROVE DatesInv'
<1> DEFINE row == [paper EXCEPT !.state = "CLOSED_SIMULATED", !.exitAt = run[c].now,
                                !.reason = "unfilled"]
<1>1. run[c].pc = "track" /\ run[c].seen.state = "PAPER_PENDING" /\ Move(c, row, "paper_expired")
  BY DEF Expire
<1>2. ASSUME Swapped(c)
      PROVE  /\ row.entry = None /\ row.instrument = paper.instrument
             /\ row.state # "PAPER_PENDING" /\ RowDates(row)
  <2>1. paper \in Row /\ paper # None /\ paper.state = "PAPER_PENDING"
    BY <1>1, <1>2, SwapDates
  <2>2. paper.entry = None
    BY <2>1 DEF IInv, RowInv
  <2>3. row.entry = None /\ row.state = "CLOSED_SIMULATED" /\ row.instrument = paper.instrument
    BY <2>1, <2>2 DEF Row
  <2> QED BY <2>3 DEF RowDates
<1>3. ~Decide(c) /\ Step(c)
  BY <1>1 DEF Decide, Step
<1> HIDE DEF row
<1> QED BY <1>1, <1>2, <1>3, MoveDates DEF Kind

LEMMA FillDates ==
  ASSUME IInv, DatesInv, NEW c \in Cycle, Fill(c), Watch PROVE DatesInv'
<1> DEFINE p == IF run[c].seen.instrument = "stock" THEN run[c].spot ELSE QuoteOf(c)
<1> DEFINE row == [paper EXCEPT !.state = "PAPER_OPEN", !.entryAt = run[c].now, !.entry = p,
                                !.markAt = run[c].now]
<1>1. /\ run[c].pc = "track" /\ run[c].seen.state = "PAPER_PENDING" /\ Fillable(c)
      /\ Move(c, row, "paper_fill")
  BY DEF Fill
<1>2. ASSUME Swapped(c)
      PROVE  /\ RowDates(row) /\ row.entryAt <= run[c].now
             /\ row.instrument = "stock" => row.entry.at <= run[c].spot.at
             /\ row.instrument = paper.instrument /\ row.state # "PAPER_PENDING"
             /\ row.entry # None => row.entry # paper.entry
  <2>1. /\ paper \in Row /\ paper # None /\ paper.state = "PAPER_PENDING"
        /\ run[c].seen.instrument = paper.instrument
    BY <1>1, <1>2, SwapDates
  <2>2. paper.exit = None /\ paper.exitAt = None /\ paper.entry = None
    BY <2>1 DEF IInv, RowInv, DatesInv
  <2>3. /\ run[c].now \in Time /\ run[c].spot \in Spot /\ run[c].now \in Nat
        /\ run[c].spot.at \in Nat
    BY DateTypes DEF Locals
  <2>4. p.at <= run[c].now /\ (paper.instrument = "stock" => p.at <= run[c].spot.at)
    BY <1>1, <2>1, <2>3 DEF Fillable, Fresh, Usable, QuoteOf
  <2> HIDE DEF p
  <2>5. /\ row.state = "PAPER_OPEN" /\ row.entryAt = run[c].now /\ row.markAt = run[c].now
        /\ row.entry = p /\ row.exit = None /\ row.exitAt = None
        /\ row.instrument = paper.instrument
    BY <2>1, <2>2 DEF Row
  <2>6. run[c].now # None /\ run[c].now <= run[c].now
    BY <2>3, Nones
  <2> HIDE DEF row
  <2> QED BY <2>2, <2>4, <2>5, <2>6 DEF RowDates
<1>3. ~Decide(c) /\ Step(c)
  BY <1>1 DEF Decide, Step
<1> HIDE DEF row
<1> QED BY <1>1, <1>2, <1>3, MoveDates DEF Kind

LEMMA CloseDates ==
  ASSUME IInv, DatesInv, NEW c \in Cycle, Close(c), Watch PROVE DatesInv'
<1> DEFINE row == [paper EXCEPT !.state = "CLOSED_SIMULATED", !.exitAt = run[c].now,
                                !.exit = run[c].price, !.reason = run[c].reason]
<1>1. run[c].pc = "settle" /\ run[c].price # None /\ Move(c, row, "paper_exit")
  BY DEF Close
<1>2. ASSUME Swapped(c)
      PROVE  /\ paper \in Row
             /\ row.state = "CLOSED_SIMULATED" /\ row.entryAt = paper.entryAt
             /\ row.markAt = paper.markAt /\ row.entry = paper.entry /\ row.exit = run[c].price
             /\ row.exitAt = run[c].now /\ row.instrument = paper.instrument
  <2>1. paper \in Row
    BY <1>1, <1>2, SwapDates
  <2> QED BY <2>1 DEF Row
<1>3. ASSUME Swapped(c), RowDates(paper), CycleDates(paper, run[c])
      PROVE  /\ RowDates(row)
             /\ row.entry # None =>
                  /\ row.entryAt <= run[c].now
                  /\ row.instrument = "stock" => row.entry.at <= run[c].spot.at
  <2>1. paper.entry # None =>
          /\ paper.entryAt <= run[c].now
          /\ paper.instrument = "stock" => paper.entry.at <= run[c].spot.at
    BY <1>1, <1>3, SwapDates
  <2>2. paper.entry # None => paper.entry.at <= run[c].price.at
    BY <1>1, <1>3 DEF CycleDates, Moving, Steps
  <2> HIDE DEF row
  <2> QED BY <1>2, <1>3, <2>1, <2>2 DEF RowDates
<1>4. ~Decide(c) /\ Step(c)
  BY <1>1 DEF Decide, Step
<1> HIDE DEF row
<1> QED BY <1>1, <1>2, <1>3, <1>4, MoveDates DEF Kind

LEMMA SignalDates ==
  ASSUME IInv, DatesInv, NEW c \in Cycle, Signal(c) \/ Abandon(c), Watch
  PROVE  DatesInv'
<1> DEFINE signal == [paper EXCEPT !.state = "EXIT_SIGNALLED", !.exitAt = run[c].now,
                                   !.reason = run[c].reason]
           abandon == [paper EXCEPT !.state = "UNRESOLVED"]
<1>1. /\ run[c].pc = "settle"
      /\ Move(c, signal, "exit_signalled") \/ Move(c, abandon, "unresolved")
  BY DEF Signal, Abandon
<1>2. ASSUME Swapped(c), NEW row \in {signal, abandon}
      PROVE  /\ row.state # "PAPER_PENDING" /\ row.entryAt = paper.entryAt
             /\ row.markAt = paper.markAt /\ row.entry = paper.entry /\ row.exit = paper.exit
             /\ row.exitAt \in {run[c].now, paper.exitAt} /\ row.instrument = paper.instrument
  <2>1. paper \in Row
    BY <1>1, <1>2, SwapDates
  <2> QED BY <1>2, <2>1 DEF Row
<1>3. ASSUME Swapped(c), RowDates(paper), CycleDates(paper, run[c]), NEW row \in {signal, abandon}
      PROVE  /\ RowDates(row)
             /\ row.entry # None =>
                  /\ row.entryAt <= run[c].now
                  /\ row.instrument = "stock" => row.entry.at <= run[c].spot.at
  <2>1. paper.entry # None =>
          /\ paper.entryAt <= run[c].now
          /\ paper.instrument = "stock" => paper.entry.at <= run[c].spot.at
    BY <1>1, <1>3, SwapDates
  <2> HIDE DEF signal, abandon
  <2> QED BY <1>2, <1>3, <2>1 DEF RowDates
<1>4. ~Decide(c) /\ Step(c)
  BY <1>1 DEF Decide, Step, Signal, Abandon
<1> HIDE DEF signal, abandon
<1> QED BY <1>1, <1>2, <1>3, <1>4, MoveDates DEF Kind

LEMMA DecideDates ==
  ASSUME IInv, DatesInv, NEW c \in Cycle, Decide(c), Watch PROVE DatesInv'
<1>1. /\ run[c].pc = "track" /\ run[c].seen # None /\ run[c] \in Locals /\ run[c].seen \in Row
      /\ paper # None /\ paper \in Row /\ run[c].seen.instrument = paper.instrument
      /\ run[c].now \in Time
  BY SwappedRow DEF Decide, Locals, DatesInv, IInv, TablesOK
<1>2. PICK b \in BarExits(c), against \in BOOLEAN, quoted \in BOOLEAN :
        IF ExitReason(c, b, against) = None THEN Done(c)
        ELSE run' = [run EXCEPT ![c].reason = ExitReason(c, b, against),
                                ![c].price = ExitPrice(c, b, quoted), ![c].pc = "settle"]
  BY Zenon DEF Decide
<1> DEFINE e == ExitReason(c, b, against)
           p == ExitPrice(c, b, quoted)
           l == [run[c] EXCEPT !.reason = e, !.price = p, !.pc = "settle"]
<1>3. ASSUME CycleDates(paper, run[c]), paper.entry # None
      PROVE  /\ paper.entryAt <= run[c].now
             /\ paper.instrument = "stock" => paper.entry.at <= run[c].spot.at
  BY <1>1, <1>3 DEF CycleDates, Moving, Steps
<1>4. ASSUME RowDates(paper), CycleDates(paper, run[c]), paper.entry # None, p # None
      PROVE  paper.entry.at <= p.at
  <2>1. /\ paper.entry.at \in Nat /\ paper.entryAt \in Nat /\ run[c].now \in Nat
        /\ paper.entry.at <= paper.entryAt
    BY <1>1, <1>4, DateTypes DEF Row, Price, RowDates
  <2>2. (p = run[c].spot /\ paper.instrument = "stock") \/ p.at = run[c].now
    BY <1>1, <1>4 DEF ExitPrice, QuoteOf
  <2> HIDE DEF p
  <2> QED BY <1>3, <1>4, <2>1, <2>2
<1> HIDE DEF e, p
<1>5. /\ paper' # None /\ paper'.state = paper.state /\ paper'.entry = paper.entry
      /\ paper'.entryAt = paper.entryAt /\ paper'.exit = paper.exit /\ paper'.exitAt = paper.exitAt
      /\ paper'.instrument = paper.instrument
      /\ paper' = paper \/ paper'.markAt = run[c].now
  <2>1. paper' \in {paper, [paper EXCEPT !.markAt = run[c].now]}
    BY DEF Decide
  <2>2. [paper EXCEPT !.markAt = run[c].now] \in Row
    BY <1>1 DEF Row
  <2> QED BY <1>1, <2>1, <2>2, Nones DEF Row
<1>6. run'[c] = Idle \/ run'[c] = l
  BY <1>2 DEF Done, IInv, TablesOK, e, p
<1>7. run'[c] # run[c]
  BY <1>1, <1>6, IdleType DEF Locals
<1>8. ASSUME ~crossed'.fill
      PROVE  /\ RowDates(paper') /\ EntryPast(paper')
             /\ c \notin late'.fill => CycleDates(paper', run'[c])
  <2>1. /\ RowDates(paper) /\ EntryPast(paper)
        /\ paper' # paper => CycleDates(paper, run[c])
        /\ run'[c].pc \in Moving /\ c \notin late'.fill => CycleDates(paper, run[c])
    BY <1>1, <1>7, <1>8, Uncrossed
  <2>2. RowDates(paper')
    BY <1>1, <1>3, <1>5, <2>1, Nones DEF RowDates
  <2>3. EntryPast(paper')
    BY <1>5, <2>1 DEF EntryPast
  <2>4. ASSUME c \notin late'.fill PROVE CycleDates(paper', run'[c])
    <3>1. CASE run'[c] = Idle
      BY <3>1, IdleType DEF CycleDates, Moving
    <3>2. CASE run'[c] = l
      <4>1. /\ run'[c].pc = "settle" /\ run'[c].price = p
            /\ run'[c].now = run[c].now /\ run'[c].spot = run[c].spot
        BY <1>1, <3>2 DEF Locals
      <4>2. CycleDates(paper, run[c])
        BY <2>1, <2>4, <4>1 DEF Moving, Steps
      <4> HIDE DEF l
      <4> QED BY <1>3, <1>4, <1>5, <2>1, <4>1, <4>2 DEF CycleDates
    <3> QED BY <1>6, <3>1, <3>2
  <2> QED BY <2>2, <2>3, <2>4
<1>9. run'[c].pc \in {"track", "settle"} => run'[c].seen = run[c].seen
  BY <1>1, <1>6, IdleType DEF Locals
<1>10. paper' # None /\ paper'.state = "PAPER_PENDING" => paper'.exitAt = None
  BY <1>1, <1>5 DEF DatesInv
<1> QED BY <1>1, <1>5, <1>8, <1>9, <1>10, DatesStep DEF Step

LEMMA WorldDates == ASSUME IInv, DatesInv, Tick \/ Refresh, Watch PROVE DatesInv'
<1>1. /\ paper' = paper /\ run' = run /\ clock \in Nat /\ stored.at \in Nat
      /\ \A c \in Cycle : run[c].now \in Nat /\ run[c].spot.at \in Nat
  BY DateTypes DEF Tick, Refresh
<1>2. \/ clock' = clock + 1 /\ stored' = stored
      \/ clock' = clock /\ stored'.at = clock
  BY DEF Tick, Refresh
<1>3. stored'.at \in Nat /\ stored.at <= stored'.at /\ stored'.at <= clock' /\ clock <= clock'
      /\ clock' \in Nat
  BY <1>1, <1>2 DEF DatesInv
<1>4. \A c \in Cycle : run[c].now <= clock' /\ run[c].spot.at <= stored'.at
  BY <1>1, <1>3 DEF DatesInv
<1>5. ASSUME ~crossed'.fill, paper # None
      PROVE  /\ RowDates(paper) /\ EntryPast(paper)'
             /\ \A c \in Cycle \ late'.fill : CycleDates(paper, run[c])
  <2>1. ~crossed.fill /\ RowDates(paper) /\ EntryPast(paper)
    BY <1>5, WatchFill DEF DatesInv, InOrder
  <2>2. EntryPast(paper)'
    <3>1. paper.entry # None => paper.entryAt \in Nat /\ paper.entry.at \in Nat
      BY <1>5, <2>1, DateTypes DEF RowDates, IInv, TablesOK, Row, Price
    <3> QED BY <1>1, <1>3, <2>1, <3>1 DEF EntryPast
  <2>3. ASSUME NEW c \in Cycle \ late'.fill PROVE CycleDates(paper, run[c])
    <3>1. CASE run[c].pc \notin Moving
      BY <3>1 DEF CycleDates
    <3>2. CASE run[c].pc \in Moving
      <4>1. c \notin late.fill
        BY <1>1, <2>3, <3>2, WatchFill
      <4> QED BY <1>5, <2>1, <4>1 DEF DatesInv, InOrder
    <3> QED BY <3>1, <3>2
  <2> QED BY <2>1, <2>2, <2>3
<1>6. InOrder'
  BY <1>1, <1>5 DEF InOrder
<1> QED BY <1>1, <1>3, <1>4, <1>6 DEF DatesInv

(* A position is left after it was entered, at a price not observed before that of its entry,
   and its newest mark does not predate its entry, however many processes run the cycles, until
   a cycle that was under way at the fill writes the position after it. *)
THEOREM ChronologyHolds == Spec => []Chronology
<1>1. DatesInv => Chronology
  BY DEF DatesInv, InOrder, RowDates, Chronology
<1>2. Init => IInv /\ DatesInv
  <2>1. Init => DatesInv
    BY IdleType, TimeAssumption DEF Init, DatesInv, InOrder, Idle, NoSpot
  <2> QED BY <2>1, InitIInv
<1>3. IInv /\ DatesInv /\ [Next]_vars => DatesInv'
  <2> SUFFICES ASSUME IInv, DatesInv, [Next]_vars PROVE DatesInv'
    OBVIOUS
  <2>1. ASSUME NEW c \in Cycle, Step(c) \/ Crash(c), Watch PROVE DatesInv'
    <3>1. CASE Expire(c) \/ Fill(c) \/ Close(c) \/ Signal(c) \/ Abandon(c) \/ Decide(c)
      BY <2>1, <3>1, ExpireDates, FillDates, CloseDates, SignalDates, DecideDates
    <3>2. CASE OpenPaper(c) /\ paper' # paper
      BY <2>1, <3>2, PublishDates
    <3>3. CASE \/ Start(c) \/ ReadMarket(c) \/ ReadHeads(c) \/ AppendRec(c) \/ AppendRecEvent(c)
               \/ (OpenPaper(c) /\ paper' = paper) \/ OpenEvent(c) \/ ReadPapers(c)
               \/ LeavePending(c) \/ LeaveSignalled(c) \/ AppendEvent(c) \/ Crash(c)
      <4>1. CASE Decide(c)
        BY <2>1, <4>1, DecideDates
      <4>2. CASE ~Decide(c)
        <5>1. paper' = paper
          BY <3>3 DEF Start, ReadMarket, ReadHeads, AppendRec, AppendRecEvent, OpenEvent,
             ReadPapers, LeavePending, LeaveSignalled, AppendEvent, Crash
        <5> QED BY <2>1, <4>2, <5>1, QuietDates
      <4> QED BY <4>1, <4>2
    <3> QED BY <2>1, <3>1, <3>2, <3>3 DEF Step
  <2>2. CASE UNCHANGED vars
    BY <2>2 DEF vars, history, DatesInv, InOrder, EntryPast
  <2> QED BY <2>1, <2>2, WorldDates DEF Next
<1>4. (IInv /\ DatesInv) /\ [Next]_vars => (IInv /\ DatesInv)'
  BY <1>3, NextIInv
<1> QED BY <1>1, <1>2, <1>4, PTL DEF Spec
=============================================================================
