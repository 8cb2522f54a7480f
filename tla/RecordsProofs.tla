------------------------------- MODULE RecordsProofs -------------------------------
(***************************************************************************)
(* Theorems about the components of MCRecords, each for any number of      *)
(* requests and rows, and about the instance that puts them side by side.  *)
(***************************************************************************)
EXTENDS MCRecords, SetLemmas, WellFoundedInduction

-----------------------------------------------------------------------------
(* Corrections *)

\* What a clerk holds between two statements
PaperKinds ==
    {NoPaper} \union [at : {"ask"}] \union [at : {"lock", "record"}, correction : Corrections]
    \union [at : {"approve"}, correction : Corrections, found : BOOLEAN]

CorrectionsTyped ==
    /\ corrections \in [Corrections -> CorrectionStatus]
    /\ recorded \in BOOLEAN
    /\ logged \in [Corrections -> Nat]
    /\ held \in [Corrections -> Clerks \union {Unheld}]
    /\ recordHeld \in Clerks \union {Unheld}
    /\ desk \in [Clerks -> PaperKinds]

\* Who has found a correction pending holds it until it is resolved.
Holding(k) ==
    desk[k].at \in {"record", "approve"} =>
        held[desk[k].correction] = k /\ corrections[desk[k].correction] = "PENDING"

CorrectionsInv == CorrectionsTyped /\ AppliedOnce /\ \A k \in Clerks : Holding(k)

\* Requests one at a time: who is about to ask has seen that nothing is pending.
OneAtDesk ==
    /\ \A j, k \in Clerks : desk[j] # NoPaper /\ desk[k] # NoPaper => j = k
    /\ \A k \in Clerks : desk[k].at = "ask" => Pending = {}
    /\ OnePending

\* A paper is of its kind.
LEMMA PaperTyped ==
  ASSUME CorrectionsTyped, NEW k \in Clerks
  PROVE  /\ desk[k].at \in {"idle", "ask", "lock", "record", "approve"}
         /\ desk[k].at = "idle" <=> desk[k] = NoPaper
         /\ desk[k].at \in {"lock", "record"} =>
               desk[k] \in [at : {"lock", "record"}, correction : Corrections]
         /\ desk[k].at \in {"lock", "record", "approve"} => desk[k].correction \in Corrections
BY DEF CorrectionsTyped, PaperKinds, NoPaper

\* Each kind of paper is one.
LEMMA Papers ==
  /\ NoPaper \in PaperKinds /\ [at |-> "ask"] \in PaperKinds
  /\ \A at \in {"lock", "record"}, c \in Corrections : [at |-> at, correction |-> c] \in PaperKinds
  /\ \A c \in Corrections, found \in BOOLEAN :
        [at |-> "approve", correction |-> c, found |-> found] \in PaperKinds
BY DEF PaperKinds, NoPaper

\* A change of one's own paper.
LEMMA HandlesTyped ==
  ASSUME CorrectionsTyped, NEW k \in Clerks, NEW next \in PaperKinds, Handles(k, next)
  PROVE  desk' \in [Clerks -> PaperKinds] /\ desk'[k] = next /\ \A j \in Clerks \ {k} : desk'[j] = desk[j]
BY DEF CorrectionsTyped, Handles

\* Letting go keeps what others hold.
LEMMA LetsGoTyped ==
  ASSUME CorrectionsTyped, NEW k \in Clerks, LetsGo(k)
  PROVE  /\ held' \in [Corrections -> Clerks \union {Unheld}]
         /\ recordHeld' \in Clerks \union {Unheld}
         /\ \A c \in Corrections, j \in Clerks \ {k} : held[c] = j => held'[c] = j
BY DEF CorrectionsTyped, LetsGo

\* A step of one clerk that resolves nothing.
LEMMA PapersMove ==
  ASSUME CorrectionsInv, NEW k \in Clerks, NEW next \in PaperKinds, Handles(k, next),
         UNCHANGED <<corrections, recorded, logged>>,
         held' \in [Corrections -> Clerks \union {Unheld}], recordHeld' \in Clerks \union {Unheld},
         \A c \in Corrections, j \in Clerks \ {k} : held[c] = j => held'[c] = j,
         next.at \in {"record", "approve"} =>
            held'[next.correction] = k /\ corrections[next.correction] = "PENDING"
  PROVE  CorrectionsInv'
<1>1. CorrectionsTyped /\ CorrectionsTyped'
  BY HandlesTyped DEF CorrectionsInv, CorrectionsTyped
<1>2. desk'[k] = next /\ \A j \in Clerks \ {k} : desk'[j] = desk[j]
  BY HandlesTyped, <1>1
<1>3. Holding(k)'
  BY <1>2 DEF Holding
<1>4. ASSUME NEW j \in Clerks \ {k} PROVE Holding(j)'
  <2>1. desk[j].at \in {"record", "approve"} => desk[j].correction \in Corrections
    BY <1>1, PaperTyped
  <2> QED
    BY <1>2, <2>1 DEF CorrectionsInv, Holding
<1>5. AppliedOnce'
  BY DEF CorrectionsInv, AppliedOnce
<1> QED
  BY <1>1, <1>3, <1>4, <1>5 DEF CorrectionsInv

\* The steps that resolve nothing.
LEMMA TakePaperInv == ASSUME CorrectionsInv, NEW k \in Clerks, TakePaper(k) PROVE CorrectionsInv'
<1>1. CASE LookForPending(k)
  BY <1>1, Papers, PapersMove DEF LookForPending, CorrectionsInv, CorrectionsTyped
<1>2. CASE OpenCorrection(k)
  <2>1. PICK c \in Corrections : Handles(k, [at |-> "lock", correction |-> c])
    BY <1>2 DEF OpenCorrection
  <2> QED
    BY <1>2, <2>1, Papers, PapersMove DEF OpenCorrection, CorrectionsInv, CorrectionsTyped
<1> QED
  BY <1>1, <1>2 DEF TakePaper

\* FOR UPDATE gives the correction to one clerk while it is pending.
LEMMA LockCorrectionInv == ASSUME CorrectionsInv, NEW k \in Clerks, LockCorrection(k) PROVE CorrectionsInv'
<1> DEFINE c == desk[k].correction
<1>1. /\ desk[k].at = "lock" /\ held[c] = Unheld /\ UNCHANGED <<corrections, recorded, logged, recordHeld>>
      /\ CorrectionsTyped /\ c \in Corrections
  BY PaperTyped DEF LockCorrection, CorrectionsInv
<1>2. CASE corrections[c] = "PENDING"
  <2>1. PICK p \in [at : {"lock", "record"}, correction : Corrections] : desk[k] = p
    BY <1>1, PaperTyped
  <2>2. [p EXCEPT !.at = "record"] = [at |-> "record", correction |-> p.correction]
    OBVIOUS
  <2>3. held' = [held EXCEPT ![c] = k] /\ Handles(k, [at |-> "record", correction |-> c])
    BY <1>2, <2>1, <2>2 DEF LockCorrection
  <2>4. /\ held' \in [Corrections -> Clerks \union {Unheld}] /\ held'[c] = k
        /\ \A d \in Corrections, j \in Clerks \ {k} : held[d] = j => held'[d] = j
    BY <1>1, <2>3, UnheldAssumption DEF CorrectionsTyped
  <2> QED
    BY <1>1, <1>2, <2>3, <2>4, Papers, PapersMove DEF CorrectionsTyped
<1>3. CASE corrections[c] # "PENDING"
  BY <1>1, <1>3, Papers, PapersMove DEF LockCorrection, CorrectionsTyped, NoPaper
<1> QED
  BY <1>2, <1>3

\* Locking the record of the day keeps the correction locked.
LEMMA LockRecordInv == ASSUME CorrectionsInv, NEW k \in Clerks, LockRecord(k) PROVE CorrectionsInv'
<1>1. /\ desk[k].at = "record" /\ CorrectionsTyped /\ recorded \in BOOLEAN
      /\ Handles(k, [at |-> "approve", correction |-> desk[k].correction, found |-> recorded])
      /\ UNCHANGED <<corrections, recorded, logged, held>> /\ recordHeld' \in Clerks \union {Unheld}
  BY DEF LockRecord, CorrectionsInv, CorrectionsTyped
<1>2. desk[k].correction \in Corrections /\ Holding(k)
  BY <1>1, PaperTyped DEF CorrectionsInv
<1> QED
  BY <1>1, <1>2, Papers, PapersMove DEF Holding, CorrectionsTyped

\* A clerk who stops is rolled back.
LEMMA AbandonPaperInv == ASSUME CorrectionsInv, NEW k \in Clerks, AbandonPaper(k) PROVE CorrectionsInv'
BY Papers, LetsGoTyped, PapersMove DEF AbandonPaper, CorrectionsInv, NoPaper

\* The request enters.
LEMMA AskInv == ASSUME CorrectionsInv, NEW k \in Clerks, Ask(k) PROVE CorrectionsInv'
<1>1. PICK c \in Corrections : corrections[c] = "unasked" /\ corrections' = [corrections EXCEPT ![c] = "PENDING"]
  BY DEF Ask
<1>2. CorrectionsTyped /\ Handles(k, NoPaper) /\ UNCHANGED <<recorded, logged, held, recordHeld>>
  BY DEF Ask, CorrectionsInv
<1>3. desk' \in [Clerks -> PaperKinds] /\ desk'[k] = NoPaper /\ \A j \in Clerks \ {k} : desk'[j] = desk[j]
  BY <1>2, HandlesTyped, Papers
<1>4. CorrectionsTyped'
  BY <1>1, <1>2, <1>3 DEF CorrectionsTyped, CorrectionStatus
<1>5. AppliedOnce'
  BY <1>1, <1>2 DEF CorrectionsInv, CorrectionsTyped, AppliedOnce
<1>6. ASSUME NEW j \in Clerks PROVE Holding(j)'
  <2>1. desk[j].at \in {"record", "approve"} => desk[j].correction \in Corrections
    BY <1>2, PaperTyped
  <2> QED
    BY <1>1, <1>2, <1>3, <2>1 DEF CorrectionsInv, CorrectionsTyped, Holding, NoPaper
<1> QED
  BY <1>4, <1>5, <1>6 DEF CorrectionsInv

\* The one who holds a correction resolves it and logs it.
LEMMA ApproveInv == ASSUME CorrectionsInv, NEW k \in Clerks, Approve(k) PROVE CorrectionsInv'
<1> DEFINE c == desk[k].correction
<1>1. desk[k].at = "approve" /\ CorrectionsTyped /\ c \in Corrections /\ LetsGo(k) /\ Handles(k, NoPaper)
  BY PaperTyped DEF Approve, CorrectionsInv
<1>2. CASE recorded /\ ~desk[k].found
  <2>1. UNCHANGED <<corrections, recorded, logged>>
    BY <1>2 DEF Approve
  <2> QED
    BY <1>1, <2>1, LetsGoTyped, Papers, PapersMove DEF NoPaper
<1>3. CASE ~(recorded /\ ~desk[k].found)
  <2>1. /\ recorded' = TRUE
        /\ corrections' = [corrections EXCEPT ![c] = "APPROVED"]
        /\ logged' = [logged EXCEPT ![c] = @ + 1]
    BY <1>3 DEF Approve
  <2>2. held[c] = k /\ corrections[c] = "PENDING"
    BY <1>1 DEF CorrectionsInv, Holding
  <2>3. desk' \in [Clerks -> PaperKinds] /\ desk'[k] = NoPaper /\ \A j \in Clerks \ {k} : desk'[j] = desk[j]
    BY <1>1, HandlesTyped, Papers
  <2>4. CorrectionsTyped'
    BY <1>1, <2>1, <2>3, LetsGoTyped DEF CorrectionsTyped, CorrectionStatus
  <2>5. AppliedOnce'
    BY <1>1, <2>1, <2>2 DEF CorrectionsInv, CorrectionsTyped, AppliedOnce
  <2>6. ASSUME NEW j \in Clerks PROVE Holding(j)'
    <3>1. CASE j = k
      BY <3>1, <2>3 DEF Holding, NoPaper
    <3>2. CASE j # k
      <4>1. desk[j].at \in {"record", "approve"} =>
              desk[j].correction \in Corrections /\ held[desk[j].correction] = j /\ desk[j].correction # c
        BY <1>1, <2>2, <3>2, PaperTyped DEF CorrectionsInv, Holding
      <4> QED
        BY <1>1, <2>1, <2>3, <3>2, <4>1, LetsGoTyped DEF CorrectionsInv, CorrectionsTyped, Holding
    <3> QED
      BY <3>1, <3>2
  <2> QED
    BY <2>4, <2>5, <2>6 DEF CorrectionsInv
<1> QED
  BY <1>2, <1>3

\* A punch that writes the record meanwhile touches no correction.
LEMMA RecordDayInv == ASSUME CorrectionsInv, RecordDay \/ UNCHANGED correctionVars PROVE CorrectionsInv'
<1>1. UNCHANGED <<corrections, logged, held, recordHeld, desk>> /\ recorded' \in BOOLEAN
  BY DEF RecordDay, correctionVars, CorrectionsInv, CorrectionsTyped
<1> QED
  BY <1>1 DEF CorrectionsInv, CorrectionsTyped, AppliedOnce, Holding

\* Every step about corrections preserves the invariant.
LEMMA CorrectionsStep == ASSUME CorrectionsInv, [CorrectionsNext]_correctionVars PROVE CorrectionsInv'
BY TakePaperInv, LockCorrectionInv, LockRecordInv, AbandonPaperInv, AskInv, ApproveInv, RecordDayInv
   DEF CorrectionsNext, WorkOn

\* Both hold before the first request.
LEMMA CorrectionsBegin == ASSUME CorrectionsInit PROVE CorrectionsInv /\ OneAtDesk
BY Papers DEF CorrectionsInit, CorrectionsInv, CorrectionsTyped, CorrectionStatus, AppliedOnce, Holding,
   OneAtDesk, OnePending, Pending, NoPaper

\* A correction is applied exactly when it is approved, once, for any number of clerks.
THEOREM ApprovedOnce == CorrectionsSpec => []AppliedOnce
<1>1. CorrectionsInv => AppliedOnce
  BY DEF CorrectionsInv
<1> QED
  BY <1>1, CorrectionsBegin, CorrectionsStep, PTL DEF CorrectionsSpec

\* Requests one at a time: a step of one clerk, while the others rest, asks for a second
\* correction only when none is pending.
LEMMA DeskMoves ==
  ASSUME CorrectionsTyped, OneAtDesk, NEW k \in Clerks, \A j \in Clerks \ {k} : desk[j] = NoPaper,
         NEW next \in PaperKinds, Handles(k, next),
         next.at = "ask" => Pending' = {},
         \A c, d \in Pending' : c = d
  PROVE  OneAtDesk'
<1>1. desk'[k] = next /\ \A j \in Clerks \ {k} : desk'[j] = NoPaper
  BY HandlesTyped
<1> QED
  BY <1>1 DEF OneAtDesk, OnePending, NoPaper

\* One request at a time, no step leaves two corrections pending.
LEMMA SerialCorrectionsStep ==
  ASSUME CorrectionsInv, OneAtDesk, SerialCorrections PROVE OneAtDesk'
<1>1. CorrectionsTyped /\ OnePending
  BY DEF CorrectionsInv, OneAtDesk
<1>2. ASSUME NEW k \in Clerks, \A j \in Clerks \ {k} : desk[j] = NoPaper,
             TakePaper(k) \/ WorkOn(k) \/ AbandonPaper(k)
      PROVE  OneAtDesk'
  <2>1. CASE LookForPending(k)
    BY <1>1, <1>2, <2>1, Papers, DeskMoves DEF LookForPending, Pending
  <2>2. CASE OpenCorrection(k)
    <3>1. PICK c \in Corrections : Handles(k, [at |-> "lock", correction |-> c]) /\ Pending' = Pending
      BY <2>2 DEF OpenCorrection, Pending
    <3> QED
      BY <1>1, <1>2, <3>1, Papers, DeskMoves DEF OnePending
  <2>3. CASE Ask(k)
    <3>1. Pending = {} /\ Handles(k, NoPaper)
      BY <2>3 DEF Ask, OneAtDesk
    <3>2. PICK c \in Corrections : corrections' = [corrections EXCEPT ![c] = "PENDING"]
      BY <2>3 DEF Ask
    <3>3. Pending' \subseteq {c}
      BY <1>1, <3>1, <3>2 DEF Pending, CorrectionsTyped
    <3> QED
      BY <1>1, <1>2, <3>1, <3>3, Papers, DeskMoves DEF NoPaper
  <2>4. CASE LockCorrection(k)
    <3>1. Pending' = Pending /\ desk[k].at = "lock"
      BY <2>4 DEF LockCorrection, Pending
    <3>2. PICK p \in [at : {"lock", "record"}, correction : Corrections] : desk[k] = p
      BY <1>1, <3>1, PaperTyped
    <3>3. [p EXCEPT !.at = "record"] = [at |-> "record", correction |-> p.correction]
      OBVIOUS
    <3>4. Handles(k, NoPaper) \/ Handles(k, [at |-> "record", correction |-> p.correction])
      BY <2>4, <3>2, <3>3 DEF LockCorrection
    <3> QED
      BY <1>1, <1>2, <3>1, <3>4, Papers, DeskMoves DEF NoPaper, OnePending
  <2>5. CASE LockRecord(k)
    <3>1. /\ Pending' = Pending /\ desk[k].correction \in Corrections /\ recorded \in BOOLEAN
          /\ Handles(k, [at |-> "approve", correction |-> desk[k].correction, found |-> recorded])
      BY <1>1, <2>5, PaperTyped DEF LockRecord, Pending, CorrectionsTyped
    <3> QED
      BY <1>1, <1>2, <3>1, Papers, DeskMoves DEF OnePending
  <2>6. CASE Approve(k)
    <3>1. Pending' \subseteq Pending /\ Handles(k, NoPaper)
      BY <1>1, <2>6 DEF Approve, Pending, CorrectionsTyped
    <3> QED
      BY <1>1, <1>2, <3>1, Papers, DeskMoves DEF NoPaper, OnePending
  <2>7. CASE AbandonPaper(k)
    BY <1>1, <1>2, <2>7, Papers, DeskMoves DEF AbandonPaper, NoPaper, OnePending, Pending
  <2> QED
    BY <1>2, <2>1, <2>2, <2>3, <2>4, <2>5, <2>6, <2>7 DEF TakePaper, WorkOn
<1>3. ASSUME NEW k \in Clerks, WorkOn(k) \/ AbandonPaper(k)
      PROVE  desk[k] # NoPaper
  BY <1>3 DEF WorkOn, Ask, LockCorrection, LockRecord, Approve, AbandonPaper, NoPaper
<1>4. CASE RecordDay
  BY <1>4 DEF RecordDay, OneAtDesk, OnePending, Pending
<1> QED
  BY <1>2, <1>3, <1>4 DEF SerialCorrections, CorrectionsNext, OneAtDesk

-----------------------------------------------------------------------------
(* The attendance of a day *)

\* As DayRows, without a last instant: the jobs may supply later ones.
AnyRows == [in : Nat \union {NoTime}, out : Nat \union {NoTime}, state : PunchStates]
Closing == {"closeBreak", "autoCheckout", "nightCheckout"}

\* A closed day has its time; a job that will close one has read a check-in.
DayInv ==
    /\ now \in Nat /\ record \in AnyRows /\ wrote \in {"punch", "statement", "entry"}
    /\ breaks \in Seq({"BREAK_START", "BREAK_END"}) /\ half \in BOOLEAN
    /\ run \in [Runs -> [at : RunPositions, read : AnyRows]]
    /\ \A w \in Runs : run[w].at \in Closing => run[w].read.in # NoTime
    /\ ClosedHasTime

\* While no request comes between, a job writes the check-in it has read, and breaks are over
\* when a check-out is supplied.
JobSees(w) ==
    /\ run[w].at \in {"startBreak", "endBreak"} => now < Threshold /\ InSession
    /\ run[w].at \in Closing \union {"nightCreate"} => Threshold <= now
    /\ run[w].at \in Closing => /\ run[w].read.in = record.in
                                /\ run[w].read.state = "CHECKED_OUT" => record.state = "CHECKED_OUT"
    /\ run[w].at = "nightCheckout" => now \in NightRuns /\ OldEnough(run[w].read.in, NightAge)

\* and no punched check-in lies in the future.
InThePast == wrote = "punch" /\ record.in # NoTime => record.in <= now

SerialDayInv == Sessions /\ InThePast /\ \A w \in Runs : JobSees(w)

\* What a job writes over a row.
LEMMA RowClosed ==
  ASSUME record \in AnyRows, NEW read \in AnyRows, NEW out \in Nat
  PROVE  ClosedRow(read, out) =
           DayRow(record.in, out, IF read.state = "CHECKED_OUT" THEN record.state ELSE "CHECKED_OUT")
<1>1. PICK r \in AnyRows : record = r
  OBVIOUS
<1>2. \A s \in PunchStates : [r EXCEPT !.out = out, !.state = s] = [in |-> r.in, out |-> out, state |-> s]
  <2> SUFFICES ASSUME NEW s \in PunchStates
               PROVE  [r EXCEPT !.out = out, !.state = s] = [in |-> r.in, out |-> out, state |-> s]
    OBVIOUS
  <2>1. PICK e : e = [r EXCEPT !.out = out, !.state = s]
    OBVIOUS
  <2>2. e \in AnyRows /\ e.in = r.in /\ e.out = out /\ e.state = s
    BY <2>1 DEF AnyRows
  <2>3. e = [in |-> e.in, out |-> e.out, state |-> e.state]
    BY <2>2 DEF AnyRows
  <2> QED
    BY <2>1, <2>2, <2>3
<1>3. "CHECKED_OUT" \in PunchStates /\ r.state \in PunchStates
  BY Zenon DEF AnyRows, PunchStates
<1>4. CASE read.state = "CHECKED_OUT"
  BY <1>1, <1>2, <1>3, <1>4, Zenon DEF ClosedRow, DayRow
<1>5. CASE read.state # "CHECKED_OUT"
  BY <1>1, <1>2, <1>3, <1>5, Zenon DEF ClosedRow, DayRow
<1> QED
  BY <1>4, <1>5

\* and what a break writes over one.
LEMMA RowPaused ==
  ASSUME record \in AnyRows, NEW s \in PunchStates
  PROVE  [record EXCEPT !.state = s] = DayRow(record.in, record.out, s)
<1>1. PICK r \in AnyRows : record = r
  OBVIOUS
<1>2. [r EXCEPT !.state = s] = [in |-> r.in, out |-> r.out, state |-> s]
  BY DEF AnyRows
<1> QED
  BY <1>1, <1>2 DEF DayRow

\* The fields of a row.
LEMMA RowFields ==
  /\ \A in, out, s : DayRow(in, out, s).in = in /\ DayRow(in, out, s).out = out /\ DayRow(in, out, s).state = s
  /\ \A in, out \in Nat \union {NoTime}, s \in PunchStates : DayRow(in, out, s) \in AnyRows
  /\ \A r \in AnyRows : /\ r.in \in Nat \union {NoTime} /\ r.out \in Nat \union {NoTime} /\ r.state \in PunchStates
                        /\ r = DayRow(r.in, r.out, r.state)
  /\ NoRow \in AnyRows
<1>1. \A in, out, s : DayRow(in, out, s).in = in /\ DayRow(in, out, s).out = out /\ DayRow(in, out, s).state = s
  BY DEF DayRow
<1>2. \A in, out \in Nat \union {NoTime}, s \in PunchStates : DayRow(in, out, s) \in AnyRows
  BY DEF DayRow, AnyRows
<1>3. \A r \in AnyRows : r.in \in Nat \union {NoTime} /\ r.out \in Nat \union {NoTime} /\ r.state \in PunchStates
  BY DEF AnyRows
<1>4. \A r \in AnyRows : r = DayRow(r.in, r.out, r.state)
  BY DEF DayRow, AnyRows
<1>5. NoRow \in AnyRows
  BY <1>2, Zenon DEF NoRow, PunchStates
<1> QED
  BY <1>1, <1>2, <1>3, <1>4, <1>5

\* A step of a job to its next statement.
LEMMA RunMoves ==
  ASSUME DayInv, NEW w \in Runs, NEW at \in RunPositions, NEW read \in AnyRows, Continue(w, at, read),
         at \in Closing => read.in # NoTime
  PROVE  /\ run' \in [Runs -> [at : RunPositions, read : AnyRows]]
         /\ run'[w].at = at /\ run'[w].read = read
         /\ \A v \in Runs \ {w} : run'[v] = run[v]
         /\ \A v \in Runs : run'[v].at \in Closing => run'[v].read.in # NoTime
BY DEF DayInv, Continue

\* A run that ends.
LEMMA RunEnds ==
  ASSUME DayInv, NEW w \in Runs, Ended(w)
  PROVE  /\ run' \in [Runs -> [at : RunPositions, read : AnyRows]]
         /\ run'[w].at = "idle"
         /\ \A v \in Runs \ {w} : run'[v] = run[v]
         /\ \A v \in Runs : run'[v].at \in Closing => run'[v].read.in # NoTime
BY RowFields DEF DayInv, Ended, NotRunning, RunPositions, Closing

\* A request, or time, leaves the runs alone.
LEMMA DayRequest ==
  ASSUME DayInv, UNCHANGED run, now' \in Nat, record' \in AnyRows, ClosedHasTime',
         wrote' \in {"punch", "statement", "entry"},
         breaks' \in Seq({"BREAK_START", "BREAK_END"}), half' \in BOOLEAN
  PROVE  DayInv'
BY DEF DayInv

\* A log is appended.
LEMMA LoggedTyped ==
  ASSUME DayInv, NEW kind \in {"BREAK_START", "BREAK_END"}, Logged(kind)
  PROVE  breaks' \in Seq({"BREAK_START", "BREAK_END"}) /\ Len(breaks') > 0 /\ breaks'[Len(breaks')] = kind
         /\ breaks' # <<>>
BY DEF DayInv, Logged

\* The times that are supplied for a check-out are times,
LEMMA TimesSupplied == ASSUME NEW in \in Nat PROVE AutoTime(in) \in Nat /\ NightTime(in) \in Nat
BY TimeAssumption DEF AutoTime, NightTime

\* not before the check-in and not in the future.
LEMMA TimesPast ==
  ASSUME NEW in \in Nat
  PROVE  /\ in <= AutoTime(in)
         /\ \A n \in Nat : Threshold <= n /\ in <= n => AutoTime(in) <= n
         /\ \A n \in NightRuns : in + NightAge <= n => in <= NightTime(in) /\ NightTime(in) <= n
<1>1. ShiftEnd \in Nat /\ Day \in Nat /\ NightAge \in Nat /\ Threshold \in Nat /\ ShiftEnd <= Threshold
  BY TimeAssumption, PolicyAssumption
<1>2. \A n \in NightRuns : /\ n \in Nat /\ Threshold <= n
                           /\ n <= ShiftEnd + NightAge \/ (ShiftEnd + Day <= n /\ n <= ShiftEnd + Day + NightAge)
  BY TimeAssumption, PolicyAssumption
<1>3. in <= AutoTime(in) /\ \A n \in Nat : Threshold <= n /\ in <= n => AutoTime(in) <= n
  BY <1>1 DEF AutoTime
<1>4. CASE ShiftEnd < in
  BY <1>1, <1>2, <1>3, <1>4 DEF NightTime
<1>5. CASE ~(ShiftEnd < in)
  BY <1>1, <1>2, <1>3, <1>5 DEF NightTime
<1> QED
  BY <1>4, <1>5

\* A request, or time, keeps them.
LEMMA PunchInv ==
  ASSUME DayInv, Tick \/ CheckIn \/ CheckOut \/ ManualOverride \/ ManualAttendance \/ ApplyCorrection
  PROVE  DayInv'
<1> USE RowFields
<1>1. NoTime \notin Nat
  BY TimeAssumption
<1>2. CASE Tick
  BY <1>2, DayRequest DEF Tick, DayInv, ClosedHasTime
<1>3. CASE CheckIn
  <2>1. record' = DayRow(now, NoTime, "WORKING") /\ now \in Nat
    BY <1>3 DEF CheckIn, DayInv
  <2>2. record' \in AnyRows /\ record'.state = "WORKING"
    BY <2>1, Zenon DEF PunchStates, DayRow, AnyRows
  <2> QED
    BY <1>3, <2>2, DayRequest DEF CheckIn, DayInv, ClosedHasTime
<1>4. CASE CheckOut
  <2>1. record' = DayRow(record.in, now, "CHECKED_OUT") /\ now \in Nat /\ record \in AnyRows
    BY <1>4 DEF CheckOut, DayInv
  <2>2. record' \in AnyRows /\ record'.out # NoTime
    BY <1>1, <2>1, Zenon DEF PunchStates, DayRow, AnyRows
  <2>3. breaks' \in Seq({"BREAK_START", "BREAK_END"})
    BY <1>4, LoggedTyped DEF CheckOut, DayInv
  <2> QED
    BY <1>4, <2>2, <2>3, DayRequest DEF CheckOut, DayInv, ClosedHasTime
<1>5. Stated \subseteq Nat
  BY TimeAssumption
<1>6. CASE ManualOverride \/ ApplyCorrection
  <2>1. PICK in \in Nat \union {NoTime}, out \in Nat \union {NoTime} : Statement(in, out)
    BY <1>5, <1>6 DEF ManualOverride, ApplyCorrection, DayInv
  <2>2. StateOf(in, out) \in PunchStates /\ (StateOf(in, out) = "CHECKED_OUT" => out # NoTime)
    BY Zenon DEF StateOf, PunchStates
  <2>3. record' \in AnyRows /\ (record'.state = "CHECKED_OUT" => record'.out # NoTime)
    BY <2>1, <2>2 DEF Statement, DayRow, AnyRows
  <2> QED
    BY <2>1, <2>3, DayRequest DEF Statement, DayInv, ClosedHasTime
<1>7. CASE ManualAttendance
  <2>1. PICK in \in Nat \union {NoTime}, out \in Nat \union {NoTime} : record' = DayRow(in, out, "CHECKED_OUT")
    BY <1>5, <1>7 DEF ManualAttendance
  <2>2. "CHECKED_OUT" \in PunchStates
    BY Zenon DEF PunchStates
  <2>3. record' \in AnyRows
    BY <2>1, <2>2, Zenon
  <2> QED
    BY <1>7, <2>3, DayRequest DEF ManualAttendance, DayInv, ClosedHasTime
<1> QED
  BY <1>2, <1>3, <1>4, <1>6, <1>7

\* What a closing job writes.
LEMMA DayCloses ==
  ASSUME record \in AnyRows, NEW read \in AnyRows, NEW out \in Nat, record' = ClosedRow(read, out)
  PROVE  /\ record' \in AnyRows /\ record'.in = record.in /\ record'.out = out
         /\ record'.state = IF read.state = "CHECKED_OUT" THEN record.state ELSE "CHECKED_OUT"
<1>1. PICK s \in PunchStates : s = IF read.state = "CHECKED_OUT" THEN record.state ELSE "CHECKED_OUT"
  BY Zenon DEF AnyRows, PunchStates
<1>2. record' = DayRow(record.in, out, s)
  BY <1>1, RowClosed
<1>3. PICK in \in Nat \union {NoTime} : record.in = in
  BY DEF AnyRows
<1>4. record' = [in |-> in, out |-> out, state |-> s]
  BY <1>2, <1>3 DEF DayRow
<1>5. [in |-> in, out |-> out, state |-> s] \in AnyRows
  BY DEF AnyRows
<1>6. record'.in = in /\ record'.out = out /\ record'.state = s
  BY <1>4
<1> QED
  BY <1>1, <1>3, <1>4, <1>5, <1>6

\* So does a step of a job, whatever the row has become since it was read.
LEMMA RunStepInv ==
  ASSUME DayInv, NEW w \in Runs, RunStep(w) \/ RunStops(w)
  PROVE  DayInv'
<1> USE RowFields
<1>1. NoTime \notin Nat /\ record \in AnyRows /\ now \in Nat /\ run[w].read \in AnyRows
  BY TimeAssumption DEF DayInv
<1>2. CASE ReadForBreaks(w)
  <2>1. PICK at \in {"startBreak", "endBreak"} : Continue(w, at, record)
    BY <1>2 DEF ReadForBreaks
  <2>2. at \in RunPositions /\ at \notin Closing
    BY DEF RunPositions, Closing
  <2> QED
    BY <1>1, <1>2, <2>1, <2>2, RunMoves DEF ReadForBreaks, DayInv, ClosedHasTime
<1>3. CASE WriteBreak(w)
  <2>1. PICK s \in {"ON_BREAK", "WORKING"}, kind \in {"BREAK_START", "BREAK_END"} :
           record' = [record EXCEPT !.state = s] /\ Logged(kind)
    BY <1>3 DEF WriteBreak
  <2>2. record' = DayRow(record.in, record.out, s)
    BY <1>1, <2>1, RowPaused, Zenon DEF PunchStates
  <2>3. record' \in AnyRows /\ record'.state # "CHECKED_OUT"
    BY <1>1, <2>2, Zenon DEF PunchStates, DayRow, AnyRows
  <2> QED
    BY <1>3, <2>1, <2>3, RunEnds, LoggedTyped DEF WriteBreak, DayInv, ClosedHasTime
<1>4. CASE ReadForCheckout(w)
  <2>1. PICK at \in {"closeBreak", "autoCheckout"} : Continue(w, at, record)
    BY <1>4 DEF ReadForCheckout
  <2>2. at \in RunPositions /\ record.in # NoTime
    BY <1>4 DEF RunPositions, ReadForCheckout, InSession
  <2> QED
    BY <1>1, <1>4, <2>1, <2>2, RunMoves DEF ReadForCheckout, DayInv, ClosedHasTime
<1>5. CASE CloseBreak(w)
  <2>1. Continue(w, "autoCheckout", run[w].read) /\ run[w].read.in # NoTime /\ "autoCheckout" \in RunPositions
    BY <1>5 DEF CloseBreak, DayInv, Closing, RunPositions
  <2>2. breaks' \in Seq({"BREAK_START", "BREAK_END"}) /\ half' \in BOOLEAN
    BY <1>5, LoggedTyped DEF CloseBreak, DayInv
  <2> QED
    BY <1>1, <1>5, <2>1, <2>2, RunMoves DEF CloseBreak, DayInv, ClosedHasTime
<1>6. CASE AutoCheckout(w)
  <2>1. run[w].at \in Closing /\ run[w].read.in \in Nat
    BY <1>1, <1>6 DEF AutoCheckout, Closing, DayInv
  <2>2. AutoTime(run[w].read.in) \in Nat
    BY <2>1, TimesSupplied
  <2>3. record' \in AnyRows /\ record'.out # NoTime
    BY <1>1, <1>6, <2>1, <2>2, DayCloses DEF AutoCheckout
  <2> QED
    BY <1>6, <2>3, RunEnds DEF AutoCheckout, DayInv, ClosedHasTime
<1>7. CASE ReadForNight(w)
  <2>1. PICK at \in {"nightCreate", "nightCheckout"} :
           Continue(w, at, record) /\ (at = "nightCheckout" => record.in # NoTime)
    BY <1>7 DEF ReadForNight, InSession
  <2>2. at \in RunPositions /\ (at \in Closing => at = "nightCheckout")
    BY DEF RunPositions, Closing
  <2> QED
    BY <1>1, <1>7, <2>1, <2>2, RunMoves DEF ReadForNight, DayInv, ClosedHasTime
<1>8. CASE NightCreate(w)
  <2>1. record' = record \/ record' = DayRow(NoTime, NoTime, "NOT_CHECKED_IN")
    BY <1>8 DEF NightCreate
  <2>2. CASE record' = record
    BY <1>1, <1>8, <2>2, RunEnds DEF NightCreate, DayInv, ClosedHasTime
  <2>3. CASE record' = DayRow(NoTime, NoTime, "NOT_CHECKED_IN")
    <3>1. record' = [in |-> NoTime, out |-> NoTime, state |-> "NOT_CHECKED_IN"]
      BY <2>3 DEF DayRow
    <3>2. record' \in AnyRows /\ record'.state = "NOT_CHECKED_IN"
      BY <3>1, Zenon DEF AnyRows, PunchStates
    <3>3. ClosedHasTime'
      BY <3>2 DEF ClosedHasTime
    <3> QED
      BY <1>8, <3>2, <3>3, RunEnds DEF NightCreate, DayInv
  <2> QED
    BY <2>1, <2>2, <2>3
<1>9. CASE NightCheckout(w)
  <2>1. run[w].at \in Closing /\ run[w].read.in \in Nat
    BY <1>1, <1>9 DEF NightCheckout, Closing, DayInv
  <2>2. NightTime(run[w].read.in) \in Nat
    BY <2>1, TimesSupplied
  <2>3. record' \in AnyRows /\ record'.out # NoTime
    BY <1>1, <1>9, <2>1, <2>2, DayCloses DEF NightCheckout
  <2> QED
    BY <1>9, <2>3, RunEnds DEF NightCheckout, DayInv, ClosedHasTime
<1>10. CASE RunStops(w)
  BY <1>10, RunEnds DEF RunStops, DayInv, ClosedHasTime
<1> QED
  BY <1>2, <1>3, <1>4, <1>5, <1>6, <1>7, <1>8, <1>9, <1>10 DEF RunStep

\* Every step keeps the first invariant,
LEMMA DayStep == ASSUME DayInv, [DayNext]_dayVars PROVE DayInv'
<1>1. CASE UNCHANGED dayVars
  BY <1>1 DEF dayVars, DayInv, ClosedHasTime
<1> QED
  BY <1>1, PunchInv, RunStepInv DEF DayNext

\* and a day begins with both.
LEMMA DayBegin == ASSUME DayInit PROVE DayInv /\ SerialDayInv
<1>1. now = 0 /\ record = NoRow /\ breaks = <<>> /\ half = FALSE /\ run = [w \in Runs |-> NotRunning]
  BY DEF DayInit
<1>2. \A w \in Runs : run[w].at = "idle" /\ run[w].read = NoRow
  BY <1>1 DEF NotRunning
<1>3. run \in [Runs -> [at : RunPositions, read : AnyRows]]
  BY <1>1, RowFields DEF NotRunning, RunPositions
<1>4. record.state = "no row" /\ record.in = NoTime /\ record.out = NoTime
  BY <1>1, Zenon DEF NoRow, DayRow
<1>5. DayInv
  <2>1. /\ breaks \in Seq({"BREAK_START", "BREAK_END"}) /\ record \in AnyRows
        /\ wrote \in {"punch", "statement", "entry"}
    BY <1>1, RowFields DEF DayInit
  <2>2. ClosedHasTime /\ \A w \in Runs : run[w].at \notin Closing
    BY <1>2, <1>4, Zenon DEF ClosedHasTime, Closing
  <2> QED
    BY <1>1, <1>3, <2>1, <2>2 DEF DayInv
<1>6. Sessions /\ InThePast
  BY <1>4, Zenon DEF InThePast, Sessions, OpenHasNone, InOrder, OnBreakIsLogged, CheckedIn
<1>7. \A w \in Runs : JobSees(w)
  BY <1>2 DEF JobSees, Closing
<1> QED
  BY <1>5, <1>6, <1>7 DEF SerialDayInv

\* The instants of a break, of a check-out supplied and of a night do not meet.
LEMMA TimesApart ==
  ASSUME now \in Nat
  PROVE  /\ ShouldBeOnBreak \/ ShouldEndBreak => now < Threshold
         /\ now \in NightRuns => Threshold <= now
BY TimeAssumption, PolicyAssumption DEF ShouldBeOnBreak, ShouldEndBreak

\* Requests come only while no job is in progress.
LEMMA QuietPunch ==
  ASSUME DayInv, SerialDayInv, \A w \in Runs : run[w] = NotRunning,
         Tick \/ CheckIn \/ CheckOut \/ ManualOverride \/ ManualAttendance \/ ApplyCorrection
  PROVE  SerialDayInv'
<1>1. \A w \in Runs : run'[w].at = "idle"
  BY DEF Tick, CheckIn, CheckOut, ManualOverride, ManualAttendance, ApplyCorrection, Statement, NotRunning
<1>2. \A w \in Runs : JobSees(w)'
  BY <1>1 DEF JobSees, Closing
<1>3. /\ NoTime \notin Nat /\ now \in Nat /\ record \in AnyRows
      /\ record.in \in Nat \union {NoTime} /\ record.out \in Nat \union {NoTime}
  BY TimeAssumption DEF DayInv, AnyRows
<1>4. Sessions' /\ InThePast'
  <2>1. CASE Tick
    BY <1>3, <2>1 DEF Tick, SerialDayInv, Sessions, OpenHasNone, InOrder, OnBreakIsLogged, OpenBreak, InThePast
  <2>2. CASE CheckIn
    <3>1. record' = [in |-> now, out |-> NoTime, state |-> "WORKING"]
      BY <2>2 DEF CheckIn, DayRow
    <3>2. record'.in = now /\ record'.out = NoTime /\ record'.state = "WORKING" /\ now' = now
      BY <2>2, <3>1 DEF CheckIn
    <3> QED
      BY <1>3, <3>2 DEF Sessions, OpenHasNone, InOrder, OnBreakIsLogged, InThePast
  <2>3. CASE CheckOut
    <3>1. record' = [in |-> record.in, out |-> now, state |-> "CHECKED_OUT"]
      BY <2>3 DEF CheckOut, DayRow
    <3>2. record'.in = record.in /\ record'.out = now /\ record'.state = "CHECKED_OUT" /\ UNCHANGED <<now, wrote>>
      BY <2>3, <3>1 DEF CheckOut
    <3> QED
      BY <1>3, <3>2 DEF SerialDayInv, Sessions, OpenHasNone, InOrder, OnBreakIsLogged, CheckedIn, InThePast
  <2>4. CASE ManualOverride \/ ApplyCorrection
    <3>1. PICK in, out : Statement(in, out)
      BY <2>4 DEF ManualOverride, ApplyCorrection
    <3>2. PICK s \in {"CHECKED_OUT", "WORKING", "NOT_CHECKED_IN"} :
             /\ s = StateOf(in, out)
             /\ s = "WORKING" => in # NoTime /\ out = NoTime
      BY DEF StateOf
    <3>3. record' = [in |-> in, out |-> out, state |-> s] /\ wrote' = "statement"
      BY <3>1, <3>2 DEF Statement, DayRow
    <3>4. record'.in = in /\ record'.out = out /\ record'.state = s
      BY <3>3
    <3> QED
      BY <3>2, <3>3, <3>4 DEF Sessions, OpenHasNone, InOrder, OnBreakIsLogged, CheckedIn, InThePast
  <2>5. CASE ManualAttendance
    <3>1. PICK in, out : record' = [in |-> in, out |-> out, state |-> "CHECKED_OUT"]
      BY <2>5 DEF ManualAttendance, DayRow
    <3>2. record'.state = "CHECKED_OUT" /\ wrote' = "entry"
      BY <2>5, <3>1 DEF ManualAttendance
    <3> QED
      BY <3>2 DEF Sessions, OpenHasNone, InOrder, OnBreakIsLogged, CheckedIn, InThePast
  <2> QED
    BY <2>1, <2>2, <2>3, <2>4, <2>5
<1> QED
  BY <1>2, <1>4 DEF SerialDayInv

\* What the others have read stays true when the check-in does and the row, where a break is
\* in progress, stays open.
LEMMA OthersSee ==
  ASSUME DayInv, SerialDayInv, NEW w \in Runs, UNCHANGED now, \A v \in Runs \ {w} : run'[v] = run[v],
         \/ record'.in = record.in /\ (record.state = "CHECKED_OUT" => record'.state = "CHECKED_OUT")
         \/ \A v \in Runs \ {w} : run[v].at \notin Closing,
         InSession => InSession' \/ Threshold <= now
  PROVE  \A v \in Runs \ {w} : JobSees(v)'
<1> SUFFICES ASSUME NEW v \in Runs \ {w} PROVE JobSees(v)'
  OBVIOUS
<1>1. JobSees(v) /\ run'[v] = run[v] /\ now' = now
  BY DEF SerialDayInv
<1>2. now \in Nat /\ Threshold \in Nat
  BY TimeAssumption DEF DayInv
<1> QED
  BY <1>1, <1>2 DEF JobSees, OldEnough, InSession

\* The jobs overlap each other, and not the requests.
LEMMA SerialRunStep ==
  ASSUME DayInv, SerialDayInv, NEW w \in Runs, RunStep(w) \/ RunStops(w)
  PROVE  SerialDayInv'
<1>1. /\ NoTime \notin Nat /\ record \in AnyRows /\ now \in Nat /\ run[w].read \in AnyRows /\ Threshold \in Nat
      /\ record.in \in Nat \union {NoTime} /\ record.out \in Nat \union {NoTime}
      /\ JobSees(w) /\ Sessions /\ InThePast
  BY TimeAssumption DEF DayInv, AnyRows, SerialDayInv
<1>2. ASSUME UNCHANGED <<now, record, wrote>>, OnBreakIsLogged', \A v \in Runs \ {w} : run'[v] = run[v], JobSees(w)'
      PROVE  SerialDayInv'
  <2>1. \A v \in Runs \ {w} : JobSees(v)'
    BY <1>2, OthersSee DEF InSession
  <2>2. Sessions' /\ InThePast'
    BY <1>1, <1>2 DEF Sessions, OpenHasNone, InOrder, InThePast
  <2> QED
    BY <1>2, <2>1, <2>2 DEF SerialDayInv
<1>3. ASSUME UNCHANGED <<now, record, wrote, breaks, half>>, \A v \in Runs \ {w} : run'[v] = run[v], JobSees(w)'
      PROVE  SerialDayInv'
  BY <1>1, <1>2, <1>3 DEF Sessions, OnBreakIsLogged, OpenBreak
<1>4. CASE ReadForBreaks(w)
  <2>1. PICK at \in {"startBreak", "endBreak"} : Continue(w, at, record)
    BY <1>4 DEF ReadForBreaks
  <2>2. at \in RunPositions /\ at \notin Closing \union {"nightCreate"}
    BY DEF RunPositions, Closing
  <2>3. now < Threshold /\ InSession
    BY <1>1, <1>4, TimesApart DEF ReadForBreaks, Sessions, OpenHasNone, CheckedIn, InSession
  <2>4. run'[w].at = at /\ \A v \in Runs \ {w} : run'[v] = run[v]
    BY <1>1, <2>1, <2>2, RunMoves
  <2>5. JobSees(w)'
    BY <1>4, <2>2, <2>3, <2>4 DEF ReadForBreaks, JobSees, InSession, Closing
  <2> QED
    BY <1>3, <1>4, <2>4, <2>5 DEF ReadForBreaks
<1>5. CASE WriteBreak(w)
  <2>1. PICK s \in {"ON_BREAK", "WORKING"} :
           /\ record' = [record EXCEPT !.state = s]
           /\ s = "ON_BREAK" => Logged("BREAK_START")
    BY <1>5 DEF WriteBreak
  <2>2. record' = [in |-> record.in, out |-> record.out, state |-> s]
    BY <1>1, <2>1, RowPaused, Zenon DEF PunchStates, DayRow
  <2>3. record'.in = record.in /\ record'.out = record.out /\ record'.state = s
    BY <2>2
  <2>4. InSession /\ InSession' /\ UNCHANGED <<now, wrote>>
    BY <1>1, <1>5, <2>3 DEF JobSees, InSession, WriteBreak
  <2>5. s = "ON_BREAK" => OpenBreak'
    BY <2>1, LoggedTyped DEF OpenBreak
  <2>6. Sessions' /\ InThePast'
    BY <1>1, <2>3, <2>4, <2>5 DEF Sessions, OpenHasNone, InOrder, OnBreakIsLogged, InThePast, InSession
  <2>7. run'[w].at = "idle" /\ \A v \in Runs \ {w} : run'[v] = run[v]
    BY <1>5, RunEnds DEF WriteBreak
  <2>8. JobSees(w)'
    BY <2>7 DEF JobSees, Closing
  <2>9. \A v \in Runs \ {w} : run[v].at \notin Closing
    BY <1>1, <1>5 DEF SerialDayInv, JobSees, WriteBreak
  <2>10. \A v \in Runs \ {w} : JobSees(v)'
    BY <2>4, <2>7, <2>9, OthersSee
  <2> QED
    BY <2>6, <2>8, <2>10 DEF SerialDayInv
<1>6. CASE ReadForCheckout(w)
  <2>1. PICK at \in {"closeBreak", "autoCheckout"} : Continue(w, at, record)
    BY <1>6 DEF ReadForCheckout
  <2>2. at \in RunPositions /\ record.in # NoTime /\ Threshold <= now
    BY <1>6 DEF RunPositions, ReadForCheckout, InSession
  <2>3. run'[w].at = at /\ run'[w].read = record /\ \A v \in Runs \ {w} : run'[v] = run[v]
    BY <1>1, <2>1, <2>2, RunMoves
  <2>4. JobSees(w)'
    BY <1>6, <2>2, <2>3 DEF ReadForCheckout, JobSees
  <2> QED
    BY <1>3, <1>6, <2>3, <2>4 DEF ReadForCheckout
<1>7. CASE CloseBreak(w)
  <2>1. /\ Continue(w, "autoCheckout", run[w].read) /\ "autoCheckout" \in RunPositions
        /\ run[w].read.in # NoTime /\ run[w].at \in Closing
    BY <1>7 DEF CloseBreak, RunPositions, DayInv, Closing
  <2>2. run'[w].at = "autoCheckout" /\ run'[w].read = run[w].read /\ \A v \in Runs \ {w} : run'[v] = run[v]
    BY <1>1, <2>1, RunMoves
  <2>3. JobSees(w)'
    BY <1>1, <1>7, <2>1, <2>2 DEF CloseBreak, JobSees
  <2>4. OnBreakIsLogged'
    BY <1>1, <1>7 DEF CloseBreak, Sessions, OnBreakIsLogged, OpenBreak
  <2> QED
    BY <1>2, <1>7, <2>2, <2>3, <2>4 DEF CloseBreak
<1>8. ASSUME run[w].at \in Closing, Ended(w), UNCHANGED <<now, wrote>>,
             NEW in, run[w].read.in = in, NEW out \in Nat, record' = ClosedRow(run[w].read, out), in <= out
      PROVE  SerialDayInv'
  <2>1. PICK read \in AnyRows : run[w].read = read
    BY <1>1
  <2>2. /\ record.in = in /\ Threshold <= now /\ in # NoTime
        /\ read.state = "CHECKED_OUT" => record.state = "CHECKED_OUT"
    BY <1>1, <1>8, <2>1 DEF JobSees, DayInv
  <2>3. record'.in = record.in /\ record'.out = out /\ record'.state = "CHECKED_OUT"
    BY <1>1, <1>8, <2>1, <2>2, DayCloses
  <2>4. Sessions' /\ InThePast'
    BY <1>1, <1>8, <2>2, <2>3 DEF Sessions, OpenHasNone, InOrder, OnBreakIsLogged, InThePast, CheckedIn
  <2>5. run'[w].at = "idle" /\ \A v \in Runs \ {w} : run'[v] = run[v]
    BY <1>8, RunEnds
  <2>6. JobSees(w)'
    BY <2>5 DEF JobSees, Closing
  <2>7. \A v \in Runs \ {w} : JobSees(v)'
    BY <1>8, <2>2, <2>3, <2>5, OthersSee
  <2> QED
    BY <2>4, <2>6, <2>7 DEF SerialDayInv
<1>9. CASE AutoCheckout(w)
  <2>1. run[w].at \in Closing /\ run[w].read.in \in Nat /\ run[w].read.in = record.in
    BY <1>1, <1>9 DEF AutoCheckout, Closing, DayInv, JobSees, AnyRows
  <2>2. AutoTime(run[w].read.in) \in Nat /\ run[w].read.in <= AutoTime(run[w].read.in)
    BY <2>1, TimesSupplied, TimesPast
  <2> QED
    BY <1>8, <1>9, <2>1, <2>2 DEF AutoCheckout
<1>10. CASE ReadForNight(w)
  <2>1. PICK at \in {"nightCreate", "nightCheckout"} :
           /\ Continue(w, at, record)
           /\ at = "nightCheckout" => InSession /\ OldEnough(record.in, NightAge)
    BY <1>10 DEF ReadForNight
  <2>2. at \in RunPositions /\ (at \in Closing <=> at = "nightCheckout") /\ Threshold <= now /\ now \in NightRuns
    BY <1>1, <1>10, TimesApart DEF RunPositions, Closing, ReadForNight
  <2>3. run'[w].at = at /\ run'[w].read = record /\ \A v \in Runs \ {w} : run'[v] = run[v]
    BY <1>1, <2>1, <2>2, RunMoves DEF InSession
  <2>4. JobSees(w)'
    BY <1>10, <2>1, <2>2, <2>3 DEF ReadForNight, JobSees, OldEnough
  <2> QED
    BY <1>3, <1>10, <2>3, <2>4 DEF ReadForNight
<1>11. CASE NightCreate(w)
  <2>1. run'[w].at = "idle" /\ (\A v \in Runs \ {w} : run'[v] = run[v]) /\ UNCHANGED <<now, wrote, breaks, half>>
    BY <1>11, RunEnds DEF NightCreate
  <2>2. JobSees(w)'
    BY <2>1 DEF JobSees, Closing
  <2>3. CASE record' = record
    BY <1>3, <2>1, <2>2, <2>3
  <2>4. CASE NoRecord /\ record' = DayRow(NoTime, NoTime, "NOT_CHECKED_IN")
    <3>1. record.in = NoTime
      BY <2>4, Zenon DEF NoRecord, NoRow, DayRow
    <3>2. record' = [in |-> NoTime, out |-> NoTime, state |-> "NOT_CHECKED_IN"]
      BY <2>4 DEF DayRow
    <3>3. record'.in = NoTime /\ record'.out = NoTime /\ record'.state = "NOT_CHECKED_IN"
      BY <3>2
    <3>4. Sessions' /\ InThePast'
      BY <3>3 DEF Sessions, OpenHasNone, InOrder, OnBreakIsLogged, InThePast, CheckedIn
    <3>5. record.state # "CHECKED_OUT"
      BY <2>4, Zenon DEF NoRecord, NoRow, DayRow
    <3>6. \A v \in Runs \ {w} : JobSees(v)'
      BY <2>1, <3>1, <3>3, <3>5, OthersSee DEF InSession
    <3> QED
      BY <2>2, <3>4, <3>6 DEF SerialDayInv
  <2> QED
    BY <1>11, <2>3, <2>4 DEF NightCreate
<1>12. CASE NightCheckout(w)
  <2>1. run[w].at \in Closing /\ run[w].read.in \in Nat /\ now \in NightRuns /\ run[w].read.in + NightAge <= now
    BY <1>1, <1>12 DEF NightCheckout, Closing, DayInv, JobSees, AnyRows, OldEnough
  <2>2. NightTime(run[w].read.in) \in Nat /\ run[w].read.in <= NightTime(run[w].read.in)
    BY <2>1, TimesSupplied, TimesPast
  <2> QED
    BY <1>8, <1>12, <2>1, <2>2 DEF NightCheckout
<1>13. CASE RunStops(w)
  <2>1. run'[w].at = "idle" /\ (\A v \in Runs \ {w} : run'[v] = run[v]) /\ UNCHANGED <<now, record, wrote, breaks, half>>
    BY <1>13, RunEnds DEF RunStops
  <2>2. JobSees(w)'
    BY <2>1 DEF JobSees, Closing
  <2> QED
    BY <1>3, <2>1, <2>2
<1> QED
  BY <1>4, <1>5, <1>6, <1>7, <1>9, <1>10, <1>11, <1>12, <1>13 DEF RunStep

\* Every serial step keeps the second invariant.
LEMMA SerialDayStep == ASSUME DayInv, SerialDayInv, SerialDay PROVE SerialDayInv'
BY QuietPunch, SerialRunStep DEF SerialDay, DayNext

\* Whoever races, and whatever a job read before, a day that says it is closed has its time.
THEOREM DaysClosed == DaySpec => []ClosedHasTime
<1>1. DayInit => DayInv
  BY DayBegin
<1>2. DayInv /\ [DayNext]_dayVars => DayInv'
  BY DayStep
<1>3. DayInv => ClosedHasTime
  BY DEF DayInv
<1> QED
  BY <1>1, <1>2, <1>3, PTL DEF DaySpec

\* Times lie on the clock: those of a row, those a job will supply, and the breaks that are logged.
OnClock(r) == (r.in # NoTime => r.in <= LastInstant) /\ (r.out # NoTime => r.out <= LastInstant)
Supplies(r) ==
    /\ r.at \in {"closeBreak", "autoCheckout"} => AutoTime(r.read.in) <= LastInstant
    /\ r.at = "nightCheckout" => NightTime(r.read.in) <= LastInstant
BreaksFit == Len(breaks) <= MaxBreaks + 1 /\ (Len(breaks) = MaxBreaks + 1 => ~OpenBreak)
DayBounds ==
    /\ now <= LastInstant /\ OnClock(record) /\ BreaksFit
    /\ \A w \in Runs : OnClock(run[w].read) /\ Supplies(run[w])

\* Nobody has come yet.
LEMMA RowIsEmpty == NoRow.in = NoTime /\ NoRow.out = NoTime
BY DEF NoRow, DayRow

\* Jobs log breaks up to the bound, a check-out at most the end of one that is open.
LEMMA BreaksStayFit ==
  ASSUME DayInv, BreaksFit, NEW kind \in {"BREAK_START", "BREAK_END"},
         UNCHANGED breaks \/ (Logged(kind) /\ (Len(breaks) < MaxBreaks \/ (OpenBreak /\ kind = "BREAK_END")))
  PROVE  BreaksFit'
<1>1. MaxBreaks \in Nat /\ breaks \in Seq({"BREAK_START", "BREAK_END"})
  BY TimeAssumption DEF DayInv
<1>2. CASE UNCHANGED breaks
  BY <1>2 DEF BreaksFit, OpenBreak
<1>3. CASE Logged(kind)
  <2>1. Len(breaks') = Len(breaks) + 1 /\ breaks'[Len(breaks')] = kind
    BY <1>1, <1>3 DEF Logged
  <2> QED
    BY <1>1, <1>3, <2>1 DEF BreaksFit, OpenBreak
<1> QED
  BY <1>2, <1>3

\* Whoever races, a job supplies a time that has come, or the check-in it has read.
LEMMA JobsOnClock ==
  ASSUME DayInv, DayBounds, NEW w \in Runs, RunStep(w) \/ RunStops(w)
  PROVE  DayBounds'
<1>1. /\ now \in Nat /\ LastInstant \in Nat /\ ShiftEnd \in Nat /\ Threshold \in Nat /\ ShiftEnd <= Threshold
      /\ NoTime \notin Nat /\ record \in AnyRows
      /\ record.in \in Nat \union {NoTime} /\ record.out \in Nat \union {NoTime}
  BY TimeAssumption, PolicyAssumption DEF DayInv, AnyRows
<1>2. UNCHANGED now
  BY DEF RunStep, RunStops, ReadForBreaks, WriteBreak, ReadForCheckout, CloseBreak, AutoCheckout, ReadForNight,
     NightCreate, NightCheckout
<1>3. BreaksFit'
  BY BreaksStayFit DEF DayBounds, RunStep, RunStops, ReadForBreaks, WriteBreak, ReadForCheckout, CloseBreak,
     AutoCheckout, ReadForNight, NightCreate, NightCheckout
<1>4. ASSUME OnClock(record)', Ended(w) PROVE DayBounds'
  <2>1. OnClock(NoRow)
    BY RowIsEmpty DEF OnClock
  <2>2. \A v \in Runs \ {w} : run'[v] = run[v]
    BY <1>4, RunEnds
  <2>3. run'[w].at = "idle" /\ run'[w].read = NoRow
    BY <1>4 DEF Ended, NotRunning, DayInv
  <2> QED
    BY <1>2, <1>3, <1>4, <2>1, <2>2, <2>3 DEF DayBounds, Supplies, OnClock
<1>5. ASSUME OnClock(record)', NEW at \in RunPositions, NEW read \in AnyRows, Continue(w, at, read),
             at \in Closing => read.in # NoTime, OnClock(read),
             at \in {"closeBreak", "autoCheckout"} => AutoTime(read.in) <= LastInstant,
             at = "nightCheckout" => NightTime(read.in) <= LastInstant
      PROVE  DayBounds'
  <2>1. run'[w].at = at /\ run'[w].read = read /\ \A v \in Runs \ {w} : run'[v] = run[v]
    BY <1>5, RunMoves
  <2> QED
    BY <1>2, <1>3, <1>5, <2>1 DEF DayBounds, Supplies, OnClock
<1>6. CASE ReadForBreaks(w)
  <2>1. PICK at \in {"startBreak", "endBreak"} : Continue(w, at, record)
    BY <1>6 DEF ReadForBreaks
  <2>2. at \in RunPositions /\ at \notin Closing /\ at \notin {"closeBreak", "autoCheckout", "nightCheckout"}
    BY DEF RunPositions, Closing
  <2> QED
    BY <1>1, <1>5, <1>6, <2>1, <2>2 DEF ReadForBreaks, DayBounds, OnClock
<1>7. CASE WriteBreak(w)
  <2>1. PICK s \in {"ON_BREAK", "WORKING"} : record' = [record EXCEPT !.state = s]
    BY <1>7 DEF WriteBreak
  <2>2. record' = DayRow(record.in, record.out, s)
    BY <1>1, <2>1, RowPaused, Zenon DEF PunchStates
  <2>3. record'.in = record.in /\ record'.out = record.out
    BY <2>2, RowFields
  <2> QED
    BY <1>4, <1>7, <2>3 DEF WriteBreak, DayBounds, OnClock
<1>8. CASE ReadForCheckout(w)
  <2>1. PICK at \in {"closeBreak", "autoCheckout"} : Continue(w, at, record)
    BY <1>8 DEF ReadForCheckout
  <2>2. at \in RunPositions /\ record.in # NoTime /\ Threshold <= now /\ at # "nightCheckout"
    BY <1>8 DEF RunPositions, ReadForCheckout, InSession
  <2>3. AutoTime(record.in) <= LastInstant
    BY <1>1, <2>2 DEF AutoTime, DayBounds, OnClock
  <2> QED
    BY <1>1, <1>5, <1>8, <2>1, <2>2, <2>3 DEF ReadForCheckout, DayBounds, OnClock
<1>9. CASE CloseBreak(w)
  <2>1. /\ Continue(w, "autoCheckout", run[w].read) /\ run[w].read.in # NoTime /\ "autoCheckout" \in RunPositions
        /\ run[w].read \in AnyRows /\ run[w].at = "closeBreak" /\ UNCHANGED record
    BY <1>9 DEF CloseBreak, DayInv, Closing, RunPositions
  <2>2. OnClock(run[w].read) /\ AutoTime(run[w].read.in) <= LastInstant /\ OnClock(record)'
    BY <2>1 DEF DayBounds, Supplies, OnClock
  <2> QED
    BY <1>5, <2>1, <2>2
<1>10. ASSUME NEW out \in Nat, out <= LastInstant, record' = ClosedRow(run[w].read, out), Ended(w) PROVE DayBounds'
  <2>1. record'.in = record.in /\ record'.out = out
    BY <1>1, <1>10, DayCloses DEF DayInv
  <2> QED
    BY <1>4, <1>10, <2>1 DEF DayBounds, OnClock
<1>11. CASE AutoCheckout(w)
  <2>1. run[w].read.in \in Nat /\ AutoTime(run[w].read.in) <= LastInstant
    BY <1>1, <1>11 DEF AutoCheckout, Closing, DayInv, AnyRows, DayBounds, Supplies
  <2> QED
    BY <1>10, <1>11, <2>1, TimesSupplied DEF AutoCheckout
<1>12. CASE ReadForNight(w)
  <2>1. PICK at \in {"nightCreate", "nightCheckout"} :
           /\ Continue(w, at, record)
           /\ at = "nightCheckout" => record.in # NoTime /\ OldEnough(record.in, NightAge)
    BY <1>12 DEF ReadForNight, InSession
  <2>2. at \in RunPositions /\ (at \in Closing => at = "nightCheckout") /\ at \notin {"closeBreak", "autoCheckout"}
    BY DEF RunPositions, Closing
  <2>3. at = "nightCheckout" => NightTime(record.in) <= LastInstant
    <3>1. now \in NightRuns /\ now <= LastInstant
      BY <1>12 DEF ReadForNight, DayBounds
    <3>2. at = "nightCheckout" => record.in \in Nat /\ record.in + NightAge <= now
      BY <1>1, <2>1 DEF OldEnough
    <3>3. at = "nightCheckout" => NightTime(record.in) <= now /\ NightTime(record.in) \in Nat
      BY <3>1, <3>2, TimesPast, TimesSupplied
    <3> QED
      BY <1>1, <3>1, <3>3
  <2> QED
    BY <1>1, <1>5, <1>12, <2>1, <2>2, <2>3 DEF ReadForNight, DayBounds, OnClock
<1>13. CASE NightCreate(w)
  <2>1. record' = record \/ record' = DayRow(NoTime, NoTime, "NOT_CHECKED_IN")
    BY <1>13 DEF NightCreate
  <2>2. OnClock(record)'
    BY <2>1, RowFields DEF DayBounds, OnClock
  <2> QED
    BY <1>4, <1>13, <2>2 DEF NightCreate
<1>14. CASE NightCheckout(w)
  <2>1. run[w].read.in \in Nat /\ NightTime(run[w].read.in) <= LastInstant
    BY <1>1, <1>14 DEF NightCheckout, Closing, DayInv, AnyRows, DayBounds, Supplies
  <2> QED
    BY <1>10, <1>14, <2>1, TimesSupplied DEF NightCheckout
<1>15. CASE RunStops(w)
  BY <1>4, <1>15 DEF RunStops, DayBounds, OnClock
<1> QED
  BY <1>6, <1>7, <1>8, <1>9, <1>11, <1>12, <1>13, <1>14, <1>15 DEF RunStep

\* What is stated is within the clock.
LEMMA StatedOnClock == \A t \in Stated : t \in Nat /\ t <= LastInstant
<1>1. Stated \subseteq 0 .. LastInstant /\ LastInstant \in Nat
  BY TimeAssumption
<1> QED
  BY <1>1

\* Requests write the time it is, times of the row, or times that are stated.
LEMMA DayOnClock ==
  ASSUME DayInv, DayBounds, DayNext \/ UNCHANGED dayVars
  PROVE  DayBounds'
<1>1. /\ now \in Nat /\ LastInstant \in Nat /\ NoTime \notin Nat
      /\ now <= LastInstant /\ OnClock(record) /\ BreaksFit
  BY TimeAssumption DEF DayInv, DayBounds
<1>2. ASSUME UNCHANGED run, now' <= LastInstant, OnClock(record)', BreaksFit' PROVE DayBounds'
  BY <1>2 DEF DayBounds, OnClock, Supplies
<1>3. CASE Tick
  BY <1>1, <1>2, <1>3 DEF Tick, OnClock, BreaksFit, OpenBreak
<1>4. CASE CheckIn
  BY <1>1, <1>2, <1>4, RowFields DEF CheckIn, OnClock, BreaksFit, OpenBreak
<1>5. CASE CheckOut
  <2>1. record'.in = record.in /\ record'.out = now /\ UNCHANGED <<now, run>>
    BY <1>5, RowFields DEF CheckOut
  <2>2. BreaksFit'
    BY <1>1, <1>5, BreaksStayFit DEF CheckOut
  <2> QED
    BY <1>1, <1>2, <2>1, <2>2 DEF OnClock
<1>6. CASE ManualOverride \/ ManualAttendance \/ ApplyCorrection
  <2>1. PICK in \in Stated \union {record.in, NoTime}, out \in Stated \union {record.out, NoTime} :
           \E s : record' = DayRow(in, out, s)
    BY <1>6 DEF ManualOverride, ManualAttendance, ApplyCorrection, Statement
  <2>2. record'.in = in /\ record'.out = out
    BY <2>1, RowFields
  <2>3. OnClock(record)'
    BY <1>1, <2>2, StatedOnClock DEF OnClock
  <2>4. UNCHANGED <<now, breaks, half, run>>
    BY <1>6 DEF ManualOverride, ManualAttendance, ApplyCorrection, Statement
  <2> QED
    BY <1>1, <1>2, <2>3, <2>4 DEF BreaksFit, OpenBreak
<1>7. CASE UNCHANGED dayVars
  BY <1>1, <1>2, <1>7 DEF dayVars, OnClock, BreaksFit, OpenBreak
<1> QED
  BY <1>3, <1>4, <1>5, <1>6, <1>7, JobsOnClock DEF DayNext

\* Nobody has come, and no job has read a row.
LEMMA DayStartsOnClock == ASSUME DayInit PROVE DayBounds
<1>1. now = 0 /\ record = NoRow /\ breaks = <<>> /\ LastInstant \in Nat /\ MaxBreaks \in Nat
  BY TimeAssumption DEF DayInit
<1>2. OnClock(NoRow)
  BY RowIsEmpty DEF OnClock
<1>3. \A w \in Runs : run[w].at = "idle" /\ run[w].read = NoRow
  BY DEF DayInit, NotRunning
<1> QED
  BY <1>1, <1>2, <1>3 DEF DayBounds, BreaksFit, Supplies

\* Then times and breaks are within the bounds of the instance.
LEMMA DayTypesHold == ASSUME DayInv, DayBounds PROVE DayTypeOK
<1>1. LastInstant \in Nat /\ MaxBreaks \in Nat /\ now \in Instants
  BY TimeAssumption DEF DayInv, DayBounds, Instants
<1>2. ASSUME NEW r \in AnyRows, OnClock(r) PROVE r \in DayRows
  <2>1. r.in \in Times /\ r.out \in Times
    BY <1>1, <1>2 DEF AnyRows, OnClock, Times, Instants
  <2> QED
    BY <2>1 DEF AnyRows, DayRows
<1>3. record \in DayRows
  BY <1>2 DEF DayInv, DayBounds
<1>4. \A w \in Runs : run[w] \in [at : RunPositions, read : DayRows]
  <2> SUFFICES ASSUME NEW w \in Runs PROVE run[w] \in [at : RunPositions, read : DayRows]
    OBVIOUS
  <2>1. run[w] \in [at : RunPositions, read : AnyRows] /\ OnClock(run[w].read)
    BY DEF DayInv, DayBounds
  <2>2. run[w].read \in DayRows
    BY <1>2, <2>1
  <2> QED
    BY <2>1, <2>2
<1> QED
  BY <1>1, <1>3, <1>4 DEF DayTypeOK, DayInv, DayBounds, BreaksFit

-----------------------------------------------------------------------------
(* Freight quotes and the shipments they are for *)

\* What a handler holds between two statements.
HandlerKinds ==
    {Resting} \union [at : {"edit"}, quote : Quotes, amount : Amounts, shipment : Scopes] \union [at : {"delete"}, quote : Quotes]
    \union [at : {"unmark", "mark"}, quote : Quotes, row : Quote, selected : Quotes \union {NoId}]
    \union [at : {"generate"}, no : {Cardinality(Shipments) + 1}]

FreightTyped ==
    /\ quotes \in [Quotes -> Quote \union {Free}] /\ lock \in [Quotes -> Handlers \union {NoId}]
    /\ selected \in Quotes \union {NoId}
    /\ freights \in [Shipments -> [freight : Amounts \union {NoId}, linked : BOOLEAN]]
    /\ touched \subseteq Shipments /\ moved \subseteq Quotes
    /\ handler \in [Handlers -> HandlerKinds]

\* A selection is of a quote of the shipment it has loaded unless that was moved, at the amount
\* it has loaded unless the shipment is touched; what is about to be marked is locked with the
\* marks of its rivals, and nobody else is about to mark one of the shipment.
SelectsQuote(w) ==
    handler[w].at \in {"unmark", "mark"} =>
      LET q == handler[w].quote
          row == handler[w].row
      IN /\ q \notin moved => quotes[q].shipment = row.shipment
         /\ row.shipment \in Shipments \ touched => q \in Settled /\ quotes[q].amount = row.amount
LoadedQuote(w) == handler[w].at \in {"edit", "delete", "unmark", "mark"} => quotes[handler[w].quote] # Free
Marking(w) == handler[w].at = "mark" /\ handler[w].quote \in Settled
LocksRivals(w) ==
    Marking(w) =>
      /\ lock[handler[w].quote] = w
      /\ \A q \in Settled : quotes[q].preferred /\ quotes[q].shipment = handler[w].row.shipment => lock[q] = w
OneMarks == \A v, w \in Handlers : Marking(v) /\ Marking(w) /\ handler[v].row.shipment = handler[w].row.shipment => v = w

\* A shipment that a moved quote is for is touched.
MovedTouched == \A q \in moved : quotes[q] # Free /\ quotes[q].shipment \notin Shipments \ touched

FreightInv ==
    /\ FreightTyped /\ MovedTouched /\ OnePreferred /\ ChargedAsPreferred /\ OneMarks
    /\ \A w \in Handlers : SelectsQuote(w) /\ LoadedQuote(w) /\ LocksRivals(w)
    /\ \A q \in Quotes : lock[q] # NoId => quotes[q] # Free
    /\ \A g \in DOMAIN generated : generated[g] = Cardinality(Shipments) + 1
    /\ \A g, h \in DOMAIN generated : g = h

\* What a handler holds is of its kind.
LEMMA HandlerTyped ==
  ASSUME FreightTyped, NEW w \in Handlers
  PROVE  /\ handler[w].at = "edit" => handler[w].quote \in Quotes /\ handler[w].amount \in Amounts /\ handler[w].shipment \in Scopes
         /\ handler[w].at = "delete" => handler[w].quote \in Quotes
         /\ handler[w].at \in {"unmark", "mark"} =>
              /\ handler[w] \in [at : {"unmark", "mark"}, quote : Quotes, row : Quote, selected : Quotes \union {NoId}]
              /\ handler[w].quote \in Quotes /\ handler[w].row \in Quote /\ handler[w].selected \in Quotes \union {NoId}
         /\ handler[w].at = "generate" => handler[w].no = Cardinality(Shipments) + 1
<1>1. handler[w] \in HandlerKinds
  BY DEF FreightTyped
<1> QED
  BY <1>1 DEF HandlerKinds, Resting

\* A quote that was entered is a row, and no free id.
LEMMA QuoteRows ==
  /\ \A row \in Quote : /\ row # Free /\ row.shipment \in Scopes /\ row.amount \in Amounts
                        /\ row.preferred \in BOOLEAN /\ row.deleted \in BOOLEAN
  /\ FreightTyped => /\ \A q \in Quotes : quotes[q] # Free => quotes[q] \in Quote
                     /\ \A q \in Existing : q \in Quotes /\ quotes[q] # Free /\ quotes[q] \in Quote /\ ~quotes[q].deleted
                     /\ Settled \subseteq Existing
<1>1. ASSUME NEW row \in Quote PROVE row # Free
  <2>1. DOMAIN row = {"shipment", "amount", "preferred", "deleted"}
    BY DEF Quote
  <2>2. DOMAIN Free = {"state"}
    BY DEF Free
  <2> QED
    BY <2>1, <2>2
<1>2. \A row \in Quote : /\ row.shipment \in Scopes /\ row.amount \in Amounts
                         /\ row.preferred \in BOOLEAN /\ row.deleted \in BOOLEAN
  BY DEF Quote
<1> QED
  BY <1>1, <1>2 DEF FreightTyped, Existing, Settled

\* A handler that rests holds nothing to keep.
LEMMA RestingFits ==
  /\ Resting \in HandlerKinds /\ Resting.at = "idle"
  /\ \A w \in Handlers : handler'[w] = Resting => (SelectsQuote(w) /\ LoadedQuote(w) /\ LocksRivals(w) /\ ~Marking(w))'
<1>1. Resting.at = "idle"
  BY DEF Resting
<1> QED
  BY <1>1 DEF HandlerKinds, SelectsQuote, LoadedQuote, LocksRivals, Marking

\* Rows entered, changed or deleted, while no mark is written and no lock taken.
LEMMA RowsChange ==
  ASSUME FreightInv, FreightTyped', MovedTouched', UNCHANGED <<lock, freights, generated>>,
         touched \subseteq touched', moved \subseteq moved',
         \A w \in Handlers : handler'[w] = handler[w] \/ handler'[w] = Resting
           \/ (handler'[w].at # "mark" /\ SelectsQuote(w)' /\ LoadedQuote(w)'),
         \A q \in Quotes : quotes[q] # Free =>
           /\ quotes'[q] # Free /\ quotes'[q].preferred = quotes[q].preferred
           /\ q \notin moved' => quotes'[q].shipment = quotes[q].shipment
           /\ q \in Settled' => q \in Settled
           /\ q \in Settled => \/ q \in Settled' /\ quotes'[q].amount = quotes[q].amount
                               \/ quotes[q].shipment \notin Shipments \ touched',
         \A q \in Settled' : quotes[q] = Free => ~quotes'[q].preferred
  PROVE  FreightInv'
<1>1. \A q \in Quotes : quotes[q] # Free => quotes[q] \in Quote
  BY QuoteRows DEF FreightInv
<1>2. \A q \in Settled' : q \in Quotes /\ q \notin moved'
  BY DEF Existing, Settled
<1>3. \A q \in Settled' : quotes'[q].preferred =>
         /\ q \in Settled /\ quotes[q].preferred /\ quotes'[q].shipment = quotes[q].shipment
         /\ quotes'[q].shipment \in Shipments \ touched' => quotes'[q].amount = quotes[q].amount
  BY <1>2
<1>4. OnePreferred' /\ ChargedAsPreferred'
  BY <1>3 DEF FreightInv, OnePreferred, ChargedAsPreferred
<1>5. ASSUME NEW w \in Handlers, handler'[w] = handler[w]
      PROVE  (SelectsQuote(w) /\ LoadedQuote(w) /\ LocksRivals(w))' /\ (Marking(w)' => Marking(w))
  <2>1. SelectsQuote(w) /\ LoadedQuote(w) /\ LocksRivals(w)
    BY DEF FreightInv
  <2>2. handler[w].at \in {"edit", "delete", "unmark", "mark"} => handler[w].quote \in Quotes
    BY HandlerTyped DEF FreightInv
  <2>3. LoadedQuote(w)'
    BY <1>5, <2>1, <2>2 DEF LoadedQuote
  <2>4. SelectsQuote(w)'
    BY <1>5, <2>1, <2>2 DEF SelectsQuote, LoadedQuote, Settled
  <2>5. Marking(w)' => Marking(w)
    BY <1>5, <2>1, <2>2 DEF Marking, LoadedQuote
  <2>6. LocksRivals(w)'
    <3> SUFFICES ASSUME Marking(w)'
                 PROVE  /\ lock[handler[w].quote] = w
                        /\ \A q \in Settled' : quotes'[q].preferred /\ quotes'[q].shipment = handler[w].row.shipment
                             => lock[q] = w
      BY <1>5 DEF LocksRivals
    <3> QED
      BY <1>3, <2>1, <2>5 DEF LocksRivals
  <2> QED
    BY <2>3, <2>4, <2>5, <2>6
<1>6. ASSUME NEW w \in Handlers
      PROVE  (SelectsQuote(w) /\ LoadedQuote(w) /\ LocksRivals(w))' /\ (Marking(w)' => Marking(w) /\ handler'[w] = handler[w])
  <2>1. CASE handler'[w] = handler[w]
    BY <1>5, <2>1
  <2>2. CASE handler'[w] = Resting
    BY <2>2, RestingFits
  <2>3. CASE handler'[w].at # "mark" /\ SelectsQuote(w)' /\ LoadedQuote(w)'
    BY <2>3 DEF LocksRivals, Marking
  <2> QED
    BY <2>1, <2>2, <2>3
<1>7. OneMarks'
  <2> SUFFICES ASSUME NEW v \in Handlers, NEW w \in Handlers, Marking(v)', Marking(w)',
                      handler'[v].row.shipment = handler'[w].row.shipment
               PROVE  v = w
    BY DEF OneMarks
  <2>1. Marking(v) /\ Marking(w) /\ handler'[v] = handler[v] /\ handler'[w] = handler[w]
    BY <1>6
  <2> QED
    BY <2>1 DEF FreightInv, OneMarks
<1>8. \A q \in Quotes : lock'[q] # NoId => quotes'[q] # Free
  BY DEF FreightInv
<1> QED
  BY <1>4, <1>6, <1>7, <1>8 DEF FreightInv

\* A handler that loads what it needs.
LEMMA OpeningStep ==
  ASSUME FreightInv, NEW w \in Handlers, LoadToEdit(w) \/ LoadToDelete(w) \/ LoadToSelect(w) \/ LoadToGenerate(w)
  PROVE  FreightInv'
<1>1. ASSUME NEW loaded \in HandlerKinds, Opens(w, loaded), loaded.at # "mark",
             loaded.at \in {"edit", "delete", "unmark"} => loaded.quote \in Quotes /\ quotes[loaded.quote] # Free,
             loaded.at = "unmark" => /\ loaded.quote \in Existing /\ loaded.row = quotes[loaded.quote]
      PROVE  FreightInv'
  <2>1. /\ UNCHANGED <<quotes, lock, selected, freights, generated, touched, moved>> /\ handler' \in [Handlers -> HandlerKinds]
        /\ handler'[w] = loaded /\ \A v \in Handlers \ {w} : handler'[v] = handler[v]
    BY <1>1 DEF Opens, FreightInv, FreightTyped
  <2>2. FreightTyped'
    BY <2>1 DEF FreightInv, FreightTyped
  <2>3. Settled' = Settled /\ MovedTouched'
    BY <2>1 DEF Existing, Settled, MovedTouched, FreightInv
  <2>4. SelectsQuote(w)' /\ LoadedQuote(w)'
    <3>1. loaded.at = "unmark" /\ loaded.row.shipment \in Shipments \ touched => loaded.quote \in Settled
      BY <1>1 DEF Settled, MovedTouched, FreightInv
    <3> QED
      BY <1>1, <2>1, <2>3, <3>1 DEF SelectsQuote, LoadedQuote
  <2>5. \A q \in Settled' : quotes[q] # Free
    BY <2>1 DEF Existing, Settled
  <2> QED
    BY <1>1, <2>1, <2>2, <2>3, <2>4, <2>5, RowsChange
<1>2. \A q \in Existing : q \in Quotes /\ quotes[q] # Free /\ quotes[q] \in Quote
  BY QuoteRows DEF FreightInv
<1>3. CASE LoadToEdit(w)
  <2>1. PICK q \in Existing : Opens(w, [at |-> "edit", quote |-> q, amount |-> quotes[q].amount, shipment |-> quotes[q].shipment])
    BY <1>3 DEF LoadToEdit
  <2> DEFINE loaded == [at |-> "edit", quote |-> q, amount |-> quotes[q].amount, shipment |-> quotes[q].shipment]
  <2>2. quotes[q].amount \in Amounts /\ quotes[q].shipment \in Scopes
    BY <1>2, QuoteRows
  <2>3. loaded \in HandlerKinds /\ loaded.at = "edit" /\ loaded.quote = q
    BY <1>2, <2>2 DEF HandlerKinds
  <2>4. Opens(w, loaded)
    BY <2>1
  <2> HIDE DEF loaded
  <2> QED
    BY <1>1, <1>2, <2>3, <2>4
<1>4. CASE LoadToDelete(w)
  <2>1. PICK q \in Existing : Opens(w, [at |-> "delete", quote |-> q])
    BY <1>4 DEF LoadToDelete
  <2> DEFINE loaded == [at |-> "delete", quote |-> q]
  <2>2. loaded \in HandlerKinds /\ loaded.at = "delete" /\ loaded.quote = q
    BY <1>2 DEF HandlerKinds
  <2>3. Opens(w, loaded)
    BY <2>1
  <2> HIDE DEF loaded
  <2> QED
    BY <1>1, <1>2, <2>2, <2>3
<1>5. CASE LoadToSelect(w)
  <2>1. PICK q \in Existing : Opens(w, [at |-> "unmark", quote |-> q, row |-> quotes[q], selected |-> selected])
    BY <1>5 DEF LoadToSelect
  <2> DEFINE loaded == [at |-> "unmark", quote |-> q, row |-> quotes[q], selected |-> selected]
  <2>2. loaded \in HandlerKinds /\ loaded.at = "unmark" /\ loaded.quote = q /\ loaded.row = quotes[q]
    BY <1>2 DEF HandlerKinds, FreightInv, FreightTyped
  <2>3. Opens(w, loaded)
    BY <2>1
  <2> HIDE DEF loaded
  <2> QED
    BY <1>1, <1>2, <2>2, <2>3
<1>6. CASE LoadToGenerate(w)
  <2> DEFINE loaded == [at |-> "generate", no |-> NextNumber]
  <2>1. NextNumber = Cardinality(Shipments) + 1
    <3>1. DOMAIN generated = {} /\ Cardinality({}) = 0
      BY <1>6, FS_EmptySet DEF LoadToGenerate
    <3>2. NextNumber = Cardinality(Shipments) + 0 + 1
      BY <3>1 DEF NextNumber
    <3>3. Cardinality(Shipments) + 0 + 1 = Cardinality(Shipments) + 1
      BY FreightAssumption, FS_CardinalityType
    <3> QED
      BY <3>2, <3>3
  <2>2. loaded \in HandlerKinds /\ loaded.at = "generate"
    BY <2>1 DEF HandlerKinds
  <2>3. Opens(w, loaded)
    BY <1>6 DEF LoadToGenerate
  <2> HIDE DEF loaded
  <2> QED
    BY <1>1, <2>2, <2>3
<1> QED
  BY <1>3, <1>4, <1>5, <1>6

\* Quotes entered, changed and deleted,
LEMMA RowsStep ==
  ASSUME FreightInv, EnterQuote \/ \E w \in Handlers : EditQuote(w) \/ DeleteQuote(w)
  PROVE  FreightInv'
<1>1. \A q \in Quotes : quotes[q] # Free => quotes[q] \in Quote
  BY QuoteRows DEF FreightInv
<1>2. FreightTyped
  BY DEF FreightInv
<1>3. CASE EnterQuote
  <2>1. PICK q \in Quotes, s \in Scopes, a \in Amounts :
           /\ quotes[q] = Free
           /\ quotes' = [quotes EXCEPT ![q] = [shipment |-> s, amount |-> a, preferred |-> FALSE, deleted |-> FALSE]]
    BY <1>3 DEF EnterQuote
  <2> DEFINE row == [shipment |-> s, amount |-> a, preferred |-> FALSE, deleted |-> FALSE]
  <2>2. row \in Quote /\ ~row.preferred
    BY DEF Quote
  <2>3. quotes' = [quotes EXCEPT ![q] = row]
    BY <2>1
  <2> HIDE DEF row
  <2>4. UNCHANGED <<lock, selected, freights, generated, touched, moved, handler>>
    BY <1>3 DEF EnterQuote
  <2>5. quotes' \in [Quotes -> Quote \union {Free}] /\ quotes'[q] = row /\ \A r \in Quotes \ {q} : quotes'[r] = quotes[r]
    BY <1>2, <2>2, <2>3 DEF FreightTyped
  <2>6. FreightTyped'
    BY <1>2, <2>4, <2>5 DEF FreightTyped
  <2>10. MovedTouched' /\ q \notin moved
    BY <2>1, <2>4, <2>5 DEF FreightInv, MovedTouched
  <2>7. \A r \in Quotes \ {q} : r \in Settled' <=> r \in Settled
    BY <2>4, <2>5 DEF Existing, Settled
  <2>8. \A r \in Settled' : r \in Quotes /\ (quotes[r] = Free => ~quotes'[r].preferred)
    BY <2>2, <2>5 DEF Existing, Settled
  <2>9. \A r \in Quotes : quotes[r] # Free =>
           /\ quotes'[r] # Free /\ quotes'[r].preferred = quotes[r].preferred
           /\ r \notin moved' => quotes'[r].shipment = quotes[r].shipment
           /\ r \in Settled' => r \in Settled
           /\ r \in Settled => \/ r \in Settled' /\ quotes'[r].amount = quotes[r].amount
                               \/ quotes[r].shipment \notin Shipments \ touched'
    BY <2>1, <2>5, <2>7
  <2> QED
    BY <2>4, <2>6, <2>8, <2>9, <2>10, RowsChange
<1>4. ASSUME NEW w \in Handlers, NEW q \in Quotes, quotes[q] # Free, NEW row \in Quote,
             quotes' = [quotes EXCEPT ![q] = row], row.preferred = quotes[q].preferred,
             ~row.deleted => ~quotes[q].deleted,
             \/ row = quotes[q] /\ touched' = touched
             \/ Touch({quotes[q].shipment, row.shipment})
             \/ q \notin Existing /\ row.shipment = quotes[q].shipment /\ touched' = touched,
             moved' = IF row.shipment = quotes[q].shipment THEN moved ELSE moved \union {q},
             Closes(w), UNCHANGED <<lock, selected, freights, generated>>
      PROVE  FreightInv'
  <2>1. quotes' \in [Quotes -> Quote \union {Free}] /\ quotes'[q] = row /\ \A r \in Quotes \ {q} : quotes'[r] = quotes[r]
    BY <1>2, <1>4 DEF FreightTyped
  <2>2. quotes[q] \in Quote /\ quotes[q].shipment \in Scopes /\ row.shipment \in Scopes
    BY <1>1, <1>4, QuoteRows
  <2>3. /\ touched \subseteq touched' /\ touched' \subseteq Shipments
        /\ \/ row = quotes[q]
           \/ quotes[q].shipment \notin Shipments \ touched' /\ row.shipment \notin Shipments \ touched'
           \/ q \notin Existing /\ row.shipment = quotes[q].shipment
    BY <1>2, <1>4, <2>2, FreightAssumption DEF Touch, Scopes, FreightTyped
  <2>4. handler' \in [Handlers -> HandlerKinds] /\ \A v \in Handlers : handler'[v] = handler[v] \/ handler'[v] = Resting
    BY <1>2, <1>4, RestingFits DEF Closes, FreightTyped
  <2>5. FreightTyped' /\ moved \subseteq moved'
    BY <1>2, <1>4, <2>1, <2>3, <2>4 DEF FreightTyped
  <2>6. row # Free
    BY QuoteRows
  <2>10. MovedTouched'
    <3>1. ASSUME NEW r \in moved' PROVE quotes'[r] # Free /\ quotes'[r].shipment \notin Shipments \ touched'
      <4>1. CASE r = q
        <5>1. r \in moved \/ row.shipment # quotes[q].shipment
          BY <1>4, <3>1, <4>1
        <5>2. r \in moved => quotes[q].shipment \notin Shipments \ touched
          BY <4>1 DEF FreightInv, MovedTouched
        <5> QED
          BY <2>1, <2>3, <2>6, <4>1, <5>1, <5>2
      <4>2. CASE r # q
        <5>1. r \in moved /\ r \in Quotes
          BY <1>2, <1>4, <3>1, <4>2 DEF FreightTyped
        <5> QED
          BY <2>1, <2>3, <4>2, <5>1 DEF FreightInv, MovedTouched
      <4> QED
        BY <4>1, <4>2
    <3> QED
      BY <3>1 DEF MovedTouched
  <2>7. /\ \A r \in Quotes \ {q} : r \in Settled' <=> r \in Settled
        /\ q \in Settled' <=> ~row.deleted /\ q \notin moved'
        /\ q \in Settled <=> ~quotes[q].deleted /\ q \notin moved
        /\ q \in Settled => q \in Existing
    BY <1>4, <2>1, <2>6 DEF Existing, Settled
  <2>8. \A r \in Settled' : quotes[r] = Free => ~quotes'[r].preferred
    BY <1>4, <2>1 DEF Existing, Settled
  <2>9. \A r \in Quotes : quotes[r] # Free =>
           /\ quotes'[r] # Free /\ quotes'[r].preferred = quotes[r].preferred
           /\ r \notin moved' => quotes'[r].shipment = quotes[r].shipment
           /\ r \in Settled' => r \in Settled
           /\ r \in Settled => \/ r \in Settled' /\ quotes'[r].amount = quotes[r].amount
                               \/ quotes[r].shipment \notin Shipments \ touched'
    BY <1>4, <2>1, <2>3, <2>5, <2>6, <2>7
  <2> QED
    BY <1>4, <2>3, <2>4, <2>5, <2>8, <2>9, <2>10, RowsChange
<1>5. ASSUME NEW w \in Handlers, EditQuote(w) PROVE FreightInv'
  <2>1. PICK q \in Quotes : q = handler[w].quote
    BY <1>2, <1>5, HandlerTyped DEF EditQuote
  <2>2. quotes[q] # Free
    BY <1>5, <2>1 DEF EditQuote, FreightInv, LoadedQuote
  <2>3. PICK row \in Quote : row = quotes[q]
    BY <1>1, <2>2
  <2>4. Closes(w) /\ UNCHANGED <<lock, selected, freights, generated>>
    BY <1>5 DEF EditQuote
  <2>5. PICK a \in Amounts, s \in Scopes :
          /\ quotes' = [quotes EXCEPT ![q].amount = a, ![q].shipment = s]
          /\ IF quotes' = quotes THEN UNCHANGED touched ELSE Touch({quotes[q].shipment, s})
          /\ moved' = IF s = quotes[q].shipment THEN moved ELSE moved \union {q}
    <3>1. PICK c \in Amounts, d \in Scopes :
            LET amount == IF c = handler[w].amount THEN quotes[q].amount ELSE c
                shipment == IF d = handler[w].shipment THEN quotes[q].shipment ELSE d
            IN /\ quotes' = [quotes EXCEPT ![q].amount = amount, ![q].shipment = shipment]
               /\ IF quotes' = quotes THEN UNCHANGED touched ELSE Touch({quotes[q].shipment, shipment})
               /\ moved' = IF shipment = quotes[q].shipment THEN moved ELSE moved \union {q}
      BY <1>5, <2>1, Zenon DEF EditQuote
    <3>2. quotes[q].amount \in Amounts /\ quotes[q].shipment \in Scopes
      BY <2>3, QuoteRows
    <3> QED
      BY <3>1, <3>2, Zenon
  <2> DEFINE next == [row EXCEPT !.amount = a, !.shipment = s]
  <2>6. next \in Quote /\ next.shipment = s
    BY DEF Quote
  <2>7. next.preferred = row.preferred /\ next.deleted = row.deleted
    BY DEF Quote
  <2>8. quotes' = [quotes EXCEPT ![q] = next]
    BY <1>2, <2>3, <2>5 DEF FreightTyped
  <2> HIDE DEF next
  <2>9. quotes' = quotes => next = row
    BY <1>2, <2>3, <2>8 DEF FreightTyped
  <2>10. (next = row /\ touched' = touched) \/ Touch({row.shipment, next.shipment})
    BY <2>3, <2>5, <2>6, <2>9
  <2> QED
    BY <1>4, <2>2, <2>3, <2>4, <2>5, <2>6, <2>7, <2>8, <2>10
<1>6. ASSUME NEW w \in Handlers, DeleteQuote(w) PROVE FreightInv'
  <2>1. PICK q \in Quotes : q = handler[w].quote
    BY <1>2, <1>6, HandlerTyped DEF DeleteQuote
  <2>2. quotes[q] # Free
    BY <1>6, <2>1 DEF DeleteQuote, FreightInv, LoadedQuote
  <2>3. PICK row \in Quote : row = quotes[q]
    BY <1>1, <2>2
  <2> DEFINE next == [row EXCEPT !.deleted = TRUE]
  <2>4. next \in Quote /\ next.shipment = row.shipment
    BY DEF Quote
  <2>5. next.preferred = row.preferred
    BY DEF Quote
  <2>6. next.deleted = TRUE
    BY DEF Quote
  <2>7. quotes' = [quotes EXCEPT ![q] = next] /\ (IF q \in Existing THEN Touch({row.shipment}) ELSE UNCHANGED touched)
    BY <1>2, <1>6, <2>1, <2>3 DEF FreightTyped, DeleteQuote
  <2>8. Closes(w) /\ UNCHANGED <<lock, selected, freights, generated, moved>>
    BY <1>6 DEF DeleteQuote
  <2> HIDE DEF next
  <2>9. q \in Existing => Touch({row.shipment, next.shipment})
    BY <2>4, <2>7
  <2> QED
    BY <1>4, <2>2, <2>3, <2>4, <2>5, <2>6, <2>7, <2>8, <2>9
<1> QED
  BY <1>3, <1>5, <1>6

\* a selection that locks and marks,
LEMMA UnmarkStep ==
  ASSUME FreightInv, NEW w \in Handlers, UnmarkOthers(w)
  PROVE  FreightInv'
<1>1. FreightTyped /\ SelectsQuote(w) /\ LoadedQuote(w)
  BY DEF FreightInv
<1>2. PICK d \in [at : {"unmark", "mark"}, quote : Quotes, row : Quote, selected : Quotes \union {NoId}] : d = handler[w]
  BY <1>1, HandlerTyped DEF UnmarkOthers
<1> DEFINE rivals == Rivals(d.row)
           next == [d EXCEPT !.at = "mark"]
<1>3. /\ next \in HandlerKinds /\ next.at = "mark" /\ next.quote = d.quote /\ next.row = d.row
  BY DEF HandlerKinds
<1>4. handler' = [handler EXCEPT ![w] = next]
  BY <1>1, <1>2 DEF UnmarkOthers, FreightTyped
<1>5. /\ handler[w].at = "unmark" /\ \A q \in rivals : lock[q] = NoId
      /\ lock' = [q \in Quotes |-> IF q \in rivals THEN w ELSE lock[q]]
      /\ UNCHANGED <<quotes, selected, freights, generated, touched, moved>>
  BY <1>2 DEF UnmarkOthers
<1> HIDE DEF next
<1>6. /\ handler' \in [Handlers -> HandlerKinds] /\ handler'[w] = next
      /\ \A v \in Handlers \ {w} : handler'[v] = handler[v]
  BY <1>1, <1>3, <1>4 DEF FreightTyped
<1>7. lock' \in [Quotes -> Handlers \union {NoId}]
  BY <1>1, <1>5 DEF FreightTyped
<1>8. FreightTyped' /\ Settled' = Settled /\ MovedTouched'
  BY <1>1, <1>5, <1>6, <1>7 DEF FreightTyped, Existing, Settled, MovedTouched, FreightInv
<1>9. Settled \subseteq Existing /\ \A q \in Existing : q \in Quotes /\ quotes[q] # Free
  BY <1>1, QuoteRows
<1>10. SelectsQuote(w)' /\ LoadedQuote(w)'
  BY <1>1, <1>2, <1>3, <1>5, <1>6, <1>8 DEF SelectsQuote, LoadedQuote
<1>11. d.quote \in Settled => quotes[d.quote].shipment = d.row.shipment
  BY <1>1, <1>2, <1>5 DEF SelectsQuote, Settled
<1>12. \A q \in Settled : quotes[q].shipment = d.row.shipment => q \in rivals
  BY DEF Rivals, Settled
<1>13. LocksRivals(w)'
  <2> SUFFICES ASSUME d.quote \in Settled
               PROVE  /\ lock'[d.quote] = w
                      /\ \A q \in Settled : quotes[q].preferred /\ quotes[q].shipment = d.row.shipment => lock'[q] = w
    BY <1>3, <1>5, <1>6, <1>8 DEF LocksRivals, Marking
  <2> QED
    BY <1>5, <1>9, <1>11, <1>12
<1>14. ASSUME NEW v \in Handlers \ {w}
       PROVE  /\ (SelectsQuote(v) /\ LoadedQuote(v) /\ LocksRivals(v))' /\ (Marking(v)' => Marking(v))
              /\ Marking(v) => d.quote \notin Settled \/ handler[v].row.shipment # d.row.shipment
  <2>1. handler'[v] = handler[v] /\ SelectsQuote(v) /\ LoadedQuote(v) /\ LocksRivals(v)
    BY <1>6 DEF FreightInv
  <2>2. (SelectsQuote(v) /\ LoadedQuote(v))' /\ (Marking(v)' <=> Marking(v))
    BY <1>5, <1>8, <2>1 DEF SelectsQuote, LoadedQuote, Marking
  <2>3. \A q \in Quotes : lock[q] = v => lock'[q] = v
    BY <1>5, FreightAssumption
  <2>4. LocksRivals(v)'
    BY <1>5, <1>8, <1>9, <2>1, <2>2, <2>3 DEF LocksRivals, Marking
  <2>5. Marking(v) => d.quote \notin Settled \/ handler[v].row.shipment # d.row.shipment
    <3> SUFFICES ASSUME Marking(v), handler[v].row.shipment = d.row.shipment PROVE FALSE
      OBVIOUS
    <3>1. handler[v].quote \in Settled /\ lock[handler[v].quote] = v
      BY <2>1 DEF LocksRivals, Marking
    <3>2. quotes[handler[v].quote].shipment = d.row.shipment
      BY <2>1, <3>1 DEF SelectsQuote, Marking, Settled
    <3> QED
      BY <1>5, <1>12, <3>1, <3>2, FreightAssumption
  <2> QED
    BY <2>2, <2>4, <2>5
<1>15. OneMarks'
  <2> SUFFICES ASSUME NEW v \in Handlers, NEW u \in Handlers, Marking(v)', Marking(u)',
                      handler'[v].row.shipment = handler'[u].row.shipment, v # u
               PROVE  FALSE
    BY DEF OneMarks
  <2>1. CASE v # w /\ u # w
    BY <1>6, <1>14, <2>1 DEF FreightInv, OneMarks
  <2>2. Marking(w)' => d.quote \in Settled
    BY <1>3, <1>6, <1>8 DEF Marking
  <2> QED
    BY <1>3, <1>6, <1>14, <2>1, <2>2
<1>16. OnePreferred' /\ ChargedAsPreferred'
  BY <1>5, <1>8 DEF FreightInv, OnePreferred, ChargedAsPreferred
<1>17. \A q \in Quotes : lock'[q] # NoId => quotes'[q] # Free
  BY <1>5, <1>9 DEF FreightInv, Rivals
<1> QED
  BY <1>5, <1>8, <1>10, <1>13, <1>14, <1>15, <1>16, <1>17 DEF FreightInv

\* and commits,
LEMMA MarkStep ==
  ASSUME FreightInv, NEW w \in Handlers, Mark(w)
  PROVE  FreightInv'
<1>1. FreightTyped /\ SelectsQuote(w) /\ LoadedQuote(w) /\ LocksRivals(w)
  BY DEF FreightInv
<1>2. PICK d \in [at : {"unmark", "mark"}, quote : Quotes, row : Quote, selected : Quotes \union {NoId}] : d = handler[w]
  BY <1>1, HandlerTyped DEF Mark
<1>3. /\ handler[w].at = "mark" /\ lock' = Unlocked(w) /\ Closes(w) /\ freights' = FreightOf(d.row)
      /\ selected' \in Quotes \union {NoId} /\ UNCHANGED <<generated, touched, moved>>
      /\ quotes' = [q \in Quotes |-> MarkedAs(w, q)]
  BY <1>1, <1>2 DEF Mark, FreightTyped
<1> DEFINE marked == IF d.row.preferred THEN {} ELSE {d.quote}
<1>4. quotes[d.quote] # Free
  BY <1>1, <1>2, <1>3 DEF LoadedQuote
<1>5. ASSUME NEW q \in Quotes
      PROVE  /\ quotes'[q] \in Quote \union {Free} /\ (quotes'[q] # Free <=> quotes[q] # Free)
             /\ quotes[q] # Free =>
                  /\ quotes'[q].shipment = quotes[q].shipment /\ quotes'[q].amount = quotes[q].amount
                  /\ quotes'[q].deleted = quotes[q].deleted
                  /\ quotes'[q].preferred => q \in marked \/ (quotes[q].preferred /\ lock[q] # w)
  <2>1. quotes'[q] = IF q \in marked THEN [quotes[q] EXCEPT !.preferred = TRUE]
                     ELSE IF lock[q] = w THEN [quotes[q] EXCEPT !.preferred = FALSE] ELSE quotes[q]
    BY <1>2, <1>3 DEF MarkedAs
  <2>2. CASE quotes[q] = Free
    <3>1. q \notin marked /\ lock[q] # w
      BY <1>4, <2>2, FreightAssumption DEF FreightInv
    <3> QED
      BY <2>1, <2>2, <3>1
  <2>3. CASE quotes[q] # Free
    <3>1. PICK row \in Quote : row = quotes[q]
      BY <1>1, <2>3, QuoteRows
    <3>2. ASSUME NEW b \in BOOLEAN
          PROVE  /\ [row EXCEPT !.preferred = b] \in Quote
                 /\ [row EXCEPT !.preferred = b].shipment = row.shipment /\ [row EXCEPT !.preferred = b].amount = row.amount
      BY DEF Quote
    <3>3. \A b \in BOOLEAN : [row EXCEPT !.preferred = b].deleted = row.deleted
      BY DEF Quote
    <3>4. \A b \in BOOLEAN : [row EXCEPT !.preferred = b].preferred = b
      BY DEF Quote
    <3>5. quotes'[q] = IF q \in marked THEN [row EXCEPT !.preferred = TRUE]
                       ELSE IF lock[q] = w THEN [row EXCEPT !.preferred = FALSE] ELSE row
      BY <2>1, <3>1
    <3>6. CASE q \in marked
      <4>1. PICK new \in Quote : new = [row EXCEPT !.preferred = TRUE]
        BY <3>2
      <4>2. quotes'[q] = new /\ new.shipment = row.shipment /\ new.amount = row.amount
        BY <3>2, <3>5, <3>6, <4>1
      <4>3. new.deleted = row.deleted
        BY <3>3, <4>1
      <4> QED
        BY <2>3, <3>1, <3>6, <4>2, <4>3, QuoteRows
    <3>7. CASE q \notin marked /\ lock[q] = w
      <4>1. PICK new \in Quote : new = [row EXCEPT !.preferred = FALSE]
        BY <3>2
      <4>2. quotes'[q] = new /\ new.shipment = row.shipment /\ new.amount = row.amount
        BY <3>2, <3>5, <3>7, <4>1
      <4>3. new.deleted = row.deleted
        BY <3>3, <4>1
      <4>4. new.preferred = FALSE
        BY <3>4, <4>1
      <4> QED
        BY <2>3, <3>1, <3>7, <4>2, <4>3, <4>4, QuoteRows
    <3>8. CASE q \notin marked /\ lock[q] # w
      BY <2>3, <3>1, <3>5, <3>8
    <3> QED
      BY <3>6, <3>7, <3>8
  <2> QED
    BY <2>2, <2>3
<1>6. Settled' = Settled /\ MovedTouched' /\ \A q \in Settled : q \in Quotes /\ q \notin moved /\ quotes[q] # Free
  <2>1. Settled' = Settled /\ \A q \in Settled : q \in Quotes /\ q \notin moved /\ quotes[q] # Free
    BY <1>3, <1>5 DEF Existing, Settled
  <2>2. MovedTouched'
    BY <1>1, <1>3, <1>5 DEF FreightInv, FreightTyped, MovedTouched
  <2> QED
    BY <2>1, <2>2
<1>7. /\ handler' \in [Handlers -> HandlerKinds] /\ handler'[w] = Resting
      /\ \A v \in Handlers \ {w} : handler'[v] = handler[v]
  BY <1>1, <1>3, RestingFits DEF Closes, FreightTyped
<1>8. d.row.shipment \in Scopes /\ d.row.amount \in Amounts
  BY QuoteRows
<1>9. /\ freights' \in [Shipments -> [freight : Amounts \union {NoId}, linked : BOOLEAN]]
      /\ \A s \in Shipments : freights'[s].freight = IF s = d.row.shipment THEN d.row.amount ELSE freights[s].freight
  <2>1. CASE d.row.shipment = NoId
    BY <1>1, <1>3, <2>1, FreightAssumption DEF FreightOf, FreightTyped
  <2>2. CASE d.row.shipment # NoId
    <3>1. PICK f \in [freight : Amounts \union {NoId}, linked : BOOLEAN] : f = [freight |-> d.row.amount, linked |-> TRUE]
      BY <1>8
    <3>2. f.freight = d.row.amount
      BY <3>1
    <3>3. freights' = [freights EXCEPT ![d.row.shipment] = f]
      BY <1>3, <2>2, <3>1 DEF FreightOf
    <3> QED
      BY <1>1, <1>8, <2>2, <3>2, <3>3 DEF FreightTyped, Scopes
  <2> QED
    BY <2>1, <2>2
<1>10. /\ lock' \in [Quotes -> Handlers \union {NoId}]
       /\ \A q \in Quotes : lock'[q] = IF lock[q] = w THEN NoId ELSE lock[q]
  BY <1>1, <1>3 DEF Unlocked, FreightTyped
<1>11. FreightTyped'
  <2>1. quotes' \in [Quotes -> Quote \union {Free}]
    BY <1>3, <1>5
  <2> QED
    BY <1>1, <1>3, <1>7, <1>9, <1>10, <2>1 DEF FreightTyped
<1>12. \A q \in Settled : quotes'[q].preferred => q \in marked \/ (quotes[q].preferred /\ lock[q] # w)
  BY <1>5, <1>6
<1>13. d.quote \in Settled => Marking(w)
  BY <1>2, <1>3 DEF Marking
<1>14. d.quote \in Settled => quotes[d.quote].shipment = d.row.shipment
  BY <1>1, <1>2, <1>3, <1>6 DEF SelectsQuote
<1>15. d.quote \in Settled => \A q \in Settled : quotes[q].preferred /\ quotes[q].shipment = d.row.shipment => lock[q] = w
  BY <1>1, <1>2, <1>13 DEF LocksRivals
<1> HIDE DEF marked
<1>16. marked \subseteq {d.quote}
  BY DEF marked
<1>17. OnePreferred'
  <2> SUFFICES ASSUME NEW q \in Settled, NEW r \in Settled, quotes'[q].preferred, quotes'[r].preferred,
                      quotes[q].shipment = quotes[r].shipment
               PROVE  q = r
    BY <1>5, <1>6 DEF OnePreferred
  <2> QED
    BY <1>12, <1>14, <1>15, <1>16 DEF FreightInv, OnePreferred
<1>18. ChargedAsPreferred'
  <2> SUFFICES ASSUME NEW q \in Settled, quotes'[q].preferred, quotes[q].shipment \in Shipments \ touched
               PROVE  freights'[quotes[q].shipment].freight = quotes[q].amount
    BY <1>3, <1>5, <1>6 DEF ChargedAsPreferred
  <2>1. CASE quotes[q].shipment = d.row.shipment
    <3>1. d.quote \in Settled /\ quotes[d.quote].amount = d.row.amount
      BY <1>1, <1>2, <1>3, <2>1 DEF SelectsQuote
    <3>2. q = d.quote
      BY <1>12, <1>15, <1>16, <2>1, <3>1
    <3> QED
      BY <1>9, <2>1, <3>1, <3>2
  <2>2. CASE quotes[q].shipment # d.row.shipment
    <3>1. quotes[q].preferred
      BY <1>12, <1>14, <1>16, <2>2
    <3> QED
      BY <1>9, <2>2, <3>1 DEF FreightInv, ChargedAsPreferred
  <2> QED
    BY <2>1, <2>2
<1>19. ASSUME NEW v \in Handlers \ {w}
       PROVE  (SelectsQuote(v) /\ LoadedQuote(v) /\ LocksRivals(v))' /\ (Marking(v)' <=> Marking(v))
  <2>1. handler'[v] = handler[v] /\ SelectsQuote(v) /\ LoadedQuote(v) /\ LocksRivals(v)
    BY <1>7 DEF FreightInv
  <2>2. handler[v].at \in {"edit", "delete", "unmark", "mark"} => handler[v].quote \in Quotes
    BY <1>1, HandlerTyped
  <2>3. LoadedQuote(v)' /\ (Marking(v)' <=> Marking(v))
    BY <1>5, <1>6, <2>1, <2>2 DEF LoadedQuote, Marking
  <2>4. SelectsQuote(v)'
    BY <1>3, <1>5, <1>6, <2>1, <2>2 DEF SelectsQuote, LoadedQuote
  <2>5. LocksRivals(v)'
    <3> SUFFICES ASSUME Marking(v)
                 PROVE  /\ lock'[handler[v].quote] = v
                        /\ \A q \in Settled : quotes'[q].preferred /\ quotes[q].shipment = handler[v].row.shipment => lock'[q] = v
      BY <1>5, <1>6, <2>1, <2>3 DEF LocksRivals
    <3>1. lock'[handler[v].quote] = v
      BY <1>10, <2>1, <2>2 DEF LocksRivals, Marking
    <3>2. ASSUME NEW q \in Settled, quotes'[q].preferred, quotes[q].shipment = handler[v].row.shipment PROVE lock'[q] = v
      <4>1. CASE q \in marked
        <5>1. Marking(w) /\ handler[w].row.shipment = handler[v].row.shipment
          BY <1>2, <1>13, <1>14, <1>16, <3>2, <4>1
        <5> QED
          BY <5>1 DEF FreightInv, OneMarks
      <4>2. CASE q \notin marked
        <5>1. lock[q] = v
          BY <1>12, <2>1, <3>2, <4>2 DEF LocksRivals
        <5> QED
          BY <1>6, <1>10, <5>1
      <4> QED
        BY <4>1, <4>2
    <3> QED
      BY <3>1, <3>2
  <2> QED
    BY <2>3, <2>4, <2>5
<1>20. (SelectsQuote(w) /\ LoadedQuote(w) /\ LocksRivals(w) /\ ~Marking(w))'
  BY <1>7, RestingFits
<1>21. OneMarks'
  <2> SUFFICES ASSUME NEW v \in Handlers, NEW u \in Handlers, Marking(v)', Marking(u)',
                      handler'[v].row.shipment = handler'[u].row.shipment
               PROVE  u = v
    BY DEF OneMarks
  <2> QED
    BY <1>7, <1>19, <1>20 DEF FreightInv, OneMarks
<1>22. \A q \in Quotes : lock'[q] # NoId => quotes'[q] # Free
  BY <1>5, <1>10 DEF FreightInv
<1> QED
  BY <1>3, <1>6, <1>11, <1>17, <1>18, <1>19, <1>20, <1>21, <1>22 DEF FreightInv

\* and shipments generated, or a handler that stops.
LEMMA EndStep ==
  ASSUME FreightInv, NEW w \in Handlers, Generate(w) \/ HandlerStops(w)
  PROVE  FreightInv'
<1>1. FreightTyped
  BY DEF FreightInv
<1>2. UNCHANGED <<quotes, selected, freights, touched, moved>> /\ Closes(w) /\ (lock' = lock \/ lock' = Unlocked(w))
  BY DEF Generate, HandlerStops
<1>3. /\ handler' \in [Handlers -> HandlerKinds] /\ handler'[w] = Resting
      /\ \A v \in Handlers \ {w} : handler'[v] = handler[v]
  BY <1>1, <1>2, RestingFits DEF Closes, FreightTyped
<1>4. /\ lock' \in [Quotes -> Handlers \union {NoId}]
      /\ \A q \in Quotes : lock'[q] = lock[q] \/ (lock[q] = w /\ lock'[q] = NoId)
  <2>1. CASE lock' = lock
    BY <1>1, <2>1 DEF FreightTyped
  <2>2. CASE lock' = Unlocked(w)
    BY <1>1, <2>2 DEF Unlocked, FreightTyped
  <2> QED
    BY <1>2, <2>1, <2>2
<1>5. FreightTyped' /\ MovedTouched' /\ Settled' = Settled /\ \A q \in Settled : q \in Quotes
  BY <1>1, <1>2, <1>3, <1>4 DEF FreightInv, FreightTyped, Existing, Settled, MovedTouched
<1>6. OnePreferred' /\ ChargedAsPreferred'
  BY <1>2, <1>5 DEF FreightInv, OnePreferred, ChargedAsPreferred
<1>7. ASSUME NEW v \in Handlers \ {w}
      PROVE  (SelectsQuote(v) /\ LoadedQuote(v) /\ LocksRivals(v))' /\ (Marking(v)' <=> Marking(v))
  <2>1. handler'[v] = handler[v] /\ SelectsQuote(v) /\ LoadedQuote(v) /\ LocksRivals(v)
    BY <1>3 DEF FreightInv
  <2>2. handler[v].at = "mark" => handler[v].quote \in Quotes
    BY <1>1, HandlerTyped
  <2>3. SelectsQuote(v)' /\ LoadedQuote(v)' /\ (Marking(v)' <=> Marking(v))
    BY <1>2, <1>5, <2>1 DEF SelectsQuote, LoadedQuote, Marking
  <2>4. LocksRivals(v)'
    BY <1>2, <1>4, <1>5, <2>1, <2>2, <2>3 DEF LocksRivals, Marking
  <2> QED
    BY <2>3, <2>4
<1>8. (SelectsQuote(w) /\ LoadedQuote(w) /\ LocksRivals(w) /\ ~Marking(w))'
  BY <1>3, RestingFits
<1>9. OneMarks'
  <2> SUFFICES ASSUME NEW v \in Handlers, NEW u \in Handlers, Marking(v)', Marking(u)',
                      handler'[v].row.shipment = handler'[u].row.shipment
               PROVE  u = v
    BY DEF OneMarks
  <2> QED
    BY <1>3, <1>7, <1>8 DEF FreightInv, OneMarks
<1>10. \A q \in Quotes : lock'[q] # NoId => quotes'[q] # Free
  BY <1>2, <1>4 DEF FreightInv
<1>11. /\ \A g \in DOMAIN generated' : generated'[g] = Cardinality(Shipments) + 1
       /\ \A g, h \in DOMAIN generated' : g = h
  <2>1. CASE UNCHANGED generated
    BY <2>1 DEF FreightInv
  <2>2. CASE Generate(w) /\ ~(NumberTaken(handler[w].no) \/ DOMAIN generated = Generated)
    <3>1. PICK g \in Generated \ DOMAIN generated :
             generated' = [h \in (DOMAIN generated) \union {g} |-> IF h = g THEN handler[w].no ELSE generated[h]]
      BY <2>2 DEF Generate
    <3>2. handler[w].no = Cardinality(Shipments) + 1
      BY <1>1, <2>2, HandlerTyped DEF Generate
    <3>3. DOMAIN generated = {}
      BY <2>2, <3>2 DEF NumberTaken, FreightInv
    <3> QED
      BY <3>1, <3>2, <3>3
  <2> QED
    BY <2>1, <2>2 DEF Generate, HandlerStops
<1> QED
  BY <1>5, <1>6, <1>7, <1>8, <1>9, <1>10, <1>11 DEF FreightInv

\* A workspace begins without quotes, and nothing is generated.
LEMMA FreightBegins == ASSUME FreightInit PROVE FreightInv
<1>1. (\A w \in Handlers : handler[w] = Resting) /\ Settled = {} /\ MovedTouched /\ DOMAIN generated = {}
  BY DEF FreightInit, Existing, Settled, MovedTouched
<1>2. \A w \in Handlers : SelectsQuote(w) /\ LoadedQuote(w) /\ LocksRivals(w) /\ ~Marking(w)
  BY <1>1 DEF Resting, SelectsQuote, LoadedQuote, LocksRivals, Marking
<1>3. FreightTyped
  BY RestingFits DEF FreightInit, FreightTyped, NoFreight
<1>4. \A q \in Quotes : lock[q] = NoId
  BY DEF FreightInit
<1> QED
  BY <1>1, <1>2, <1>3, <1>4 DEF FreightInv, OnePreferred, ChargedAsPreferred, OneMarks

\* A shipment charged otherwise is touched.
LEMMA ChargeStep ==
  ASSUME FreightInv, ChargeFreight
  PROVE  FreightInv'
<1>1. PICK s \in Shipments, a \in Amounts \union {NoId} :
         freights' = [freights EXCEPT ![s].freight = a] /\ Touch({s})
  BY Zenon DEF ChargeFreight
<1>2. FreightTyped /\ UNCHANGED <<quotes, lock, selected, generated, moved, handler>>
  BY DEF FreightInv, ChargeFreight
<1>3. PICK f \in [freight : Amounts \union {NoId}, linked : BOOLEAN] : f = freights[s]
  BY <1>1, <1>2 DEF FreightTyped
<1> DEFINE next == [f EXCEPT !.freight = a]
<1>4. next \in [freight : Amounts \union {NoId}, linked : BOOLEAN]
  OBVIOUS
<1>5. freights' = [freights EXCEPT ![s] = next]
  BY <1>1, <1>2, <1>3 DEF FreightTyped
<1> HIDE DEF next
<1>6. /\ freights' \in [Shipments -> [freight : Amounts \union {NoId}, linked : BOOLEAN]]
      /\ \A r \in Shipments \ {s} : freights'[r] = freights[r]
      /\ touched' = touched \union {s} /\ touched' \subseteq Shipments
  BY <1>1, <1>2, <1>4, <1>5, FreightAssumption DEF Touch, FreightTyped
<1>7. FreightTyped' /\ MovedTouched' /\ Settled' = Settled
  BY <1>2, <1>6 DEF FreightInv, FreightTyped, Existing, Settled, MovedTouched
<1>8. OnePreferred' /\ ChargedAsPreferred'
  BY <1>2, <1>6, <1>7 DEF FreightInv, OnePreferred, ChargedAsPreferred
<1>9. \A w \in Handlers : (SelectsQuote(w) /\ LoadedQuote(w) /\ LocksRivals(w))' /\ (Marking(w)' <=> Marking(w))
  BY <1>2, <1>6, <1>7 DEF FreightInv, SelectsQuote, LoadedQuote, LocksRivals, Marking
<1>10. OneMarks'
  BY <1>2, <1>9 DEF FreightInv, OneMarks
<1> QED
  BY <1>2, <1>7, <1>8, <1>9, <1>10 DEF FreightInv

\* Every step keeps the marks and the charges of the shipments.
LEMMA FreightStep == FreightInv /\ [FreightNext]_freightVars => FreightInv'
<1>1. CASE FreightInv /\ UNCHANGED freightVars
  <2>1. UNCHANGED <<quotes, lock, selected, freights, generated, touched, moved, handler>>
    BY <1>1 DEF freightVars
  <2>2. FreightTyped' /\ MovedTouched' /\ Settled' = Settled
    BY <1>1, <2>1 DEF FreightInv, FreightTyped, Existing, Settled, MovedTouched
  <2>3. OnePreferred' /\ ChargedAsPreferred'
    BY <1>1, <2>1, <2>2 DEF FreightInv, OnePreferred, ChargedAsPreferred
  <2>4. \A w \in Handlers : (SelectsQuote(w) /\ LoadedQuote(w) /\ LocksRivals(w))' /\ (Marking(w)' <=> Marking(w))
    BY <1>1, <2>1, <2>2 DEF FreightInv, SelectsQuote, LoadedQuote, LocksRivals, Marking
  <2>5. OneMarks'
    BY <1>1, <2>1, <2>4 DEF FreightInv, OneMarks
  <2> QED
    BY <1>1, <2>1, <2>2, <2>3, <2>4, <2>5 DEF FreightInv
<1>2. CASE FreightInv /\ FreightNext
  BY <1>2, RowsStep, OpeningStep, UnmarkStep, MarkStep, EndStep, ChargeStep DEF FreightNext, HandlesQuote
<1> QED
  BY <1>1, <1>2

\* What the invariant says of the shipments, of types and of generated shipments.
LEMMA FreightGood == ASSUME FreightInv PROVE FreightTypeOK /\ OnePreferred /\ ChargedAsPreferred /\ GeneratedOnce
<1>1. GeneratedOnce
  <2>1. DOMAIN generated = {} \/ \E g : DOMAIN generated = {g}
    BY DEF FreightInv
  <2>2. Cardinality({}) = 0 /\ \A g : Cardinality({g}) = 1
    BY FS_EmptySet, FS_Singleton
  <2>3. CASE DOMAIN generated = {}
    BY <2>2, <2>3 DEF GeneratedOnce
  <2>4. CASE \E g : DOMAIN generated = {g}
    <3>1. PICK g : DOMAIN generated = {g}
      BY <2>4
    <3>2. Cardinality(DOMAIN generated) = 1
      BY <2>2, <3>1
    <3> QED
      BY <3>2 DEF GeneratedOnce
  <2> QED
    BY <2>1, <2>3, <2>4
<1>2. \A w \in Handlers : handler[w].at \in {"idle", "edit", "delete", "unmark", "mark", "generate"}
  <2> SUFFICES ASSUME NEW w \in Handlers PROVE handler[w].at \in {"idle", "edit", "delete", "unmark", "mark", "generate"}
    OBVIOUS
  <2>1. handler[w] \in HandlerKinds
    BY DEF FreightInv, FreightTyped
  <2> QED
    BY <2>1, RestingFits DEF HandlerKinds
<1>3. FreightTypeOK
  BY <1>2 DEF FreightInv, FreightTyped, FreightTypeOK
<1> QED
  BY <1>1, <1>3 DEF FreightInv

\* However selections, edits, moves, deletions and generations overlap, one at most of the quotes
\* entered for a shipment is preferred, the shipment is charged what that quote asks unless a
\* quote of it or the charge itself was changed, and one shipment is generated.
THEOREM FreightSettled == FreightSpec => [](OnePreferred /\ ChargedAsPreferred /\ GeneratedOnce)
<1>1. FreightInit => FreightInv
  BY FreightBegins
<1>2. FreightInv => OnePreferred /\ ChargedAsPreferred /\ GeneratedOnce
  BY FreightGood
<1> QED
  BY <1>1, <1>2, FreightStep, PTL DEF FreightSpec

-----------------------------------------------------------------------------
(* A freight quote and its lines *)

\* What a handler that edits the quote holds between two statements.
QuoteHead == [charge : Charges, version : Nat, deleted : BOOLEAN, direct : BOOLEAN]
Revision == [at : {"head", "find", "rates", "lines", "delete", "insert"}, edit : Nat,
             loaded : QuoteHead, holds : BOOLEAN, deleted : SUBSET Nat, sees : SUBSET Nat]
Withdrawal == [at : {"withdraw"}, edit : {0}, loaded : QuoteHead, holds : {FALSE},
               deleted : SUBSET Nat, sees : SUBSET Nat]

LinesTyped ==
    /\ head \in QuoteHead /\ head.version \in 1 .. edits
    /\ entered \in [1 .. MaxEdits -> Entry]
    /\ lines \subseteq 1 .. edits /\ edits \in 1 .. MaxEdits
    /\ editing \in [Carriers -> Revision \union Withdrawal \union {NotEditing}]
    /\ met \in BOOLEAN /\ applied \in Nat

\* An edit has loaded an older version than its own number.  While no two requests had the quote
\* loaded, what it loaded is the quote; an edit of a workspace's quote holds the quote from its
\* first statement on.  Then the lines it sees, and those it deleted, are all lines there are.
Loads(d) == d \in Revision => d.edit <= edits /\ 1 <= d.loaded.version /\ d.loaded.version + 1 <= d.edit
Reaches(d) ==
    /\ ~head.direct => d.at \notin {"find", "rates"}
    /\ ~head.direct /\ d.at \in {"lines", "delete", "insert"} => d.holds = TRUE
    /\ ~head.direct \/ ~met => /\ d.at = "delete" => d.sees = lines
                               /\ d.at = "insert" => d.deleted = lines
Latest(d) == ~met /\ d # NotEditing => d.loaded = head

OneLoaded == ~met => \A v, w \in Carriers : editing[v] # NotEditing /\ editing[w] # NotEditing => v = w
OneHolds == ~head.direct =>
    \A v, w \in Carriers : editing[v].at # "idle" /\ editing[w].at # "idle" /\ editing[v].holds = TRUE /\ editing[w].holds = TRUE => v = w
OneEditStands == ~head.direct \/ ~met => \E e : lines = {e}

LinesInv ==
    /\ LinesTyped /\ HeadMatchesLines /\ OneLoaded /\ OneHolds /\ OneEditStands
    /\ \A w \in Carriers : Loads(editing[w]) /\ Reaches(editing[w]) /\ Latest(editing[w])

\* A handler that is not at an edit has no part in one.
LEMMA RestIsNoRevision ==
  /\ NotEditing \notin Revision \union Withdrawal /\ NotEditing.at = "idle"
  /\ Loads(NotEditing) /\ Reaches(NotEditing) /\ Latest(NotEditing)
<1>1. NotEditing.at = "idle"
  BY DEF NotEditing
<1>2. \A d \in Revision : d.at # "idle"
  BY DEF Revision
<1>3. \A d \in Withdrawal : d.at # "idle"
  BY DEF Withdrawal
<1> QED
  BY <1>1, <1>2, <1>3 DEF Loads, Reaches, Latest

\* The quote is created with its lines, and nobody has loaded it.
LEMMA LinesBegin == ASSUME LinesInit PROVE LinesInv
<1>1. PICK direct \in BOOLEAN, e \in Entry :
        /\ head = [charge |-> e.charge, version |-> 1, deleted |-> FALSE, direct |-> direct]
        /\ entered = [i \in 1 .. MaxEdits |-> e]
  BY DEF LinesInit
<1>2. lines = {1} /\ edits = 1 /\ applied = 1 /\ met = FALSE /\ editing = [w \in Carriers |-> NotEditing]
  BY DEF LinesInit
<1>3. e.charge \in Charges
  BY DEF Entry
<1>4. head \in QuoteHead /\ head.version = 1 /\ head.charge = e.charge
  BY <1>1, <1>3 DEF QuoteHead
<1>5. MaxEdits \in Nat /\ MaxEdits # 0
  BY EditsAssumption
<1>6. LinesTyped
  <2>1. head.version \in 1 .. edits /\ lines \subseteq 1 .. edits /\ edits \in 1 .. MaxEdits /\ applied \in Nat
    BY <1>2, <1>4, <1>5
  <2>4. met \in BOOLEAN
    BY <1>2
  <2>2. entered \in [1 .. MaxEdits -> Entry]
    BY <1>1
  <2>3. editing \in [Carriers -> Revision \union Withdrawal \union {NotEditing}]
    BY <1>2
  <2> QED
    BY <1>4, <2>1, <2>2, <2>3, <2>4 DEF LinesTyped
<1>7. HeadMatchesLines
  BY <1>1, <1>2, <1>4, <1>5 DEF HeadMatchesLines
<1>8. OneEditStands
  BY <1>2 DEF OneEditStands
<1>9. OneLoaded /\ OneHolds
  BY <1>2, RestIsNoRevision DEF OneLoaded, OneHolds
<1> QED
  BY <1>2, <1>6, <1>7, <1>8, <1>9, RestIsNoRevision DEF LinesInv

\* A statement that changes only what its handler knows keeps the invariant when the handler
\* still stands where it may.
LEMMA KnowsMore ==
  ASSUME LinesInv, NEW w \in Carriers, NEW next, Becomes(w, next), Later,
         next \in Revision \union Withdrawal \union {NotEditing}, Loads(next), Reaches(next), Latest(next),
         next # NotEditing => editing[w] # NotEditing,
         ~head.direct /\ next.at # "idle" /\ next.holds = TRUE =>
             \A v \in Carriers \ {w} : ~(editing[v].at # "idle" /\ editing[v].holds = TRUE)
  PROVE  LinesInv'
<1>1. editing' = [editing EXCEPT ![w] = next] /\ UNCHANGED <<head, entered, lines, edits, applied, met>>
  BY DEF Becomes, Later
<1>2. LinesTyped
  BY DEF LinesInv
<1>3. LinesTyped'
  BY <1>1, <1>2 DEF LinesTyped
<1>4. editing'[w] = next /\ \A v \in Carriers \ {w} : editing'[v] = editing[v]
  BY <1>1, <1>2 DEF LinesTyped
<1>5. HeadMatchesLines' /\ OneEditStands'
  BY <1>1 DEF LinesInv, HeadMatchesLines, OneEditStands
<1>6. OneLoaded'
  BY <1>1, <1>4 DEF LinesInv, OneLoaded
<1>7. OneHolds'
  BY <1>1, <1>4 DEF LinesInv, OneHolds
<1>8. \A v \in Carriers : (Loads(editing[v]) /\ Reaches(editing[v]) /\ Latest(editing[v]))'
  BY <1>1, <1>4 DEF LinesInv, Loads, Reaches, Latest
<1> QED
  BY <1>3, <1>5, <1>6, <1>7, <1>8 DEF LinesInv

\* A handler that stops, or is rolled back, leaves the quote and its lines as they were.
LEMMA LeavesQuote ==
  ASSUME LinesInv, NEW w \in Carriers, RollBackEdit(w) \/ EditStops(w) PROVE LinesInv'
<1>1. Becomes(w, NotEditing) /\ Later
  BY DEF RollBackEdit, EditStops
<1> QED
  BY <1>1, KnowsMore, RestIsNoRevision

\* The first statements of an edit.
LEMMA WriteHeadStep == ASSUME LinesInv, NEW w \in Carriers, WriteHead(w) PROVE LinesInv'
<1>1. PICK d \in Revision : d = editing[w]
  <2>1. editing[w] \in Revision \union Withdrawal \union {NotEditing} /\ editing[w].at = "head"
    BY DEF LinesInv, LinesTyped, WriteHead
  <2> QED
    BY <2>1, RestIsNoRevision DEF Withdrawal
<1> DEFINE next == [d EXCEPT !.at = IF head.direct THEN "find" ELSE "lines",
                             !.holds = ~head.direct \/ Changes(w)]
<1>2. Becomes(w, next) /\ Later /\ (~head.direct \/ Changes(w) => HeadFree(w))
  BY <1>1 DEF WriteHead
<1>3. next \in Revision
  BY DEF Revision
<1>4. next.edit = d.edit /\ next.loaded = d.loaded /\ (head.direct => next.at = "find") /\ (~head.direct => next.at = "lines")
  BY DEF Revision
<1>5. ~head.direct => next.holds = TRUE
  BY DEF Revision
<1>6. next # NotEditing /\ d # NotEditing
  BY <1>3, RestIsNoRevision
<1> HIDE DEF next
<1>7. Loads(next) /\ Latest(next)
  BY <1>1, <1>3, <1>4, <1>6 DEF LinesInv, Loads, Latest
<1>8. Reaches(next)
  BY <1>4, <1>5 DEF Reaches
<1>9. ~head.direct => \A v \in Carriers \ {w} : ~(editing[v].at # "idle" /\ editing[v].holds = TRUE)
  BY <1>2 DEF HeadFree, HoldsHead
<1> QED
  BY <1>1, <1>2, <1>3, <1>6, <1>7, <1>8, <1>9, KnowsMore

\* The statements that read and delete lines: the handler goes on to at, knows of lines what it
\* knew or what it reads, and holds what it held.
LEMMA GoesOn ==
  ASSUME LinesInv, NEW w \in Carriers, NEW d \in Revision, d = editing[w], NEW next \in Revision,
         Becomes(w, next), Later, Reaches(next),
         next.edit = d.edit, next.loaded = d.loaded, next.holds = d.holds
  PROVE  LinesInv'
<1>1. next # NotEditing /\ d # NotEditing /\ d.at # "idle"
  BY RestIsNoRevision DEF Revision
<1>2. Loads(next) /\ Latest(next)
  BY <1>1 DEF LinesInv, Loads, Latest
<1>3. ~head.direct /\ next.holds = TRUE => \A v \in Carriers \ {w} : ~(editing[v].at # "idle" /\ editing[v].holds = TRUE)
  BY <1>1 DEF LinesInv, OneHolds
<1> QED
  BY <1>1, <1>2, <1>3, KnowsMore

\* A direct quote's routes and rates are found and deleted, then all lines are deleted.
LEMMA LinesWork ==
  ASSUME LinesInv, NEW w \in Carriers, FindRoutes(w) \/ DeleteRates(w) \/ BeginDelete(w) \/ DeleteLines(w)
  PROVE  LinesInv'
<1>1. PICK d \in Revision : d = editing[w]
  <2>1. editing[w] \in Revision \union Withdrawal \union {NotEditing} /\ editing[w].at \in {"find", "rates", "lines", "delete"}
    BY DEF LinesInv, LinesTyped, FindRoutes, DeleteRates, BeginDelete, DeleteLines
  <2> QED
    BY <2>1, RestIsNoRevision DEF Withdrawal
<1>2. Later /\ lines \subseteq Nat /\ Reaches(d)
  BY <1>1 DEF LinesInv, LinesTyped, FindRoutes, DeleteRates, BeginDelete, DeleteLines
<1>3. CASE FindRoutes(w)
  <2> DEFINE next == [d EXCEPT !.at = IF lines = {} THEN "insert" ELSE "rates", !.sees = lines]
  <2>1. Becomes(w, next) /\ d.at = "find"
    BY <1>1, <1>3 DEF FindRoutes
  <2>2. next \in Revision
    BY <1>2, Zenon DEF Revision
  <2>3. next.edit = d.edit /\ next.loaded = d.loaded
    BY DEF Revision
  <2>4. next.holds = d.holds
    BY DEF Revision
  <2>5. (lines # {} => next.at = "rates") /\ next.at \in {"insert", "rates"}
    BY DEF Revision
  <2> HIDE DEF next
  <2>6. Reaches(next)
    BY <1>2, <2>1, <2>5 DEF Reaches, LinesInv, OneEditStands
  <2> QED
    BY <1>1, <1>2, <2>1, <2>2, <2>3, <2>4, <2>6, GoesOn
<1>4. CASE DeleteRates(w)
  <2> DEFINE next == [d EXCEPT !.at = "lines", !.deleted = Rated(d.sees) \cap lines]
  <2>1. Becomes(w, next) /\ d.at = "rates"
    BY <1>1, <1>4 DEF DeleteRates
  <2>2. next \in Revision
    BY <1>2, Zenon DEF Revision, Rated
  <2>3. next.edit = d.edit /\ next.loaded = d.loaded /\ next.at = "lines"
    BY DEF Revision
  <2>4. next.holds = d.holds
    BY DEF Revision
  <2> HIDE DEF next
  <2>5. Reaches(next)
    BY <1>2, <2>1, <2>3 DEF Reaches
  <2> QED
    BY <1>1, <1>2, <2>1, <2>2, <2>3, <2>4, <2>5, GoesOn
<1>5. CASE BeginDelete(w)
  <2> DEFINE next == [d EXCEPT !.at = "delete", !.sees = lines]
  <2>1. Becomes(w, next) /\ d.at = "lines"
    BY <1>1, <1>5 DEF BeginDelete
  <2>2. next \in Revision
    BY <1>2 DEF Revision
  <2>3. next.edit = d.edit /\ next.loaded = d.loaded /\ next.at = "delete" /\ next.sees = lines
    BY DEF Revision
  <2>4. next.holds = d.holds
    BY DEF Revision
  <2> HIDE DEF next
  <2>5. Reaches(next)
    BY <1>2, <2>1, <2>3, <2>4 DEF Reaches
  <2> QED
    BY <1>1, <1>2, <2>1, <2>2, <2>3, <2>4, <2>5, GoesOn
<1>6. CASE DeleteLines(w)
  <2> DEFINE next == [d EXCEPT !.at = "insert", !.deleted = d.sees \cap lines]
  <2>1. Becomes(w, next) /\ d.at = "delete"
    BY <1>1, <1>6 DEF DeleteLines
  <2>2. next \in Revision
    BY <1>2 DEF Revision
  <2>3. next.edit = d.edit /\ next.loaded = d.loaded /\ next.at = "insert" /\ next.deleted = d.sees \cap lines
    BY DEF Revision
  <2>4. next.holds = d.holds
    BY DEF Revision
  <2> HIDE DEF next
  <2>5. Reaches(next)
    BY <1>2, <2>1, <2>3, <2>4 DEF Reaches
  <2> QED
    BY <1>1, <1>2, <2>1, <2>2, <2>3, <2>4, <2>5, GoesOn
<1> QED
  BY <1>3, <1>4, <1>5, <1>6

\* What is loaded is the quote; another request that has it loaded is met.
LEMMA LoadsStep == ASSUME LinesInv, NEW w \in Carriers, LoadToRevise(w) \/ LoadToWithdraw(w) PROVE LinesInv'
<1>1. PICK more, at : 
        /\ LoadQuote(w, at, more)
        /\ \/ at = "head" /\ LoadToRevise(w) /\ more = edits + 1
           \/ at = "withdraw" /\ LoadToWithdraw(w) /\ more = 0
  BY DEF LoadToRevise, LoadToWithdraw
<1>0. PICK next : next = [at |-> at, edit |-> more, loaded |-> head, holds |-> FALSE, deleted |-> {}, sees |-> {}]
  OBVIOUS
<1>2. LoadQuote(w, at, more)
  BY <1>1 DEF LoadToRevise, LoadToWithdraw
<1>3. editing[w] = NotEditing /\ editing' = [editing EXCEPT ![w] = next] /\ UNCHANGED <<head, lines, applied>>
  BY <1>0, <1>1, <1>2 DEF LoadQuote, Becomes, LoadToRevise, LoadToWithdraw
<1>4. head \in QuoteHead /\ head.version \in 1 .. edits /\ edits \in 1 .. MaxEdits /\ MaxEdits \in Nat
  BY EditsAssumption DEF LinesInv, LinesTyped
<1>5. next.at = at /\ next.edit = more /\ next.loaded = head /\ next.at # "idle"
  BY <1>0, <1>1
<1>6. next.holds # TRUE
  BY <1>0
<1>7. next \in Revision \union Withdrawal
  BY <1>0, <1>1, <1>4 DEF Revision, Withdrawal
<1>8. next \in Revision => at = "head" /\ more = edits + 1
  BY <1>1, <1>5 DEF Revision
<1>9. edits' \in 1 .. MaxEdits /\ edits <= edits' /\ (next \in Revision => edits' = edits + 1)
  BY <1>1, <1>4, <1>8 DEF LoadToRevise, LoadToWithdraw
<1>10. entered' \in [1 .. MaxEdits -> Entry] /\ \A e \in 1 .. edits : entered'[e] = entered[e]
  <2>1. CASE LoadToRevise(w)
    <3>1. PICK e \in Entry : entered' = [entered EXCEPT ![edits + 1] = e]
      BY <2>1 DEF LoadToRevise
    <3>2. edits + 1 \in 1 .. MaxEdits /\ \A i \in 1 .. edits : i \in 1 .. MaxEdits /\ i # edits + 1
      BY <1>4, <2>1 DEF LoadToRevise
    <3>3. entered \in [1 .. MaxEdits -> Entry]
      BY DEF LinesInv, LinesTyped
    <3> QED
      BY <3>1, <3>2, <3>3
  <2>2. CASE LoadToWithdraw(w)
    BY <2>2 DEF LoadToWithdraw, LinesInv, LinesTyped
  <2> QED
    BY <1>1, <2>1, <2>2
<1>11. met' \in BOOLEAN /\ (~met' => ~met /\ \A v \in Carriers : editing[v] = NotEditing)
  BY <1>2 DEF LoadQuote, LinesInv, LinesTyped
<1>12. editing'[w] = next /\ \A v \in Carriers \ {w} : editing'[v] = editing[v]
  BY <1>3 DEF LinesInv, LinesTyped
<1>13. LinesTyped'
  <2>1. editing' \in [Carriers -> Revision \union Withdrawal \union {NotEditing}]
    BY <1>3, <1>7 DEF LinesInv, LinesTyped
  <2>2. head' \in QuoteHead /\ head'.version \in 1 .. edits' /\ lines' \subseteq 1 .. edits' /\ applied' \in Nat
    BY <1>3, <1>4, <1>9 DEF LinesInv, LinesTyped
  <2> QED
    BY <1>9, <1>10, <1>11, <2>1, <2>2 DEF LinesTyped
<1>14. HeadMatchesLines' /\ OneEditStands'
  BY <1>3, <1>10, <1>11 DEF LinesInv, LinesTyped, HeadMatchesLines, OneEditStands
<1>15. OneLoaded'
  BY <1>11, <1>12 DEF OneLoaded
<1>16. OneHolds'
  BY <1>3, <1>6, <1>12 DEF LinesInv, OneHolds
<1>17. Loads(next)' /\ Reaches(next)' /\ Latest(next)'
  <2>1. Loads(next)'
    BY <1>4, <1>5, <1>8, <1>9 DEF Loads
  <2>2. Reaches(next)'
    BY <1>1, <1>5 DEF Reaches
  <2>3. Latest(next)'
    BY <1>3, <1>5 DEF Latest
  <2> QED
    BY <2>1, <2>2, <2>3
<1>18. \A v \in Carriers : (Loads(editing[v]) /\ Reaches(editing[v]) /\ Latest(editing[v]))'
  <2> SUFFICES ASSUME NEW v \in Carriers PROVE (Loads(editing[v]) /\ Reaches(editing[v]) /\ Latest(editing[v]))'
    OBVIOUS
  <2>1. CASE v = w
    BY <1>12, <1>17, <2>1 DEF Loads, Reaches, Latest
  <2>2. CASE v # w
    <3>1. editing'[v] = editing[v] /\ Loads(editing[v]) /\ Reaches(editing[v]) /\ Latest(editing[v])
      BY <1>12, <2>2 DEF LinesInv
    <3>2. editing[v] \in Revision => editing[v].edit \in Nat
      BY DEF Revision
    <3>3. Loads(editing[v])'
      BY <1>4, <1>9, <3>1, <3>2 DEF Loads
    <3>4. Reaches(editing[v])' /\ Latest(editing[v])'
      BY <1>3, <1>11, <3>1 DEF Reaches, Latest
    <3> QED
      BY <3>3, <3>4
  <2> QED
    BY <2>1, <2>2
<1> QED
  BY <1>13, <1>14, <1>15, <1>16, <1>18 DEF LinesInv

\* The quote is marked as deleted, and nobody else has loaded it unless two met.
LEMMA WithdrawStep == ASSUME LinesInv, NEW w \in Carriers, WithdrawQuote(w) PROVE LinesInv'
<1>1. editing[w].at = "withdraw" /\ editing' = [editing EXCEPT ![w] = NotEditing] /\ UNCHANGED <<entered, lines, edits, applied, met>>
  BY DEF WithdrawQuote, Becomes
<1>2. PICK h \in QuoteHead : h = head
  BY DEF LinesInv, LinesTyped
<1>3. head' = [h EXCEPT !.deleted = TRUE]
  BY <1>2 DEF WithdrawQuote
<1>4. head' \in QuoteHead /\ head'.version = head.version /\ head'.charge = head.charge
  BY <1>2, <1>3 DEF QuoteHead
<1>5. head'.direct = head.direct
  BY <1>2, <1>3 DEF QuoteHead
<1>6. editing'[w] = NotEditing /\ \A v \in Carriers \ {w} : editing'[v] = editing[v]
  BY <1>1 DEF LinesInv, LinesTyped
<1>7. LinesTyped'
  <2>1. editing' \in [Carriers -> Revision \union Withdrawal \union {NotEditing}]
    BY <1>1 DEF LinesInv, LinesTyped
  <2> QED
    BY <1>1, <1>4, <2>1 DEF LinesInv, LinesTyped
<1>8. HeadMatchesLines'
  BY <1>1, <1>4 DEF LinesInv, HeadMatchesLines
<1>9. OneEditStands' /\ OneLoaded'
  BY <1>1, <1>5, <1>6 DEF LinesInv, OneEditStands, OneLoaded
<1>10. OneHolds'
  BY <1>1, <1>5, <1>6, RestIsNoRevision DEF LinesInv, OneHolds
<1>11. editing[w] # NotEditing
  BY <1>1, RestIsNoRevision
<1>12. \A v \in Carriers : (Loads(editing[v]) /\ Reaches(editing[v]) /\ Latest(editing[v]))'
  <2> SUFFICES ASSUME NEW v \in Carriers PROVE (Loads(editing[v]) /\ Reaches(editing[v]) /\ Latest(editing[v]))'
    OBVIOUS
  <2>1. CASE v = w
    BY <1>6, <2>1, RestIsNoRevision DEF Loads, Reaches, Latest
  <2>2. CASE v # w
    <3>1. editing'[v] = editing[v] /\ Loads(editing[v]) /\ Reaches(editing[v])
      BY <1>6, <2>2 DEF LinesInv
    <3>2. ~met => editing[v] = NotEditing
      BY <1>11, <2>2 DEF LinesInv, OneLoaded
    <3> QED
      BY <1>1, <1>5, <3>1, <3>2 DEF Loads, Reaches, Latest
  <2> QED
    BY <2>1, <2>2
<1> QED
  BY <1>7, <1>8, <1>9, <1>10, <1>12 DEF LinesInv

\* An edit replaces the lines and writes the quote: what it deletes are all lines, and what it
\* writes on is what it loaded, unless two met.
LEMMA CommitStep == ASSUME LinesInv, NEW w \in Carriers, CommitLines(w) PROVE LinesInv'
<1>1. PICK d \in Revision : d = editing[w]
  <2>1. editing[w] \in Revision \union Withdrawal \union {NotEditing} /\ editing[w].at = "insert"
    BY DEF LinesInv, LinesTyped, CommitLines
  <2> QED
    BY <2>1, RestIsNoRevision DEF Withdrawal
<1>2. PICK h \in QuoteHead : h = head
  BY DEF LinesInv, LinesTyped
<1>3. PICK charge : charge = IF Changes(w) THEN Charge(w) ELSE h.charge
  OBVIOUS
<1>4. /\ d.at = "insert" /\ HeadFree(w) /\ lines' = (lines \ d.deleted) \union {d.edit}
      /\ head' = [h EXCEPT !.version = d.loaded.version + 1, !.charge = charge]
      /\ applied' = applied + 1 /\ editing' = [editing EXCEPT ![w] = NotEditing] /\ UNCHANGED <<entered, edits, met>>
  BY <1>1, <1>2, <1>3 DEF CommitLines, Becomes
<1>5. d.loaded \in QuoteHead /\ d.edit \in Nat /\ d.loaded.version \in Nat /\ d # NotEditing /\ d.at # "idle"
  BY RestIsNoRevision DEF Revision, QuoteHead
<1>6. edits \in 1 .. MaxEdits /\ MaxEdits \in Nat /\ lines \subseteq 1 .. edits /\ applied \in Nat
  BY EditsAssumption DEF LinesInv, LinesTyped
<1>7. 1 <= d.loaded.version /\ d.loaded.version + 1 <= d.edit /\ d.edit <= edits
  BY <1>1 DEF LinesInv, Loads
<1>8. d.edit \in 1 .. edits /\ d.edit \in 1 .. MaxEdits
  BY <1>5, <1>6, <1>7
<1>9. entered[d.edit].charge \in Charges
  BY <1>8 DEF LinesInv, LinesTyped, Entry
<1>10. charge \in Charges
  BY <1>1, <1>2, <1>3, <1>9 DEF Charge, QuoteHead
<1>11. head' \in QuoteHead /\ head'.version = d.loaded.version + 1 /\ head'.charge = charge
  <2>1. PICK version \in Nat : version = d.loaded.version + 1
    BY <1>5
  <2>2. head' = [h EXCEPT !.version = version, !.charge = charge]
    BY <1>4, <2>1
  <2>3. head' \in QuoteHead
    BY <1>10, <2>2 DEF QuoteHead
  <2> QED
    BY <2>1, <2>2, <2>3 DEF QuoteHead
<1>12. head'.direct = head.direct
  BY <1>2, <1>4 DEF QuoteHead
<1>13. editing'[w] = NotEditing /\ \A v \in Carriers \ {w} : editing'[v] = editing[v]
  BY <1>4 DEF LinesInv, LinesTyped
<1>14. LinesTyped'
  <2>1. editing' \in [Carriers -> Revision \union Withdrawal \union {NotEditing}]
    BY <1>4 DEF LinesInv, LinesTyped
  <2>2. head'.version \in 1 .. edits' /\ applied' \in Nat
    BY <1>4, <1>5, <1>6, <1>7, <1>11
  <2>3. lines' \subseteq 1 .. edits'
    BY <1>4, <1>6, <1>8
  <2> QED
    BY <1>4, <1>11, <2>1, <2>2, <2>3 DEF LinesInv, LinesTyped
<1>15. ~head.direct \/ ~met => lines' = {d.edit}
  BY <1>1, <1>4 DEF LinesInv, Reaches
<1>16. OneEditStands'
  BY <1>4, <1>12, <1>15 DEF OneEditStands
<1>17. HeadMatchesLines'
  <2> SUFFICES ASSUME ~met PROVE (\A e \in lines' : entered[e].charge = charge) /\ head'.version = applied'
    BY <1>4, <1>11 DEF HeadMatchesLines
  <2>1. d.loaded = h
    BY <1>1, <1>2, <1>5 DEF LinesInv, Latest
  <2>2. head.version = applied
    BY DEF LinesInv, HeadMatchesLines
  <2>3. entered[d.edit].charge = charge
    BY <1>1, <1>3, <2>1 DEF Changes, Charge
  <2> QED
    BY <1>2, <1>4, <1>11, <1>15, <2>1, <2>2, <2>3
<1>18. OneLoaded' /\ OneHolds'
  BY <1>4, <1>12, <1>13, RestIsNoRevision DEF LinesInv, OneLoaded, OneHolds
<1>19. \A v \in Carriers : (Loads(editing[v]) /\ Reaches(editing[v]) /\ Latest(editing[v]))'
  <2> SUFFICES ASSUME NEW v \in Carriers PROVE (Loads(editing[v]) /\ Reaches(editing[v]) /\ Latest(editing[v]))'
    OBVIOUS
  <2>1. CASE v = w
    BY <1>13, <2>1, RestIsNoRevision DEF Loads, Reaches, Latest
  <2>2. CASE v # w
    <3>1. editing'[v] = editing[v] /\ Loads(editing[v]) /\ Reaches(editing[v])
      BY <1>13, <2>2 DEF LinesInv
    <3>2. ~met => editing[v] = NotEditing
      BY <1>1, <1>5, <2>2 DEF LinesInv, OneLoaded
    <3>3. ~head.direct => editing[v].at \notin {"lines", "delete", "insert"}
      <4>1. ~head.direct => d.holds = TRUE
        BY <1>1, <1>4 DEF LinesInv, Reaches
      <4> QED
        BY <1>1, <1>5, <2>2, <3>1, <4>1 DEF LinesInv, OneHolds, Reaches
    <3>4. Loads(editing[v])' /\ Latest(editing[v])'
      BY <1>4, <3>1, <3>2 DEF Loads, Latest
    <3>5. Reaches(editing[v])'
      BY <1>4, <1>12, <3>1, <3>2, <3>3, RestIsNoRevision DEF Reaches
    <3> QED
      BY <3>4, <3>5
  <2> QED
    BY <2>1, <2>2
<1> QED
  BY <1>14, <1>16, <1>17, <1>18, <1>19 DEF LinesInv

\* Every step of a handler that edits the quote keeps the invariant.
LEMMA LinesStep == LinesInv /\ [LinesNext]_lineVars => LinesInv'
<1>1. CASE LinesInv /\ UNCHANGED lineVars
  <2>1. UNCHANGED <<head, entered, lines, edits, editing, applied, met>>
    BY <1>1 DEF lineVars
  <2>2. LinesTyped' /\ HeadMatchesLines' /\ OneLoaded' /\ OneHolds' /\ OneEditStands'
    BY <1>1, <2>1 DEF LinesInv, LinesTyped, HeadMatchesLines, OneLoaded, OneHolds, OneEditStands
  <2>3. \A v \in Carriers : (Loads(editing[v]) /\ Reaches(editing[v]) /\ Latest(editing[v]))'
    BY <1>1, <2>1 DEF LinesInv, Loads, Reaches, Latest
  <2> QED
    BY <2>2, <2>3 DEF LinesInv
<1>2. CASE LinesInv /\ LinesNext
  BY <1>2, LoadsStep, WithdrawStep, WriteHeadStep, LinesWork, CommitStep, LeavesQuote DEF LinesNext
<1> QED
  BY <1>1, <1>2

\* What the invariant says of types, and of the number of edits that stand.
LEMMA LinesGood == ASSUME LinesInv PROVE LinesTypeOK /\ HeadMatchesLines /\ LinesOfOneEdit
<1>1. LinesOfOneEdit
  <2> SUFFICES ASSUME ~head.direct \/ ~met PROVE Cardinality(lines) = 1
    BY DEF LinesOfOneEdit
  <2>1. PICK e : lines = {e}
    BY DEF LinesInv, OneEditStands
  <2> QED
    BY <2>1, FS_Singleton
<1>2. \A w \in Carriers : editing[w].at \in {"idle", "head", "find", "rates", "lines", "delete", "insert", "withdraw"}
  BY RestIsNoRevision DEF LinesInv, LinesTyped, Revision, Withdrawal
<1>3. head \in [charge : Charges, version : 1 .. MaxEdits, deleted : BOOLEAN, direct : BOOLEAN]
  <2>1. PICK h \in QuoteHead : h = head
    BY DEF LinesInv, LinesTyped
  <2>2. h.version \in 1 .. MaxEdits
    BY <2>1, EditsAssumption DEF LinesInv, LinesTyped
  <2> QED
    BY <2>1, <2>2 DEF QuoteHead
<1> QED
  BY <1>1, <1>2, <1>3 DEF LinesInv, LinesTyped, LinesTypeOK

\* Whoever edits a freight quote at once, its columns say what its lines say and its version
\* counts its edits while no two requests had it loaded, and the quote of a workspace, whose
\* edits wait for its row, always has the lines of one edit.
THEOREM LinesAgree == LinesSpec => [](LinesTypeOK /\ HeadMatchesLines /\ LinesOfOneEdit)
<1>1. LinesInit => LinesInv
  BY LinesBegin
<1>2. LinesInv => LinesTypeOK /\ HeadMatchesLines /\ LinesOfOneEdit
  BY LinesGood
<1> QED
  BY <1>1, <1>2, LinesStep, PTL DEF LinesSpec

-----------------------------------------------------------------------------
(* Monthly stock reports *)

\* The next id of a table is one of its free ids.
LEMMA NextIdIsFree ==
  ASSUME NEW table, FreeIds(table) # {}, DOMAIN table \subseteq Nat
  PROVE  NextId(table) \in FreeIds(table)
<1>1. \E i \in FreeIds(table) : \A j \in FreeIds(table) : i <= j
  BY LeastNumber DEF FreeIds
<1> QED
  BY <1>1 DEF NextId

\* Partial functions, what is loaded of a section, and what a request holds between two statements.
Maps(S, T) == UNION {[D -> T] : D \in SUBSET S}
NoSheet == [columns |-> <<>>, rows |-> <<>>]
Sheet == [form : Forms, columns : Maps(Columns, Forms), rows : Maps(SheetRows, Forms),
          cells : Maps(SheetRows \X Columns, Figures)]
Sheets == {t \in Sheet : \A p \in DOMAIN t.cells : p[1] \in DOMAIN t.rows /\ p[2] \in DOMAIN t.columns}
Copier == [at : {"copy"}, summary : Summaries, todo : Maps(Sections, Sheets), to : Sections \union {0},
           from : Sheets \union {NoSheet}, columnMap : Maps(Columns, Columns), rowMap : Maps(SheetRows, SheetRows)]
Inserter == [at : {"insert"}, month : Months, source : Summaries \union {0}]
Lister == [at : {"countries"}, summary : Summaries, source : Summaries \union {0}]
Updater == [at : {"update"}, summary : Summaries, row : Summary, month : Months,
            status : {"Draft", "Published"}, countries : {"kept", "none", "given"}]
Editor == [at : {"clear", "remove", "edit", "save", "save all"}, summary : Summaries]
AuthorKinds == {Unbusy} \union Copier \union Inserter \union Lister \union Updater \union Editor

StockTyped ==
  /\ summaries \in [Summaries -> Summary \union {Missing}]
  /\ sections \in [Sections -> Section \union {Undrawn}]
  /\ columns \in [Columns -> SheetColumn \union {Undrawn}]
  /\ sheetRows \in [SheetRows -> SheetRow \union {Undrawn}]
  /\ DOMAIN cells \subseteq SheetRows \X Columns /\ (\A p \in DOMAIN cells : cells[p] \in Figures)
  /\ scopes \in [Summaries -> 0..MaxLists]
  /\ author \in [Authors -> AuthorKinds]

\* What is free and what a request is at decides what it is.
LEMMA KindsApart ==
  /\ Undrawn \notin Section \union SheetColumn \union SheetRow /\ Missing \notin Summary
  /\ Undrawn.of = 0 /\ ~Undrawn.live /\ 0 \notin Sections
  /\ \A d \in AuthorKinds :
       /\ d.at = "copy" => d \in Copier
       /\ d.at = "insert" => d \in Inserter
       /\ d.at = "countries" => d \in Lister
       /\ d.at = "update" => d \in Updater
       /\ d.at \in {"clear", "remove", "edit", "save", "save all"} => d \in Editor
       /\ d.at = "idle" => d = Unbusy
<1>1. 0 \notin Sections /\ 0 \notin Summaries
  BY StockAssumption
<1>2. Undrawn.of = 0 /\ ~Undrawn.live
  BY DEF Undrawn
<1>3. Undrawn \notin Section \union SheetColumn \union SheetRow
  BY <1>1, <1>2 DEF Section, SheetColumn, SheetRow
<1>4. Missing \notin Summary
  BY DEF Missing, Summary
<1>5. \A d \in AuthorKinds : d = Unbusy \/ d \in Copier \/ d \in Inserter \/ d \in Lister \/ d \in Updater \/ d \in Editor
  BY DEF AuthorKinds
<1>6. Unbusy.at = "idle" /\ (\A d \in Copier : d.at = "copy") /\ (\A d \in Inserter : d.at = "insert") /\ (\A d \in Lister : d.at = "countries")
      /\ (\A d \in Updater : d.at = "update") /\ (\A d \in Editor : d.at \in {"clear", "remove", "edit", "save", "save all"})
  BY Zenon DEF Unbusy, Copier, Inserter, Lister, Updater, Editor
<1> QED
  BY <1>1, <1>2, <1>3, <1>4, <1>5, <1>6, Zenon

\* A free id of a table of rows is that of a row not drawn yet, and of the reports a missing one.
LEMMA FreeIsNew ==
  ASSUME StockTyped
  PROVE  /\ FreeIds(summaries) # {} => NextId(summaries) \in Summaries /\ summaries[NextId(summaries)] = Missing
         /\ FreeIds(sections) # {} => NextId(sections) \in Sections /\ sections[NextId(sections)] = Undrawn
         /\ FreeIds(columns) # {} => NextId(columns) \in Columns /\ columns[NextId(columns)] = Undrawn
         /\ FreeIds(sheetRows) # {} => NextId(sheetRows) \in SheetRows /\ sheetRows[NextId(sheetRows)] = Undrawn
<1>1. Undrawn \notin Summary
  BY DEF Undrawn, Summary
<1>2. Missing \notin Section /\ Missing \notin SheetColumn /\ Missing \notin SheetRow
  BY DEF Missing, Section, SheetColumn, SheetRow
<1>3. Missing # Undrawn
  BY DEF Missing, Undrawn
<1>4. DOMAIN summaries = Summaries /\ DOMAIN sections = Sections /\ DOMAIN columns = Columns /\ DOMAIN sheetRows = SheetRows
  BY DEF StockTyped
<1>5. Summaries \subseteq Nat /\ Sections \subseteq Nat /\ Columns \subseteq Nat /\ SheetRows \subseteq Nat
  BY StockAssumption
<1>6. FreeIds(summaries) # {} => NextId(summaries) \in Summaries /\ summaries[NextId(summaries)] = Missing
  BY <1>1, <1>3, <1>4, <1>5, NextIdIsFree DEF FreeIds, StockTyped
<1>7. FreeIds(sections) # {} => NextId(sections) \in Sections /\ sections[NextId(sections)] = Undrawn
  BY <1>2, <1>3, <1>4, <1>5, NextIdIsFree DEF FreeIds, StockTyped
<1>8. FreeIds(columns) # {} => NextId(columns) \in Columns /\ columns[NextId(columns)] = Undrawn
  BY <1>2, <1>3, <1>4, <1>5, NextIdIsFree DEF FreeIds, StockTyped
<1>9. FreeIds(sheetRows) # {} => NextId(sheetRows) \in SheetRows /\ sheetRows[NextId(sheetRows)] = Undrawn
  BY <1>2, <1>3, <1>4, <1>5, NextIdIsFree DEF FreeIds, StockTyped
<1> QED
  BY <1>6, <1>7, <1>8, <1>9

\* Rows are not undrawn, moved to another section or revived.
Retains(t, u) == \A i \in DOMAIN t : t[i] # Undrawn => u[i] # Undrawn /\ u[i].of = t[i].of /\ (u[i].live => t[i].live)

\* Columns and rows are those of sections that were drawn, and cells those of rows that were and of
\* columns that are; a request works on a report that was
\* filed, and a copy in progress has a section whose columns it knows.
Rooted ==
  /\ \A c \in Columns : columns[c] # Undrawn => sections[columns[c].of] # Undrawn
  /\ \A w \in SheetRows : sheetRows[w] # Undrawn => sections[sheetRows[w].of] # Undrawn
  /\ \A p \in DOMAIN cells : columns[p[2]].live /\ sheetRows[p[1]] # Undrawn

AuthorFits(d) ==
  /\ d.at \in {"countries", "update", "clear", "remove", "edit", "save", "save all", "copy"} => summaries[d.summary] # Missing
  /\ d.at = "copy" =>
       /\ d.to = 0 => d.from = NoSheet
       /\ d.to # 0 => d.from \in Sheets /\ sections[d.to] # Undrawn
       /\ \A c \in DOMAIN d.columnMap :
            c \in DOMAIN d.from.columns /\ columns[d.columnMap[c]] # Undrawn /\ columns[d.columnMap[c]].of = d.to

StockInv == StockTyped /\ CellsPlaced /\ ScopeKept /\ Rooted /\ \A k \in Authors : AuthorFits(author[k])

\* What the other requests are at stays possible, because no row is undrawn or moved.
LEMMA OthersFit ==
  ASSUME StockInv, NEW k \in Authors, NEW next \in AuthorKinds, Writes(k, next),
         \A r \in Summaries : summaries[r] # Missing => summaries'[r] # Missing,
         Retains(sections, sections'), Retains(columns, columns'), AuthorFits(next)'
  PROVE  /\ \A j \in Authors : AuthorFits(author[j])'
         /\ author' \in [Authors -> AuthorKinds] /\ author'[k] = next
         /\ \A j \in Authors \ {k} : author'[j] = author[j]
<1>1. author' = [author EXCEPT ![k] = next] /\ author \in [Authors -> AuthorKinds]
  BY DEF Writes, StockInv, StockTyped
<1>2. author' \in [Authors -> AuthorKinds] /\ author'[k] = next /\ \A j \in Authors \ {k} : author'[j] = author[j]
  BY <1>1
<1>3. ASSUME NEW j \in Authors, j # k PROVE AuthorFits(author[j])'
  <2>1. PICK d \in AuthorKinds : d = author[j]
    BY <1>1
  <2>2. AuthorFits(d) /\ d = author'[j]
    BY <1>2, <1>3, <2>1 DEF StockInv
  <2>3. d.at \in {"countries", "update", "clear", "remove", "edit", "save", "save all", "copy"} => d.summary \in Summaries
    BY KindsApart, Zenon DEF Lister, Updater, Editor, Copier
  <2>4. d.at = "copy" => /\ d.to \in Sections \union {0}
                         /\ \A c \in DOMAIN d.columnMap : d.columnMap[c] \in Columns
    <3> SUFFICES ASSUME d \in Copier
                 PROVE  d.to \in Sections \union {0} /\ \A c \in DOMAIN d.columnMap : d.columnMap[c] \in Columns
      BY KindsApart, Zenon
    <3>1. d.to \in Sections \union {0} /\ d.columnMap \in Maps(Columns, Columns)
      BY DEF Copier
    <3>2. PICK D \in SUBSET Columns : d.columnMap \in [D -> Columns]
      BY <3>1 DEF Maps
    <3> QED
      BY <3>1, <3>2
  <2>5. DOMAIN sections = Sections /\ DOMAIN columns = Columns
    BY DEF StockInv, StockTyped
  <2>6. AuthorFits(d)'
    BY <2>2, <2>3, <2>4, <2>5, Zenon DEF AuthorFits, Retains
  <2> QED
    BY <2>2, <2>6
<1> QED
  BY <1>2, <1>3

\* A request that writes no country keeps that every filed report has some or will have.
LEMMA ScopesStay ==
  ASSUME StockInv, NEW k \in Authors, NEW next, Writes(k, next), author[k].at # "countries",
         Filed' \subseteq Filed, UNCHANGED <<scopes, cutOff>>
  PROVE  ScopeKept'
<1>1. \A j \in Authors \ {k} : author'[j] = author[j]
  BY DEF Writes, StockInv, StockTyped
<1> QED
  BY <1>1 DEF StockInv, ScopeKept

\* Steps that write no section, column, row or cell.
LEMMA FilesOnly ==
  ASSUME StockInv, NEW k \in Authors, NEW next \in AuthorKinds, Writes(k, next),
         UNCHANGED <<sections, columns, sheetRows, cells, strays>>,
         summaries' \in [Summaries -> Summary \union {Missing}], scopes' \in [Summaries -> 0..MaxLists],
         \A r \in Summaries : summaries[r] # Missing => summaries'[r] # Missing,
         AuthorFits(next)', ScopeKept'
  PROVE  StockInv'
<1>1. Retains(sections, sections') /\ Retains(columns, columns')
  BY DEF Retains
<1>2. author' \in [Authors -> AuthorKinds] /\ \A j \in Authors : AuthorFits(author[j])'
  BY <1>1, OthersFit
<1>3. StockTyped'
  BY <1>2 DEF StockInv, StockTyped
<1>4. CellsPlaced' /\ Rooted'
  BY DEF StockInv, CellsPlaced, Rooted
<1> QED
  BY <1>2, <1>3, <1>4 DEF StockInv

\* Steps that change nothing but what the request is at.
LEMMA GoesOnly ==
  ASSUME StockInv, NEW k \in Authors, NEW next \in AuthorKinds, Writes(k, next), author[k].at # "countries",
         UNCHANGED <<summaries, sections, columns, sheetRows, cells, scopes, cutOff, strays>>, AuthorFits(next)
  PROVE  StockInv'
<1>1. Filed' = Filed
  BY DEF Filed
<1>2. ScopeKept'
  BY <1>1, ScopesStay
<1>3. AuthorFits(next)'
  BY Zenon DEF AuthorFits
<1> QED
  BY <1>2, <1>3, FilesOnly DEF StockInv, StockTyped

\* What findOne loads of a section: its columns, rows and the cells between them.
LEMMA LoadedIsSheet ==
  ASSUME StockInv, NEW s \in Sections, sections[s] # Undrawn PROVE Loaded(s) \in Sheets
<1> DEFINE sheet == [form |-> sections[s].form, columns |-> [c \in ColumnsOf(s) |-> columns[c].form],
                     rows |-> [w \in RowsOf(s) |-> sheetRows[w].form], cells |-> Restrict(cells, CellsOf(s))]
<1>1. sections[s].form \in Forms
  BY DEF StockInv, StockTyped, Section
<1>2. [c \in ColumnsOf(s) |-> columns[c].form] \in Maps(Columns, Forms)
  <2>1. \A c \in ColumnsOf(s) : c \in Columns /\ columns[c].form \in Forms
    BY KindsApart, Zenon DEF StockInv, StockTyped, SheetColumn, ColumnsOf
  <2> QED
    BY <2>1 DEF Maps
<1>3. [w \in RowsOf(s) |-> sheetRows[w].form] \in Maps(SheetRows, Forms)
  <2>1. \A w \in RowsOf(s) : w \in SheetRows /\ sheetRows[w].form \in Forms
    BY KindsApart, Zenon DEF StockInv, StockTyped, SheetRow, RowsOf
  <2> QED
    BY <2>1 DEF Maps
<1>4. Restrict(cells, CellsOf(s)) \in Maps(SheetRows \X Columns, Figures)
  <2>1. CellsOf(s) \subseteq SheetRows \X Columns /\ \A p \in CellsOf(s) : cells[p] \in Figures
    BY DEF StockInv, StockTyped, CellsOf
  <2> QED
    BY <2>1 DEF Restrict, Maps
<1>5. sheet \in Sheet
  BY <1>1, <1>2, <1>3, <1>4 DEF Sheet
<1>6. \A p \in CellsOf(s) : p[1] \in RowsOf(s) /\ p[2] \in ColumnsOf(s)
  BY DEF CellsOf
<1>7. DOMAIN sheet.cells = CellsOf(s) /\ DOMAIN sheet.rows = RowsOf(s) /\ DOMAIN sheet.columns = ColumnsOf(s)
  BY DEF Restrict
<1>8. sheet \in Sheets
  BY <1>5, <1>6, <1>7 DEF Sheets
<1> QED
  BY <1>8 DEF Loaded

\* A request about to copy sections of a report.
LEMMA CopyBegins ==
  ASSUME StockInv, NEW r \in Summaries, summaries[r] # Missing, NEW copied \in SUBSET Sections,
         \A s \in copied : sections[s] # Undrawn
  PROVE  Copying(r, copied) \in Copier /\ AuthorFits(Copying(r, copied)) /\ Copying(r, copied).to = 0
<1>1. [s \in copied |-> Loaded(s)] \in Maps(Sections, Sheets)
  <2>1. \A s \in copied : Loaded(s) \in Sheets
    BY LoadedIsSheet
  <2> QED
    BY <2>1 DEF Maps
<1>2. <<>> \in Maps(Columns, Columns) /\ <<>> \in Maps(SheetRows, SheetRows) /\ DOMAIN <<>> = {}
  <2>1. DOMAIN <<>> = {} /\ <<>> = [x \in {} |-> x]
    OBVIOUS
  <2>2. [x \in {} |-> x] \in [{} -> Columns] /\ [x \in {} |-> x] \in [{} -> SheetRows]
    OBVIOUS
  <2> QED
    BY <2>1, <2>2 DEF Maps
<1>3. PICK d : d = Copying(r, copied)
  OBVIOUS
<1>4. d.at = "copy" /\ d.summary = r /\ d.to = 0 /\ d.from = NoSheet /\ d.columnMap = <<>>
  BY <1>3 DEF Copying, NoSheet
<1>5. d \in Copier
  BY <1>1, <1>2, <1>3 DEF Copying, Copier, NoSheet
<1> QED
  BY <1>2, <1>3, <1>4, <1>5 DEF AuthorFits

\* A request that loads a report, or rests, holds what it may.
LEMMA Holds ==
  /\ Unbusy \in AuthorKinds /\ AuthorFits(Unbusy) /\ Unbusy.at = "idle"
  /\ \A r \in Summaries, at \in {"clear", "remove", "edit", "save", "save all"} :
       LET next == [at |-> at, summary |-> r]
       IN next \in AuthorKinds /\ (summaries[r] # Missing => AuthorFits(next))
<1>1. Unbusy \in AuthorKinds /\ AuthorFits(Unbusy) /\ Unbusy.at = "idle"
  BY DEF Unbusy, AuthorKinds, AuthorFits
<1>2. ASSUME NEW r \in Summaries, NEW at \in {"clear", "remove", "edit", "save", "save all"}
      PROVE  [at |-> at, summary |-> r] \in AuthorKinds /\ (summaries[r] # Missing => AuthorFits([at |-> at, summary |-> r]))
  <2>1. PICK next : next = [at |-> at, summary |-> r]
    OBVIOUS
  <2>2. next \in AuthorKinds
    BY <2>1, Zenon DEF AuthorKinds, Editor
  <2>3. summaries[r] # Missing => AuthorFits(next)
    BY <2>1, Zenon DEF AuthorFits
  <2> QED
    BY <2>1, <2>2, <2>3, Zenon
<1> QED
  BY <1>1, <1>2, Zenon

\* Drafts and sections of a report are rows.
LEMMA DraftsAreFiled ==
  ASSUME StockInv
  PROVE  /\ \A r \in Filed : r \in Summaries /\ summaries[r] # Missing /\ summaries[r] \in Summary /\ r # 0
         /\ Drafts \subseteq Filed
         /\ \A r : \A s \in SectionsOf(r) : s \in Sections /\ sections[s] # Undrawn /\ sections[s] \in Section /\ s # 0
<1>1. 0 \notin Summaries
  BY StockAssumption
<1> QED
  BY <1>1, KindsApart, Zenon DEF Filed, Drafts, SectionsOf, StockInv, StockTyped

\* Requests that begin by loading a report or looking for its month.
LEMMA TurningStep == ASSUME StockInv, NEW k \in Authors, Turning(k) PROVE StockInv'
<1>1. author[k] = Unbusy /\ author[k].at # "countries" /\ UNCHANGED <<summaries, sections, columns, sheetRows, cells, scopes, cutOff, strays>>
  BY Holds, Zenon DEF Turning, FindMonth, LoadSummary, LoadToPublish, LoadToRemove
<1>2. \E next \in AuthorKinds : Writes(k, next) /\ AuthorFits(next)
  <2>1. CASE FindMonth(k)
    <3>1. PICK month \in Months, source \in Filed \union {0} : Writes(k, [at |-> "insert", month |-> month, source |-> source])
      BY <2>1 DEF FindMonth
    <3>2. PICK next : next = [at |-> "insert", month |-> month, source |-> source]
      OBVIOUS
    <3>3. next \in AuthorKinds /\ AuthorFits(next)
      BY <3>2, DraftsAreFiled DEF AuthorKinds, Inserter, AuthorFits
    <3> QED
      BY <3>1, <3>2, <3>3
  <2>2. CASE LoadSummary(k) \/ LoadToPublish(k)
    <3>1. ASSUME NEW r \in Drafts, NEW month \in Months, NEW status \in {"Draft", "Published"},
                 NEW countries \in {"kept", "none", "given"}, NEW next,
                 next = [at |-> "update", summary |-> r, row |-> summaries[r],
                         month |-> month, status |-> status, countries |-> countries]
          PROVE  next \in AuthorKinds /\ AuthorFits(next)
      <4>1. r \in Summaries /\ summaries[r] \in Summary /\ summaries[r] # Missing
        BY DraftsAreFiled
      <4>2. next \in AuthorKinds
        BY <3>1, <4>1 DEF AuthorKinds, Updater
      <4>3. AuthorFits(next)
        BY <3>1, <4>1 DEF AuthorFits
      <4> QED
        BY <4>2, <4>3
    <3>2. CASE LoadSummary(k)
      <4>1. PICK r \in Drafts, month \in Months, status \in {"Draft", "Published"}, countries \in {"kept", "none", "given"} :
              Writes(k, [at |-> "update", summary |-> r, row |-> summaries[r],
                         month |-> month, status |-> status, countries |-> countries])
        BY <3>2 DEF LoadSummary
      <4> QED
        BY <3>1, <4>1
    <3>3. CASE LoadToPublish(k)
      <4>1. PICK r \in Drafts : Writes(k, [at |-> "update", summary |-> r, row |-> summaries[r],
              month |-> summaries[r].month, status |-> "Published", countries |-> "kept"])
        BY <3>3 DEF LoadToPublish
      <4>2. summaries[r].month \in Months
        BY DraftsAreFiled DEF Summary
      <4> QED
        BY <3>1, <4>1, <4>2
    <3> QED
      BY <2>2, <3>2, <3>3
  <2>3. CASE LoadToRemove(k)
    <3>1. PICK r \in Drafts : Writes(k, [at |-> "remove", summary |-> r])
      BY <2>3 DEF LoadToRemove
    <3> QED
      BY <3>1, DraftsAreFiled, Holds, Zenon
  <2> QED
    BY <2>1, <2>2, <2>3 DEF Turning
<1> QED
  BY <1>1, <1>2, GoesOnly

\* What a request at a stage of its work has.
LEMMA AtWork ==
  ASSUME StockInv, NEW k \in Authors
  PROVE  /\ author[k] \in AuthorKinds /\ AuthorFits(author[k])
         /\ author[k].at \in {"clear", "remove", "edit", "save", "save all"} =>
              author[k] \in Editor /\ author[k].summary \in Summaries /\ summaries[author[k].summary] # Missing
         /\ author[k].at = "countries" =>
              /\ author[k] \in Lister /\ author[k].summary \in Summaries
              /\ summaries[author[k].summary] # Missing /\ author[k].source \in Summaries \union {0}
         /\ author[k].at = "update" =>
              author[k] \in Updater /\ author[k].summary \in Summaries /\ summaries[author[k].summary] # Missing
         /\ author[k].at = "insert" =>
              author[k] \in Inserter /\ author[k].month \in Months /\ author[k].source \in Summaries \union {0}
         /\ author[k].at = "copy" =>
              /\ author[k] \in Copier /\ author[k].summary \in Summaries /\ summaries[author[k].summary] # Missing
              /\ author[k].to \in Sections \union {0}
<1>1. author[k] \in AuthorKinds /\ AuthorFits(author[k])
  BY DEF StockInv, StockTyped
<1> QED
  BY <1>1, KindsApart, Zenon DEF AuthorFits, Copier, Inserter, Lister, Updater, Editor

\* Asking whether the report is a draft, beginning and ending a copy.
LEMMA AskingStep ==
  ASSUME StockInv, NEW k \in Authors, AssertEditable(k) \/ Duplicate(k) \/ EndCopy(k) PROVE StockInv'
<1>1. author[k].at # "countries" /\ UNCHANGED <<summaries, sections, columns, sheetRows, cells, scopes, cutOff, strays>>
  BY Holds, Zenon DEF AssertEditable, Duplicate, Editing, EndCopy, SectionCopied
<1>2. \E next \in AuthorKinds : Writes(k, next) /\ AuthorFits(next)
  <2>1. CASE Rests(k)
    BY <2>1, Holds, Zenon DEF Rests
  <2>2. CASE AssertEditable(k) /\ ~Rests(k)
    <3>1. CASE \E r \in Drafts : Writes(k, [at |-> "edit", summary |-> r])
      BY <3>1, DraftsAreFiled, Holds, Zenon
    <3>2. CASE author[k].at = "save all" /\ Writes(k, [author[k] EXCEPT !.at = "save"])
      <4>1. PICK d \in Editor : d = author[k] /\ d.summary \in Summaries /\ summaries[d.summary] # Missing
        BY <3>2, AtWork, Zenon
      <4>2. PICK e : e = [d EXCEPT !.at = "save"]
        OBVIOUS
      <4>3. e \in Editor /\ e.at = "save" /\ e.summary = d.summary
        BY <4>2, Zenon DEF Editor
      <4>4. e \in AuthorKinds /\ AuthorFits(e)
        BY <4>1, <4>3 DEF AuthorKinds, AuthorFits
      <4> QED
        BY <3>2, <4>1, <4>2, <4>4, Zenon
    <3> QED
      BY <2>2, <3>1, <3>2, Zenon DEF AssertEditable
  <2>3. CASE Duplicate(k)
    <3>1. PICK s \in Edited(k) : Writes(k, Copying(author[k].summary, {s}))
      BY <2>3 DEF Duplicate
    <3>2. author[k].summary \in Summaries /\ summaries[author[k].summary] # Missing
      BY <2>3, AtWork, Zenon DEF Duplicate, Editing
    <3>3. {s} \in SUBSET Sections /\ sections[s] # Undrawn
      BY <3>1, DraftsAreFiled DEF Edited
    <3>4. Copying(author[k].summary, {s}) \in Copier /\ AuthorFits(Copying(author[k].summary, {s}))
      BY <3>2, <3>3, CopyBegins
    <3> QED
      BY <3>1, <3>4 DEF AuthorKinds
  <2> QED
    BY <2>1, <2>2, <2>3 DEF EndCopy
<1> QED
  BY <1>1, <1>2, GoesOnly

\* A request that stops before it wrote the countries leaves a report that is cut off.
LEMMA GiveUpStep == ASSUME StockInv, NEW k \in Authors, GiveUp(k) PROVE StockInv'
<1>1. Writes(k, Unbusy) /\ UNCHANGED <<summaries, sections, columns, sheetRows, cells, scopes, strays>>
  BY DEF GiveUp, Rests
<1>2. cutOff' = IF author[k].at = "countries" THEN cutOff \union {author[k].summary} ELSE cutOff
  BY DEF GiveUp
<1>3. Filed' = Filed /\ \A j \in Authors \ {k} : author'[j] = author[j]
  BY <1>1 DEF Filed, Writes, StockInv, StockTyped
<1>4. ScopeKept'
  BY <1>1, <1>2, <1>3 DEF StockInv, ScopeKept
<1>5. AuthorFits(Unbusy)'
  BY Holds, Zenon DEF AuthorFits
<1> QED
  BY <1>1, <1>4, <1>5, Holds, FilesOnly, Zenon DEF StockInv, StockTyped

\* A new report, which has no country yet and whose request is about to write them.
LEMMA InsertSummaryStep == ASSUME StockInv, NEW k \in Authors, InsertSummary(k) PROVE StockInv'
<1>1. author[k].at = "insert" /\ UNCHANGED <<sections, columns, sheetRows, cells, scopes, cutOff, strays>>
  BY DEF InsertSummary
<1>2. CASE Rests(k) /\ UNCHANGED summaries
  BY <1>1, <1>2, Holds, GoesOnly, Zenon DEF Rests
<1>3. CASE ~(Rests(k) /\ UNCHANGED summaries)
  <2> DEFINE new == NextId(summaries)
  <2>1. PICK status \in {"Draft", "Published"} :
          summaries' = [summaries EXCEPT ![new] = [status |-> status, month |-> author[k].month, live |-> TRUE]]
    BY <1>3 DEF InsertSummary
  <2>2. PICK next : next = [at |-> "countries", summary |-> new, source |-> author[k].source]
    OBVIOUS
  <2>3. Writes(k, next) /\ new \in Summaries /\ summaries[new] = Missing
    BY <1>3, <2>2, FreeIsNew DEF InsertSummary, StockInv
  <2> HIDE DEF new
  <2>4. author[k].month \in Months /\ author[k].source \in Summaries \union {0}
    BY <1>1, AtWork, Zenon
  <2>5. PICK row : row = [status |-> status, month |-> author[k].month, live |-> TRUE]
    OBVIOUS
  <2>6. row \in Summary
    BY <2>4, <2>5 DEF Summary
  <2>7. row # Missing
    BY <2>6, KindsApart, Zenon
  <2>8. summaries' \in [Summaries -> Summary \union {Missing}] /\ summaries'[new] = row
        /\ \A r \in Summaries \ {new} : summaries'[r] = summaries[r]
    BY <2>1, <2>3, <2>5, <2>6 DEF StockInv, StockTyped
  <2>9. next \in AuthorKinds /\ next.at = "countries" /\ next.summary = new
    BY <2>2, <2>3, <2>4 DEF AuthorKinds, Lister
  <2>10. AuthorFits(next)'
    BY <2>7, <2>8, <2>9 DEF AuthorFits
  <2>11. author'[k] = next /\ \A j \in Authors \ {k} : author'[j] = author[j]
    BY <2>3 DEF Writes, StockInv, StockTyped
  <2>12. Filed' \subseteq Filed \union {new}
    BY <2>8 DEF Filed
  <2>13. ScopeKept'
    BY <1>1, <2>9, <2>11, <2>12 DEF StockInv, ScopeKept
  <2> QED
    BY <1>1, <2>3, <2>7, <2>8, <2>9, <2>10, <2>13, FilesOnly DEF StockInv, StockTyped
<1> QED
  BY <1>2, <1>3

\* The countries of a report.
LEMMA InsertCountriesStep == ASSUME StockInv, NEW k \in Authors, InsertCountries(k) PROVE StockInv'
<1> DEFINE r == author[k].summary
           source == author[k].source
           copied == IF source \in Filed THEN SectionsOf(source) ELSE {}
<1>1. author[k].at = "countries" /\ scopes[r] < MaxLists /\ scopes' = [scopes EXCEPT ![r] = @ + 1]
      /\ (IF copied = {} THEN Rests(k) ELSE Writes(k, Copying(r, copied)))
      /\ UNCHANGED <<summaries, sections, columns, sheetRows, cells, cutOff, strays>>
  BY DEF InsertCountries
<1>2. r \in Summaries /\ summaries[r] # Missing
  BY <1>1, AtWork, Zenon
<1>3. copied \in SUBSET Sections /\ \A s \in copied : sections[s] # Undrawn
  BY DraftsAreFiled
<1> HIDE DEF r, source, copied
<1>4. PICK next \in AuthorKinds : Writes(k, next) /\ AuthorFits(next)
  <2>1. CASE copied = {}
    BY <1>1, <2>1, Holds, Zenon DEF Rests
  <2>2. CASE copied # {}
    <3>1. Copying(r, copied) \in Copier /\ AuthorFits(Copying(r, copied))
      BY <1>2, <1>3, CopyBegins
    <3> QED
      BY <1>1, <2>2, <3>1 DEF AuthorKinds
  <2> QED
    BY <2>1, <2>2
<1>5. AuthorFits(next)'
  BY <1>1, <1>4, Zenon DEF AuthorFits
<1>6. scopes' \in [Summaries -> 0..MaxLists] /\ scopes'[r] # 0 /\ \A q \in Summaries \ {r} : scopes'[q] = scopes[q]
  BY <1>1, <1>2, StockAssumption DEF StockInv, StockTyped
<1>7. Filed' = Filed /\ \A j \in Authors \ {k} : author'[j] = author[j]
  BY <1>1, <1>4 DEF Filed, Writes, StockInv, StockTyped
<1>8. ScopeKept'
  BY <1>1, <1>6, <1>7, DraftsAreFiled DEF StockInv, ScopeKept, r
<1> QED
  BY <1>1, <1>4, <1>5, <1>6, <1>8, FilesOnly DEF StockInv, StockTyped

\* What a request saves of a report keeps it where it is stored, and deleted when it is.
LEMMA SummarySaved ==
  ASSUME StockInv, NEW k \in Authors, SaveSummary(k)
  PROVE  /\ author[k].at = "update" /\ UNCHANGED <<sections, columns, sheetRows, cells, scopes, cutOff, strays>>
         /\ \/ Rests(k) /\ UNCHANGED summaries
            \/ \E r \in Summaries, saved \in Summary :
                 /\ r = author[k].summary /\ summaries[r] # Missing /\ saved.live = summaries[r].live
                 /\ summaries' = [summaries EXCEPT ![r] = saved]
                 /\ Rests(k) \/ Writes(k, [at |-> "clear", summary |-> r])
<1>1. author[k].at = "update" /\ UNCHANGED <<sections, columns, sheetRows, cells, scopes, cutOff, strays>>
  BY DEF SaveSummary
<1>2. PICK d \in Updater : d = author[k] /\ d.summary \in Summaries /\ summaries[d.summary] # Missing
  BY <1>1, AtWork, Zenon
<1>3. PICK stored \in Summary : stored = summaries[d.summary]
  BY <1>2 DEF StockInv, StockTyped
<1>4. PICK month : month = IF d.month = d.row.month THEN stored.month ELSE d.month
  OBVIOUS
<1>5. PICK status : status = IF d.status = d.row.status THEN stored.status ELSE d.status
  OBVIOUS
<1>6. month \in Months /\ status \in {"Draft", "Published"}
  BY <1>4, <1>5 DEF Updater, Summary
<1>7. PICK saved : saved = [stored EXCEPT !.month = month, !.status = status]
  OBVIOUS
<1>8. saved \in Summary
  BY <1>6, <1>7 DEF Summary
<1>9. saved.live = stored.live
  BY <1>7 DEF Summary
<1>10. (Rests(k) /\ UNCHANGED summaries)
       \/ (/\ summaries' = [summaries EXCEPT ![d.summary] = saved]
           /\ Rests(k) \/ Writes(k, [at |-> "clear", summary |-> d.summary]))
  BY <1>2, <1>3, <1>4, <1>5, <1>7 DEF SaveSummary
<1> QED
  BY <1>1, <1>2, <1>3, <1>8, <1>9, <1>10

\* The report stays typed and filed as it was.
LEMMA SaveSummaryStep == ASSUME StockInv, NEW k \in Authors, SaveSummary(k) PROVE StockInv'
<1>1. author[k].at = "update" /\ UNCHANGED <<sections, columns, sheetRows, cells, scopes, cutOff, strays>>
  BY SummarySaved
<1>2. CASE Rests(k) /\ UNCHANGED summaries
  BY <1>1, <1>2, Holds, GoesOnly, Zenon DEF Rests
<1>3. CASE ~(Rests(k) /\ UNCHANGED summaries)
  <2>1. PICK r \in Summaries, saved \in Summary :
                 /\ r = author[k].summary /\ summaries[r] # Missing /\ saved.live = summaries[r].live
                 /\ summaries' = [summaries EXCEPT ![r] = saved]
                 /\ Rests(k) \/ Writes(k, [at |-> "clear", summary |-> r])
    BY <1>3, SummarySaved
  <2>2. summaries' \in [Summaries -> Summary \union {Missing}] /\ summaries'[r] = saved
        /\ \A q \in Summaries \ {r} : summaries'[q] = summaries[q]
    BY <2>1 DEF StockInv, StockTyped
  <2>3. saved # Missing
    BY KindsApart, Zenon
  <2>4. Filed' \subseteq Filed
    BY <2>1, <2>2 DEF Filed
  <2>5. PICK next \in AuthorKinds : Writes(k, next) /\ AuthorFits(next)
    BY <2>1, Holds, Zenon DEF Rests
  <2>6. \A q \in Summaries : summaries[q] # Missing => summaries'[q] # Missing
    BY <2>2, <2>3
  <2>7. AuthorFits(next)'
    <3>1. CASE Writes(k, Unbusy)
      <4>1. next = Unbusy
        BY <2>5, <3>1 DEF Writes, StockInv, StockTyped
      <4> QED
        BY <4>1, Holds, Zenon DEF AuthorFits
    <3>2. CASE Writes(k, [at |-> "clear", summary |-> r])
      <4>1. next = [at |-> "clear", summary |-> r]
        BY <2>5, <3>2 DEF Writes, StockInv, StockTyped
      <4>2. next.at = "clear" /\ next.summary = r
        BY <4>1
      <4> QED
        BY <2>1, <2>6, <4>2 DEF AuthorFits
    <3> QED
      BY <2>1, <3>1, <3>2 DEF Rests
  <2>8. ScopeKept'
    BY <1>1, <2>4, <2>5, ScopesStay
  <2> QED
    BY <1>1, <2>2, <2>5, <2>6, <2>7, <2>8, FilesOnly DEF StockInv, StockTyped
<1> QED
  BY <1>2, <1>3

\* The countries are removed to be written again.
LEMMA ClearCountriesStep == ASSUME StockInv, NEW k \in Authors, ClearCountries(k) PROVE StockInv'
<1>1. author[k].at = "clear" /\ scopes' = [scopes EXCEPT ![author[k].summary] = 0]
      /\ UNCHANGED <<summaries, sections, columns, sheetRows, cells, cutOff, strays>>
  BY DEF ClearCountries
<1>2. PICK r \in Summaries : r = author[k].summary /\ summaries[r] # Missing
  BY <1>1, AtWork, Zenon
<1>3. PICK next : next = [at |-> "countries", summary |-> r, source |-> 0]
  OBVIOUS
<1>4. Writes(k, next)
  BY <1>2, <1>3 DEF ClearCountries
<1>5. next \in AuthorKinds /\ next.at = "countries" /\ next.summary = r
  BY <1>3 DEF AuthorKinds, Lister
<1>6. AuthorFits(next)'
  BY <1>1, <1>2, <1>5 DEF AuthorFits
<1>7. scopes' \in [Summaries -> 0..MaxLists] /\ \A q \in Summaries \ {r} : scopes'[q] = scopes[q]
  BY <1>1, <1>2, StockAssumption DEF StockInv, StockTyped
<1>8. Filed' = Filed /\ author'[k] = next /\ \A j \in Authors \ {k} : author'[j] = author[j]
  BY <1>1, <1>4 DEF Filed, Writes, StockInv, StockTyped
<1>9. ScopeKept'
  BY <1>1, <1>5, <1>7, <1>8, DraftsAreFiled DEF StockInv, ScopeKept
<1> QED
  BY <1>1, <1>4, <1>5, <1>6, <1>7, <1>9, FilesOnly DEF StockInv, StockTyped

\* A report is marked as deleted.
LEMMA RemoveSummaryStep == ASSUME StockInv, NEW k \in Authors, RemoveSummary(k) PROVE StockInv'
<1>1. author[k].at = "remove" /\ Writes(k, Unbusy) /\ UNCHANGED <<sections, columns, sheetRows, cells, scopes, cutOff, strays>>
  BY DEF RemoveSummary, Rests
<1>2. PICK r \in Summaries : r = author[k].summary /\ summaries[r] # Missing
  BY <1>1, AtWork, Zenon
<1>3. PICK stored \in Summary : stored = summaries[r]
  BY <1>2 DEF StockInv, StockTyped
<1>4. PICK gone : gone = [stored EXCEPT !.live = FALSE]
  OBVIOUS
<1>5. gone \in Summary /\ gone # Missing
  BY <1>4, KindsApart DEF Summary
<1>6. ~gone.live
  BY <1>4 DEF Summary
<1>7. summaries' = [summaries EXCEPT ![r] = gone]
  BY <1>2, <1>3, <1>4 DEF RemoveSummary, StockInv, StockTyped
<1>8. summaries' \in [Summaries -> Summary \union {Missing}] /\ summaries'[r] = gone
      /\ \A q \in Summaries \ {r} : summaries'[q] = summaries[q]
  BY <1>5, <1>7 DEF StockInv, StockTyped
<1>9. Filed' \subseteq Filed
  BY <1>6, <1>8 DEF Filed
<1>10. ScopeKept'
  BY <1>1, <1>9, ScopesStay
<1>11. AuthorFits(Unbusy)'
  BY Holds DEF AuthorFits
<1> QED
  BY <1>1, <1>5, <1>8, <1>10, <1>11, Holds, FilesOnly DEF StockInv, StockTyped

\* A section, column or row drawn, or changed where it is: the others of its table stay.
LEMMA DrawSection ==
  ASSUME StockTyped, NEW i \in Sections, NEW row \in Section, sections' = [sections EXCEPT ![i] = row],
         sections[i] # Undrawn => row.of = sections[i].of /\ (row.live => sections[i].live)
  PROVE  /\ sections' \in [Sections -> Section \union {Undrawn}] /\ Retains(sections, sections')
         /\ sections'[i] = row /\ sections'[i] # Undrawn /\ \A j \in Sections \ {i} : sections'[j] = sections[j]
<1>1. sections \in [Sections -> Section \union {Undrawn}] /\ row # Undrawn
  BY KindsApart DEF StockTyped
<1>2. sections' \in [Sections -> Section \union {Undrawn}] /\ sections'[i] = row /\ \A j \in Sections \ {i} : sections'[j] = sections[j]
  BY <1>1
<1>3. Retains(sections, sections')
  BY <1>1, <1>2 DEF Retains
<1> QED
  BY <1>1, <1>2, <1>3

\* Of columns.
LEMMA DrawColumn ==
  ASSUME StockTyped, NEW i \in Columns, NEW row \in SheetColumn, columns' = [columns EXCEPT ![i] = row],
         columns[i] # Undrawn => row.of = columns[i].of /\ (row.live => columns[i].live)
  PROVE  /\ columns' \in [Columns -> SheetColumn \union {Undrawn}] /\ Retains(columns, columns')
         /\ columns'[i] = row /\ columns'[i] # Undrawn /\ \A j \in Columns \ {i} : columns'[j] = columns[j]
<1>1. columns \in [Columns -> SheetColumn \union {Undrawn}] /\ row # Undrawn
  BY KindsApart DEF StockTyped
<1>2. columns' \in [Columns -> SheetColumn \union {Undrawn}] /\ columns'[i] = row /\ \A j \in Columns \ {i} : columns'[j] = columns[j]
  BY <1>1
<1>3. Retains(columns, columns')
  BY <1>1, <1>2 DEF Retains
<1> QED
  BY <1>1, <1>2, <1>3

\* Of rows.
LEMMA DrawRow ==
  ASSUME StockTyped, NEW i \in SheetRows, NEW row \in SheetRow, sheetRows' = [sheetRows EXCEPT ![i] = row],
         sheetRows[i] # Undrawn => row.of = sheetRows[i].of /\ (row.live => sheetRows[i].live)
  PROVE  /\ sheetRows' \in [SheetRows -> SheetRow \union {Undrawn}] /\ Retains(sheetRows, sheetRows')
         /\ sheetRows'[i] = row /\ sheetRows'[i] # Undrawn /\ \A j \in SheetRows \ {i} : sheetRows'[j] = sheetRows[j]
<1>1. sheetRows \in [SheetRows -> SheetRow \union {Undrawn}] /\ row # Undrawn
  BY KindsApart DEF StockTyped
<1>2. sheetRows' \in [SheetRows -> SheetRow \union {Undrawn}] /\ sheetRows'[i] = row /\ \A j \in SheetRows \ {i} : sheetRows'[j] = sheetRows[j]
  BY <1>1
<1>3. Retains(sheetRows, sheetRows')
  BY <1>1, <1>2 DEF Retains
<1> QED
  BY <1>1, <1>2, <1>3

\* A table that stays.
LEMMA NothingDrawn == ASSUME NEW t PROVE Retains(t, t)
BY DEF Retains

\* Steps that write sections, columns, rows or cells.
LEMMA DrawsOnly ==
  ASSUME StockInv, NEW k \in Authors, NEW next \in AuthorKinds, Writes(k, next), author[k].at # "countries",
         UNCHANGED <<summaries, scopes, cutOff>>, strays \subseteq strays',
         sections' \in [Sections -> Section \union {Undrawn}], Retains(sections, sections'),
         columns' \in [Columns -> SheetColumn \union {Undrawn}], Retains(columns, columns'),
         sheetRows' \in [SheetRows -> SheetRow \union {Undrawn}], Retains(sheetRows, sheetRows'),
         \A c \in Columns : columns[c] # Undrawn \/ (columns'[c] # Undrawn => sections'[columns'[c].of] # Undrawn),
         \A w \in SheetRows : sheetRows[w] # Undrawn \/ (sheetRows'[w] # Undrawn => sections'[sheetRows'[w].of] # Undrawn),
         DOMAIN cells' \subseteq SheetRows \X Columns,
         \A p \in DOMAIN cells' :
            /\ cells'[p] \in Figures /\ columns'[p[2]].live
            /\ p \in DOMAIN cells \/ sheetRows'[p[1]] # Undrawn
            /\ p \in (DOMAIN cells) \union strays' \/ columns'[p[2]].of = sheetRows'[p[1]].of,
         AuthorFits(next)'
  PROVE  StockInv'
<1>1. author' \in [Authors -> AuthorKinds] /\ \A j \in Authors : AuthorFits(author[j])'
  BY OthersFit
<1>2. StockTyped'
  BY <1>1 DEF StockInv, StockTyped
<1>3. Filed' = Filed
  BY DEF Filed
<1>4. ScopeKept'
  BY <1>3, ScopesStay
<1>5. \A c \in Columns : columns[c] # Undrawn => columns[c].of \in Sections
  BY DEF StockInv, StockTyped, SheetColumn
<1>6. \A w \in SheetRows : sheetRows[w] # Undrawn => sheetRows[w].of \in Sections
  BY DEF StockInv, StockTyped, SheetRow
<1>7. DOMAIN sections = Sections /\ DOMAIN columns = Columns /\ DOMAIN sheetRows = SheetRows
  BY DEF StockInv, StockTyped
<1>8. Rooted'
  <2>1. \A p \in DOMAIN cells' : columns'[p[2]].live /\ sheetRows'[p[1]] # Undrawn
    <3> SUFFICES ASSUME NEW p \in DOMAIN cells', p \in DOMAIN cells PROVE sheetRows'[p[1]] # Undrawn
      OBVIOUS
    <3>1. p[1] \in SheetRows /\ sheetRows[p[1]] # Undrawn
      BY DEF StockInv, Rooted
    <3> QED
      BY <1>7, <3>1 DEF Retains
  <2>2. \A c \in Columns : columns'[c] # Undrawn => sections'[columns'[c].of] # Undrawn
    BY <1>5, <1>7 DEF StockInv, Rooted, Retains
  <2>3. \A w \in SheetRows : sheetRows'[w] # Undrawn => sections'[sheetRows'[w].of] # Undrawn
    BY <1>6, <1>7 DEF StockInv, Rooted, Retains
  <2> QED
    BY <2>1, <2>2, <2>3 DEF Rooted
<1>9. CellsPlaced'
  <2> SUFFICES ASSUME NEW p \in (DOMAIN cells') \ strays' PROVE columns'[p[2]].live /\ columns'[p[2]].of = sheetRows'[p[1]].of
    BY DEF CellsPlaced
  <2>1. p[1] \in SheetRows /\ p[2] \in Columns
    OBVIOUS
  <2>2. CASE p \in DOMAIN cells
    <3>1. columns[p[2]].live /\ columns[p[2]].of = sheetRows[p[1]].of
      BY <2>2 DEF StockInv, CellsPlaced
    <3>2. columns[p[2]] # Undrawn
      BY <3>1, KindsApart
    <3>3. columns[p[2]].of \in Sections
      BY <1>5, <2>1, <3>2
    <3>4. sheetRows[p[1]] # Undrawn
      BY <3>1, <3>3, KindsApart
    <3> QED
      BY <1>7, <2>1, <3>1, <3>2, <3>4 DEF Retains
  <2> QED
    BY <2>2
<1> QED
  BY <1>1, <1>2, <1>4, <1>8, <1>9 DEF StockInv

\* Steps that draw one row or none in a table and no cell, and delete no column.
LEMMA DrawsRows ==
  ASSUME StockInv, NEW k \in Authors, NEW next \in AuthorKinds, Writes(k, next), author[k].at # "countries",
         UNCHANGED <<summaries, scopes, cutOff, strays, cells>>,
         sections' \in [Sections -> Section \union {Undrawn}], Retains(sections, sections'),
         columns' \in [Columns -> SheetColumn \union {Undrawn}], Retains(columns, columns'),
         sheetRows' \in [SheetRows -> SheetRow \union {Undrawn}], Retains(sheetRows, sheetRows'),
         \A c \in Columns : columns[c] # Undrawn \/ (columns'[c] # Undrawn => sections'[columns'[c].of] # Undrawn),
         \A w \in SheetRows : sheetRows[w] # Undrawn \/ (sheetRows'[w] # Undrawn => sections'[sheetRows'[w].of] # Undrawn),
         \A c \in Columns : columns[c].live => columns'[c].live,
         AuthorFits(next)'
  PROVE  StockInv'
<1>1. DOMAIN cells' \subseteq SheetRows \X Columns
  BY DEF StockInv, StockTyped
<1>2. \A p \in DOMAIN cells' :
        /\ cells'[p] \in Figures /\ columns'[p[2]].live
        /\ p \in DOMAIN cells
  <2> SUFFICES ASSUME NEW p \in DOMAIN cells PROVE cells[p] \in Figures /\ columns'[p[2]].live
    OBVIOUS
  <2>1. p[2] \in Columns /\ cells[p] \in Figures
    BY DEF StockInv, StockTyped
  <2>2. columns[p[2]].live
    BY DEF StockInv, Rooted
  <2> QED
    BY <2>1, <2>2
<1> QED
  BY <1>1, <1>2, DrawsOnly

\* Sections are added, with a column of their own, and changed.
LEMMA SectionsStep ==
  ASSUME StockInv, NEW k \in Authors, AddSection(k) \/ ChangeSection(k) PROVE StockInv'
<1>1. author[k].at = "edit" /\ Writes(k, Unbusy) /\ UNCHANGED <<summaries, sheetRows, cells, scopes, cutOff, strays>>
  BY DEF AddSection, ChangeSection, Editing, Rests
<1>2. Unbusy \in AuthorKinds /\ AuthorFits(Unbusy)'
  BY Holds DEF AuthorFits
<1>3. sections \in [Sections -> Section \union {Undrawn}] /\ columns \in [Columns -> SheetColumn \union {Undrawn}]
      /\ sheetRows \in [SheetRows -> SheetRow \union {Undrawn}] /\ Retains(sheetRows, sheetRows')
  BY <1>1, NothingDrawn DEF StockInv, StockTyped
<1>4. CASE AddSection(k)
  <2> DEFINE s == NextId(sections)
             c == NextId(columns)
  <2>1. PICK form \in Forms :
          /\ sections' = [sections EXCEPT ![s] = [of |-> author[k].summary, form |-> form, live |-> TRUE]]
          /\ columns' = [columns EXCEPT ![c] = [of |-> s, form |-> form, live |-> TRUE]]
    BY <1>4 DEF AddSection
  <2>2. s \in Sections /\ sections[s] = Undrawn /\ c \in Columns /\ columns[c] = Undrawn
    BY <1>4, FreeIsNew DEF AddSection, StockInv
  <2> HIDE DEF s, c
  <2>3. author[k].summary \in Summaries
    BY <1>1, AtWork
  <2>4. PICK row \in Section : row = [of |-> author[k].summary, form |-> form, live |-> TRUE]
    BY <2>3 DEF Section
  <2>5. PICK col \in SheetColumn : col = [of |-> s, form |-> form, live |-> TRUE]
    BY <2>2 DEF SheetColumn
  <2>6. col.of = s
    BY <2>5
  <2>7. /\ sections' \in [Sections -> Section \union {Undrawn}] /\ Retains(sections, sections')
        /\ sections'[s] # Undrawn /\ (\A t \in Sections \ {s} : sections'[t] = sections[t]) /\ sections'[s] = row
    BY <1>3, <2>1, <2>2, <2>4, DrawSection DEF StockInv
  <2>8. /\ columns' \in [Columns -> SheetColumn \union {Undrawn}] /\ Retains(columns, columns')
        /\ columns'[c] = col /\ \A d \in Columns \ {c} : columns'[d] = columns[d]
    BY <1>3, <2>1, <2>2, <2>5, DrawColumn DEF StockInv
  <2>9. \A d \in Columns : columns[d] # Undrawn \/ (columns'[d] # Undrawn => sections'[columns'[d].of] # Undrawn)
    BY <2>6, <2>7, <2>8
  <2>10. \A d \in Columns : columns[d].live => columns'[d].live
    BY <2>2, <2>8, KindsApart
  <2> QED
    BY <1>1, <1>2, <1>3, <2>7, <2>8, <2>9, <2>10, DrawsRows
<1>5. CASE ChangeSection(k)
  <2>1. PICK s \in Edited(k) : \/ \E form \in Forms : sections' = [sections EXCEPT ![s].form = form]
                               \/ sections' = [sections EXCEPT ![s].live = FALSE]
    BY <1>5 DEF ChangeSection
  <2>2. s \in Sections /\ sections[s] # Undrawn
    BY DraftsAreFiled DEF Edited
  <2>3. PICK old \in Section : old = sections[s]
    BY <1>3, <2>2
  <2>4. \E row \in Section : row.of = old.of /\ (row.live => old.live) /\ sections' = [sections EXCEPT ![s] = row]
    <3>1. CASE \E form \in Forms : sections' = [sections EXCEPT ![s].form = form]
      <4>1. PICK form \in Forms : sections' = [sections EXCEPT ![s].form = form]
        BY <3>1
      <4>2. PICK row : row = [old EXCEPT !.form = form]
        OBVIOUS
      <4>3. row \in Section /\ row.of = old.of
        BY <4>2 DEF Section
      <4>4. row.live = old.live
        BY <4>2 DEF Section
      <4> QED
        BY <1>3, <2>2, <2>3, <4>1, <4>2, <4>3, <4>4
    <3>2. CASE sections' = [sections EXCEPT ![s].live = FALSE]
      <4>2. PICK row : row = [old EXCEPT !.live = FALSE]
        OBVIOUS
      <4>3. row \in Section /\ row.of = old.of
        BY <4>2 DEF Section
      <4>4. ~row.live
        BY <4>2 DEF Section
      <4> QED
        BY <1>3, <2>2, <2>3, <3>2, <4>2, <4>3, <4>4
    <3> QED
      BY <2>1, <3>1, <3>2
  <2>5. PICK row \in Section : row.of = old.of /\ (row.live => old.live) /\ sections' = [sections EXCEPT ![s] = row]
    BY <2>4
  <2>6. /\ sections' \in [Sections -> Section \union {Undrawn}] /\ Retains(sections, sections')
        /\ sections'[s] = row /\ \A t \in Sections \ {s} : sections'[t] = sections[t]
    BY <1>3, <2>2, <2>3, <2>5, DrawSection DEF StockInv
  <2>7. columns' = columns
    BY <1>5 DEF ChangeSection
  <2> QED
    BY <1>1, <1>2, <1>3, <2>6, <2>7, DrawsRows, NothingDrawn
<1> QED
  BY <1>4, <1>5

\* Columns are added and changed; a column goes with its cells.
LEMMA ColumnsStep ==
  ASSUME StockInv, NEW k \in Authors, AddColumn(k) \/ ChangeColumn(k) PROVE StockInv'
<1>1. author[k].at = "edit" /\ Writes(k, Unbusy) /\ UNCHANGED <<summaries, sections, sheetRows, scopes, cutOff, strays>>
  BY DEF AddColumn, ChangeColumn, Editing, Rests
<1>2. Unbusy \in AuthorKinds /\ AuthorFits(Unbusy)'
  BY Holds DEF AuthorFits
<1>3. /\ StockTyped /\ sections' \in [Sections -> Section \union {Undrawn}] /\ Retains(sections, sections')
      /\ sheetRows' \in [SheetRows -> SheetRow \union {Undrawn}] /\ Retains(sheetRows, sheetRows')
      /\ columns \in [Columns -> SheetColumn \union {Undrawn}]
  BY <1>1, NothingDrawn DEF StockInv, StockTyped
<1>4. CASE AddColumn(k)
  <2> DEFINE c == NextId(columns)
  <2>1. PICK s \in Sections, form \in Forms : sections[s] # Undrawn /\ columns' = [columns EXCEPT ![c] = [of |-> s, form |-> form, live |-> TRUE]]
    BY <1>4 DEF AddColumn
  <2>2. c \in Columns /\ columns[c] = Undrawn /\ s \in Sections /\ sections[s] # Undrawn
    BY <1>3, <1>4, <2>1, FreeIsNew DEF AddColumn
  <2> HIDE DEF c
  <2>3. PICK col \in SheetColumn : col = [of |-> s, form |-> form, live |-> TRUE]
    BY <2>2 DEF SheetColumn
  <2>4. /\ columns' \in [Columns -> SheetColumn \union {Undrawn}] /\ Retains(columns, columns')
        /\ columns'[c] = col /\ \A d \in Columns \ {c} : columns'[d] = columns[d]
    BY <1>3, <2>1, <2>2, <2>3, DrawColumn
  <2>5. \A d \in Columns : columns[d] # Undrawn \/ (columns'[d] # Undrawn => sections'[columns'[d].of] # Undrawn)
    BY <1>1, <2>2, <2>3, <2>4
  <2>6. \A d \in Columns : columns[d].live => columns'[d].live
    BY <2>2, <2>4, KindsApart
  <2>7. UNCHANGED cells
    BY <1>4 DEF AddColumn
  <2> QED
    BY <1>1, <1>2, <1>3, <2>4, <2>5, <2>6, <2>7, DrawsRows
<1>5. CASE ChangeColumn(k)
  <2>1. PICK s \in Sections : \E c \in ColumnsOf(s) :
          \/ (\E form \in Forms : columns' = [columns EXCEPT ![c].form = form]) /\ UNCHANGED cells
          \/ columns' = [columns EXCEPT ![c].live = FALSE] /\ cells' = Restrict(cells, {p \in DOMAIN cells : p[2] # c})
    BY <1>5 DEF ChangeColumn
  <2>2. PICK c \in ColumnsOf(s) :
          \/ (\E form \in Forms : columns' = [columns EXCEPT ![c].form = form]) /\ UNCHANGED cells
          \/ columns' = [columns EXCEPT ![c].live = FALSE] /\ cells' = Restrict(cells, {p \in DOMAIN cells : p[2] # c})
    BY <2>1
  <2>3. c \in Columns /\ columns[c].live /\ columns[c].of = s
    BY DEF ColumnsOf
  <2>4. PICK old \in SheetColumn : old = columns[c] /\ old # Undrawn
    BY <1>3, <2>3, KindsApart
  <2>5. CASE (\E form \in Forms : columns' = [columns EXCEPT ![c].form = form]) /\ UNCHANGED cells
    <3>1. PICK form \in Forms : columns' = [columns EXCEPT ![c].form = form]
      BY <2>5
    <3>2. PICK row : row = [old EXCEPT !.form = form]
      OBVIOUS
    <3>3. row \in SheetColumn /\ row.of = old.of
      BY <3>2 DEF SheetColumn
    <3>4. row.live = old.live
      BY <3>2 DEF SheetColumn
    <3>5. columns' = [columns EXCEPT ![c] = row]
      BY <1>3, <2>3, <2>4, <3>1, <3>2
    <3>6. /\ columns' \in [Columns -> SheetColumn \union {Undrawn}] /\ Retains(columns, columns')
          /\ columns'[c] = row /\ \A d \in Columns \ {c} : columns'[d] = columns[d]
      BY <1>3, <2>3, <2>4, <3>3, <3>4, <3>5, DrawColumn
    <3>7. \A d \in Columns : columns[d] # Undrawn \/ (columns'[d] # Undrawn => sections'[columns'[d].of] # Undrawn)
      BY <2>4, <3>6
    <3>8. \A d \in Columns : columns[d].live => columns'[d].live
      BY <2>4, <3>4, <3>6
    <3> QED
      BY <1>1, <1>2, <1>3, <2>5, <3>6, <3>7, <3>8, DrawsRows
  <2>6. CASE columns' = [columns EXCEPT ![c].live = FALSE] /\ cells' = Restrict(cells, {p \in DOMAIN cells : p[2] # c})
    <3>1. PICK row : row = [old EXCEPT !.live = FALSE]
      OBVIOUS
    <3>2. row \in SheetColumn /\ row.of = old.of
      BY <3>1 DEF SheetColumn
    <3>3. ~row.live
      BY <3>1 DEF SheetColumn
    <3>4. columns' = [columns EXCEPT ![c] = row]
      BY <1>3, <2>3, <2>4, <2>6, <3>1
    <3>5. /\ columns' \in [Columns -> SheetColumn \union {Undrawn}] /\ Retains(columns, columns')
          /\ columns'[c] = row /\ \A d \in Columns \ {c} : columns'[d] = columns[d]
      BY <1>3, <2>3, <2>4, <3>2, <3>3, <3>4, DrawColumn
    <3>6. \A d \in Columns : columns[d] # Undrawn \/ (columns'[d] # Undrawn => sections'[columns'[d].of] # Undrawn)
      BY <2>4, <3>5
    <3>7. DOMAIN cells' = {p \in DOMAIN cells : p[2] # c} /\ \A p \in DOMAIN cells' : cells'[p] = cells[p]
      BY <2>6 DEF Restrict
    <3>8. DOMAIN cells' \subseteq SheetRows \X Columns
      BY <1>3, <3>7 DEF StockTyped
    <3>9. \A p \in DOMAIN cells' : cells'[p] \in Figures /\ columns'[p[2]].live /\ p \in DOMAIN cells
      <4> SUFFICES ASSUME NEW p \in DOMAIN cells, p[2] # c PROVE cells[p] \in Figures /\ columns'[p[2]].live
        BY <3>7
      <4>1. p[2] \in Columns /\ cells[p] \in Figures
        BY DEF StockInv, StockTyped
      <4>2. columns[p[2]].live
        BY DEF StockInv, Rooted
      <4> QED
        BY <3>5, <4>1, <4>2
    <3>10. \A w \in SheetRows : sheetRows[w] # Undrawn \/ (sheetRows'[w] # Undrawn => sections'[sheetRows'[w].of] # Undrawn)
      BY <1>1
    <3> QED
      BY <1>1, <1>2, <1>3, <3>5, <3>6, <3>8, <3>9, <3>10, DrawsOnly
  <2> QED
    BY <2>2, <2>5, <2>6
<1> QED
  BY <1>4, <1>5

\* Rows are added and changed; a deleted row keeps its cells.
LEMMA RowsDrawnStep ==
  ASSUME StockInv, NEW k \in Authors, AddRow(k) \/ ChangeRow(k) PROVE StockInv'
<1>1. author[k].at = "edit" /\ Writes(k, Unbusy) /\ UNCHANGED <<summaries, sections, columns, cells, scopes, cutOff, strays>>
  BY DEF AddRow, ChangeRow, Editing, Rests
<1>2. Unbusy \in AuthorKinds /\ AuthorFits(Unbusy)'
  BY Holds DEF AuthorFits
<1>3. /\ StockTyped /\ sections' \in [Sections -> Section \union {Undrawn}] /\ Retains(sections, sections')
      /\ columns' \in [Columns -> SheetColumn \union {Undrawn}] /\ Retains(columns, columns')
      /\ sheetRows \in [SheetRows -> SheetRow \union {Undrawn}]
  BY <1>1, NothingDrawn DEF StockInv, StockTyped
<1>4. \A c \in Columns : columns[c] # Undrawn \/ (columns'[c] # Undrawn => sections'[columns'[c].of] # Undrawn)
  BY <1>1
<1>5. \A c \in Columns : columns[c].live => columns'[c].live
  BY <1>1
<1>6. CASE AddRow(k)
  <2> DEFINE w == NextId(sheetRows)
  <2>1. PICK s \in Edited(k), form \in Forms : sheetRows' = [sheetRows EXCEPT ![w] = [of |-> s, form |-> form, live |-> TRUE]]
    BY <1>6 DEF AddRow
  <2>2. w \in SheetRows /\ sheetRows[w] = Undrawn /\ s \in Sections /\ sections[s] # Undrawn
    BY <1>3, <1>6, FreeIsNew, DraftsAreFiled DEF AddRow, Edited
  <2> HIDE DEF w
  <2>3. PICK row \in SheetRow : row = [of |-> s, form |-> form, live |-> TRUE]
    BY <2>2 DEF SheetRow
  <2>4. /\ sheetRows' \in [SheetRows -> SheetRow \union {Undrawn}] /\ Retains(sheetRows, sheetRows')
        /\ sheetRows'[w] = row /\ \A v \in SheetRows \ {w} : sheetRows'[v] = sheetRows[v]
    BY <1>3, <2>1, <2>2, <2>3, DrawRow
  <2>5. \A v \in SheetRows : sheetRows[v] # Undrawn \/ (sheetRows'[v] # Undrawn => sections'[sheetRows'[v].of] # Undrawn)
    BY <1>1, <2>2, <2>3, <2>4
  <2> QED
    BY <1>1, <1>2, <1>3, <1>4, <1>5, <2>4, <2>5, DrawsRows
<1>7. CASE ChangeRow(k)
  <2>1. PICK s \in Sections : \E w \in RowsOf(s) :
          (\E form \in Forms : sheetRows' = [sheetRows EXCEPT ![w].form = form]) \/ sheetRows' = [sheetRows EXCEPT ![w].live = FALSE]
    BY <1>7 DEF ChangeRow
  <2>2. PICK w \in RowsOf(s) :
          (\E form \in Forms : sheetRows' = [sheetRows EXCEPT ![w].form = form]) \/ sheetRows' = [sheetRows EXCEPT ![w].live = FALSE]
    BY <2>1
  <2>3. w \in SheetRows /\ sheetRows[w].live /\ sheetRows[w].of = s
    BY DEF RowsOf
  <2>4. PICK old \in SheetRow : old = sheetRows[w] /\ old # Undrawn
    BY <1>3, <2>3, KindsApart
  <2>5. \E row \in SheetRow : row.of = old.of /\ (row.live => old.live) /\ sheetRows' = [sheetRows EXCEPT ![w] = row]
    <3>1. CASE \E form \in Forms : sheetRows' = [sheetRows EXCEPT ![w].form = form]
      <4>1. PICK form \in Forms : sheetRows' = [sheetRows EXCEPT ![w].form = form]
        BY <3>1
      <4>2. PICK row : row = [old EXCEPT !.form = form]
        OBVIOUS
      <4>3. row \in SheetRow /\ row.of = old.of
        BY <4>2 DEF SheetRow
      <4>4. row.live = old.live
        BY <4>2 DEF SheetRow
      <4> QED
        BY <1>3, <2>3, <2>4, <4>1, <4>2, <4>3, <4>4
    <3>2. CASE sheetRows' = [sheetRows EXCEPT ![w].live = FALSE]
      <4>1. PICK row : row = [old EXCEPT !.live = FALSE]
        OBVIOUS
      <4>2. row \in SheetRow /\ row.of = old.of
        BY <4>1 DEF SheetRow
      <4>3. ~row.live
        BY <4>1 DEF SheetRow
      <4> QED
        BY <1>3, <2>3, <2>4, <3>2, <4>1, <4>2, <4>3
    <3> QED
      BY <2>2, <3>1, <3>2
  <2>6. PICK row \in SheetRow : row.of = old.of /\ (row.live => old.live) /\ sheetRows' = [sheetRows EXCEPT ![w] = row]
    BY <2>5
  <2>7. /\ sheetRows' \in [SheetRows -> SheetRow \union {Undrawn}] /\ Retains(sheetRows, sheetRows')
        /\ sheetRows'[w] = row /\ \A v \in SheetRows \ {w} : sheetRows'[v] = sheetRows[v]
    BY <1>3, <2>3, <2>4, <2>6, DrawRow
  <2>8. \A v \in SheetRows : sheetRows[v] # Undrawn \/ (sheetRows'[v] # Undrawn => sections'[sheetRows'[v].of] # Undrawn)
    BY <2>4, <2>7
  <2> QED
    BY <1>1, <1>2, <1>3, <1>4, <1>5, <2>7, <2>8, DrawsRows
<1> QED
  BY <1>6, <1>7

\* What a save does to the columns and the rows of a section.
SyncsColumns(s, named, added, form) ==
  (added => FreeIds(columns) # {}) /\ columns' = Synced(columns, s, named, added, form)
SyncsRows(s, named, added, form) ==
  (added => FreeIds(sheetRows) # {}) /\ sheetRows' = Synced(sheetRows, s, named, added, form)

\* A save of a section changes its columns where they are, and adds one of its own or none.
LEMMA SyncedColumns ==
  ASSUME StockTyped, NEW s \in Sections, NEW named \in SUBSET Columns, NEW added \in BOOLEAN, NEW form \in Forms,
         SyncsColumns(s, named, added, form)
  PROVE  /\ columns' \in [Columns -> SheetColumn \union {Undrawn}] /\ Retains(columns, columns')
         /\ \A i \in Columns : columns[i] # Undrawn \/ (columns'[i] # Undrawn => columns'[i].of = s)
         /\ \A i \in Columns : columns[i].of = s => columns'[i].of = s
         /\ added => NextId(columns) \in Columns /\ columns'[NextId(columns)].of = s
         /\ \A i \in Columns : columns[i].of = s \/ (added /\ i = NextId(columns)) \/ columns'[i] = columns[i]
<1> DEFINE drawn == [of |-> s, form |-> form, live |-> TRUE]
<1>1. columns \in [Columns -> SheetColumn \union {Undrawn}] /\ s # 0 /\ Undrawn.of = 0 /\ Undrawn \notin SheetColumn
  BY KindsApart DEF StockTyped
<1>2. added => NextId(columns) \in Columns /\ columns[NextId(columns)] = Undrawn
  BY FreeIsNew DEF SyncsColumns
<1>3. PICK new \in SheetColumn : new = drawn
  BY DEF SheetColumn
<1>4. new.of = s
  BY <1>3
<1>5. DOMAIN columns' = Columns
  BY <1>1 DEF Synced, SyncsColumns
<1>6. ASSUME NEW i \in Columns
      PROVE  /\ columns'[i] \in SheetColumn \union {Undrawn}
             /\ columns[i] # Undrawn => columns'[i] # Undrawn /\ columns'[i].of = columns[i].of /\ (columns'[i].live => columns[i].live)
             /\ columns[i] # Undrawn \/ (columns'[i] # Undrawn => columns'[i].of = s)
             /\ columns[i].of = s => columns'[i].of = s
             /\ added /\ i = NextId(columns) => columns'[i].of = s
             /\ columns[i].of = s \/ (added /\ i = NextId(columns)) \/ columns'[i] = columns[i]
  <2>1. columns'[i] = CASE added /\ i = NextId(columns) -> drawn
                     [] columns[i].of = s /\ columns[i].live /\ i \in named -> [columns[i] EXCEPT !.form = form]
                     [] columns[i].of = s /\ named # {} /\ i \notin named -> [columns[i] EXCEPT !.live = FALSE]
                     [] OTHER -> columns[i]
    BY <1>1 DEF Synced, SyncsColumns
  <2>2. CASE added /\ i = NextId(columns)
    <3>1. columns[i] = Undrawn /\ columns[i].of # s
      BY <1>1, <1>2, <2>2
    <3>2. columns'[i] = new
      BY <1>3, <2>1, <2>2, <3>1
    <3> QED
      BY <1>1, <1>4, <2>2, <3>1, <3>2
  <2>3. CASE ~(added /\ i = NextId(columns)) /\ columns[i].of = s
    <3>1. PICK old \in SheetColumn : old = columns[i] /\ old # Undrawn
      BY <1>1, <2>3
    <3>2. PICK formed : formed = [old EXCEPT !.form = form]
      OBVIOUS
    <3>3. PICK gone : gone = [old EXCEPT !.live = FALSE]
      OBVIOUS
    <3>4. formed \in SheetColumn /\ formed.of = old.of
      BY <3>2 DEF SheetColumn
    <3>5. formed.live = old.live
      BY <3>2 DEF SheetColumn
    <3>6. gone \in SheetColumn /\ gone.of = old.of
      BY <3>3 DEF SheetColumn
    <3>7. ~gone.live
      BY <3>3 DEF SheetColumn
    <3>8. columns'[i] \in {formed, gone, old}
      BY <2>1, <2>3, <3>1, <3>2, <3>3
    <3> QED
      BY <1>1, <2>3, <3>1, <3>4, <3>5, <3>6, <3>7, <3>8
  <2>4. CASE ~(added /\ i = NextId(columns)) /\ columns[i].of # s
    <3>1. columns'[i] = columns[i]
      BY <2>1, <2>4
    <3> QED
      BY <1>1, <2>4, <3>1
  <2> QED
    BY <2>2, <2>3, <2>4
<1>7. columns' \in [Columns -> SheetColumn \union {Undrawn}]
  <2>1. columns' = [i \in Columns |-> columns'[i]]
    BY <1>1 DEF Synced, SyncsColumns
  <2> QED
    BY <1>6, <2>1
<1>8. Retains(columns, columns')
  BY <1>1, <1>6 DEF Retains
<1> QED
  BY <1>2, <1>6, <1>7, <1>8

\* So it does with its rows.
LEMMA SyncedRows ==
  ASSUME StockTyped, NEW s \in Sections, NEW named \in SUBSET SheetRows, NEW added \in BOOLEAN, NEW form \in Forms,
         SyncsRows(s, named, added, form)
  PROVE  /\ sheetRows' \in [SheetRows -> SheetRow \union {Undrawn}] /\ Retains(sheetRows, sheetRows')
         /\ \A i \in SheetRows : sheetRows[i] # Undrawn \/ (sheetRows'[i] # Undrawn => sheetRows'[i].of = s)
         /\ \A i \in SheetRows : sheetRows[i].of = s => sheetRows'[i].of = s
         /\ added => NextId(sheetRows) \in SheetRows /\ sheetRows'[NextId(sheetRows)].of = s
         /\ \A i \in SheetRows : sheetRows[i].of = s \/ (added /\ i = NextId(sheetRows)) \/ sheetRows'[i] = sheetRows[i]
<1> DEFINE drawn == [of |-> s, form |-> form, live |-> TRUE]
<1>1. sheetRows \in [SheetRows -> SheetRow \union {Undrawn}] /\ s # 0 /\ Undrawn.of = 0 /\ Undrawn \notin SheetRow
  BY KindsApart DEF StockTyped
<1>2. added => NextId(sheetRows) \in SheetRows /\ sheetRows[NextId(sheetRows)] = Undrawn
  BY FreeIsNew DEF SyncsRows
<1>3. PICK new \in SheetRow : new = drawn
  BY DEF SheetRow
<1>4. new.of = s
  BY <1>3
<1>5. DOMAIN sheetRows' = SheetRows
  BY <1>1 DEF Synced, SyncsRows
<1>6. ASSUME NEW i \in SheetRows
      PROVE  /\ sheetRows'[i] \in SheetRow \union {Undrawn}
             /\ sheetRows[i] # Undrawn => sheetRows'[i] # Undrawn /\ sheetRows'[i].of = sheetRows[i].of /\ (sheetRows'[i].live => sheetRows[i].live)
             /\ sheetRows[i] # Undrawn \/ (sheetRows'[i] # Undrawn => sheetRows'[i].of = s)
             /\ sheetRows[i].of = s => sheetRows'[i].of = s
             /\ added /\ i = NextId(sheetRows) => sheetRows'[i].of = s
             /\ sheetRows[i].of = s \/ (added /\ i = NextId(sheetRows)) \/ sheetRows'[i] = sheetRows[i]
  <2>1. sheetRows'[i] = CASE added /\ i = NextId(sheetRows) -> drawn
                     [] sheetRows[i].of = s /\ sheetRows[i].live /\ i \in named -> [sheetRows[i] EXCEPT !.form = form]
                     [] sheetRows[i].of = s /\ named # {} /\ i \notin named -> [sheetRows[i] EXCEPT !.live = FALSE]
                     [] OTHER -> sheetRows[i]
    BY <1>1 DEF Synced, SyncsRows
  <2>2. CASE added /\ i = NextId(sheetRows)
    <3>1. sheetRows[i] = Undrawn /\ sheetRows[i].of # s
      BY <1>1, <1>2, <2>2
    <3>2. sheetRows'[i] = new
      BY <1>3, <2>1, <2>2, <3>1
    <3> QED
      BY <1>1, <1>4, <2>2, <3>1, <3>2
  <2>3. CASE ~(added /\ i = NextId(sheetRows)) /\ sheetRows[i].of = s
    <3>1. PICK old \in SheetRow : old = sheetRows[i] /\ old # Undrawn
      BY <1>1, <2>3
    <3>2. PICK formed : formed = [old EXCEPT !.form = form]
      OBVIOUS
    <3>3. PICK gone : gone = [old EXCEPT !.live = FALSE]
      OBVIOUS
    <3>4. formed \in SheetRow /\ formed.of = old.of
      BY <3>2 DEF SheetRow
    <3>5. formed.live = old.live
      BY <3>2 DEF SheetRow
    <3>6. gone \in SheetRow /\ gone.of = old.of
      BY <3>3 DEF SheetRow
    <3>7. ~gone.live
      BY <3>3 DEF SheetRow
    <3>8. sheetRows'[i] \in {formed, gone, old}
      BY <2>1, <2>3, <3>1, <3>2, <3>3
    <3> QED
      BY <1>1, <2>3, <3>1, <3>4, <3>5, <3>6, <3>7, <3>8
  <2>4. CASE ~(added /\ i = NextId(sheetRows)) /\ sheetRows[i].of # s
    <3>1. sheetRows'[i] = sheetRows[i]
      BY <2>1, <2>4
    <3> QED
      BY <1>1, <2>4, <3>1
  <2> QED
    BY <2>2, <2>3, <2>4
<1>7. sheetRows' \in [SheetRows -> SheetRow \union {Undrawn}]
  <2>1. sheetRows' = [i \in SheetRows |-> sheetRows'[i]]
    BY <1>1 DEF Synced, SyncsRows
  <2> QED
    BY <1>6, <2>1
<1>8. Retains(sheetRows, sheetRows')
  BY <1>1, <1>6 DEF Retains
<1> QED
  BY <1>2, <1>6, <1>7, <1>8

\* What a save of a section does, unless its transaction is undone: the section, columns and rows
\* change where they are or are added to it, and one cell of the section is filled.
Reforms(s, form) == sections' = [sections EXCEPT ![s].form = form]
Fills(s, addsRow, filled, figure) ==
  /\ filled \subseteq SheetRows \X Columns
  /\ \A p \in filled : /\ sheetRows[p[1]].of = s \/ (addsRow /\ p[1] = NextId(sheetRows))
                       /\ columns'[p[2]].live /\ (p \in strays' \/ columns'[p[2]].of = s)
  /\ strays \subseteq strays'
  /\ DOMAIN cells' = {q \in DOMAIN cells : columns'[q[2]].live} \union filled
  /\ \A p \in DOMAIN cells' : cells'[p] = IF p \in filled THEN figure ELSE cells[p]
SavesSection(s) ==
  \E form \in Forms, figure \in Figures, addsRow \in BOOLEAN, addsColumn \in BOOLEAN :
  \E pageColumns \in SUBSET Columns, pageRows \in SUBSET SheetRows, filled \in SUBSET (SheetRows \X Columns) :
    /\ Reforms(s, form) /\ Fills(s, addsRow, filled, figure)
    /\ SyncsColumns(s, pageColumns, addsColumn, form) /\ SyncsRows(s, pageRows, addsRow, form)

\* SaveSection is such a save, or is undone.
LEMMA SaveDoes ==
  ASSUME StockInv, NEW k \in Authors, SaveSection(k)
  PROVE  /\ author[k].at \in {"edit", "save"} /\ UNCHANGED <<summaries, scopes, cutOff>>
         /\ \E s \in Edited(k) :
              \/ Rests(k) /\ UNCHANGED <<sections, columns, sheetRows, cells, strays>>
              \/ /\ SavesSection(s)
                 /\ Rests(k) \/ Writes(k, [at |-> "save all", summary |-> author[k].summary])
<1>1. author[k].at \in {"edit", "save"} /\ UNCHANGED <<summaries, scopes, cutOff>>
  BY DEF SaveSection
<1>2. PICK s \in Edited(k), form \in Forms, figure \in Figures, addsRow \in BOOLEAN, addsColumn \in BOOLEAN :
     \E pageColumns \in SUBSET {c \in Columns : columns[c].of = s},
        pageRows \in SUBSET {w \in SheetRows : sheetRows[w].of = s} :
       /\ addsRow => FreeIds(sheetRows) # {}
       /\ addsColumn => FreeIds(columns) # {}
       /\ \E filled \in Fillings(pageRows, addsRow, addsColumn) :
            SavePage(k, s, form, pageColumns, pageRows, addsColumn, addsRow, filled, figure)
  BY DEF SaveSection
<1>3. PICK pageColumns \in SUBSET {c \in Columns : columns[c].of = s},
           pageRows \in SUBSET {w \in SheetRows : sheetRows[w].of = s} :
       /\ addsRow => FreeIds(sheetRows) # {}
       /\ addsColumn => FreeIds(columns) # {}
       /\ \E filled \in Fillings(pageRows, addsRow, addsColumn) :
            SavePage(k, s, form, pageColumns, pageRows, addsColumn, addsRow, filled, figure)
  BY <1>2
<1>4. PICK filled \in Fillings(pageRows, addsRow, addsColumn) :
            SavePage(k, s, form, pageColumns, pageRows, addsColumn, addsRow, filled, figure)
  BY <1>3
<1>5. (addsRow => FreeIds(sheetRows) # {}) /\ (addsColumn => FreeIds(columns) # {})
  BY <1>3
<1> DEFINE after == Synced(columns, s, pageColumns, addsColumn, form)
<1>6. CASE \E p \in filled : p[2] \notin KnownIn(after)
  <2>1. Rests(k) /\ UNCHANGED <<sections, columns, sheetRows, cells, strays>>
    BY <1>4, <1>6, Zenon DEF SavePage
  <2> QED
    BY <1>1, <2>1
<1>7. CASE ~\E p \in filled : p[2] \notin KnownIn(after)
  <2>1. /\ sections' = [sections EXCEPT ![s].form = form] /\ columns' = after
        /\ sheetRows' = Synced(sheetRows, s, pageRows, addsRow, form)
        /\ WriteCells(KnownIn(after), filled, figure)
        /\ strays' = strays \union Elsewhere(s, after, filled)
        /\ Rests(k) \/ Writes(k, [at |-> "save all", summary |-> author[k].summary])
    BY <1>4, <1>7, Zenon DEF SavePage
  <2>2. addsRow => NextId(sheetRows) \in SheetRows
    BY <1>5, FreeIsNew DEF StockInv
  <2>3. addsColumn => NextId(columns) \in Columns
    BY <1>5, FreeIsNew DEF StockInv
  <2>4. Reforms(s, form)
    BY <2>1, Zenon DEF Reforms
  <2>5. SyncsColumns(s, pageColumns, addsColumn, form) /\ SyncsRows(s, pageRows, addsRow, form)
    BY <1>5, <2>1, Zenon DEF SyncsColumns, SyncsRows
  <2>6. columns' = after /\ WriteCells(KnownIn(after), filled, figure) /\ strays' = strays \union Elsewhere(s, after, filled)
    BY <2>1, Zenon
  <2> HIDE DEF after
  <2>7. \A p \in filled : /\ p \in SheetRows \X Columns
                          /\ sheetRows[p[1]].of = s \/ (addsRow /\ p[1] = NextId(sheetRows))
                          /\ p \in strays' \/ columns'[p[2]].of = s
    <3> SUFFICES ASSUME NEW p \in filled
                 PROVE  /\ p \in SheetRows \X Columns
                        /\ sheetRows[p[1]].of = s \/ (addsRow /\ p[1] = NextId(sheetRows))
                        /\ p \in strays' \/ columns'[p[2]].of = s
      OBVIOUS
    <3> DEFINE R == (pageRows \ Gone(pageRows)) \union (IF addsRow THEN {NextId(sheetRows)} ELSE {})
               C == {c \in Columns : columns[c] # Undrawn} \union (IF addsColumn THEN {NextId(columns)} ELSE {})
    <3>1. filled \in {{}} \union {{r} : r \in R \X C}
      BY Zenon DEF Fillings
    <3>2. \A w \in R : w \in SheetRows /\ (sheetRows[w].of = s \/ (addsRow /\ w = NextId(sheetRows)))
      BY <2>2
    <3>3. C \subseteq Columns
      BY <2>3
    <3>5. p \in strays' \/ columns'[p[2]].of = s
      BY <2>6 DEF Elsewhere
    <3> HIDE DEF R, C
    <3>4. p \in R \X C
      BY <3>1
    <3> QED
      BY <3>2, <3>3, <3>4, <3>5
  <2>8. \A q \in DOMAIN cells : q[2] \in KnownIn(after) <=> columns'[q[2]].live
    BY <2>6 DEF StockInv, StockTyped, KnownIn
  <2>9. DOMAIN cells' = {q \in DOMAIN cells : columns'[q[2]].live} \union filled
    BY <2>6, <2>8 DEF WriteCells
  <2>10. \A p \in DOMAIN cells' : cells'[p] = IF p \in filled THEN figure ELSE cells[p]
    BY <2>6 DEF WriteCells
  <2>11. \A p \in filled : columns'[p[2]].live
    BY <1>7, <2>6 DEF KnownIn, after
  <2>12. filled \in SUBSET (SheetRows \X Columns)
    BY <2>7
  <2>13. Fills(s, addsRow, filled, figure)
    BY <2>6, <2>7, <2>9, <2>10, <2>11, <2>12 DEF Fills
  <2>14. pageColumns \in SUBSET Columns /\ pageRows \in SUBSET SheetRows
    OBVIOUS
  <2>15. SavesSection(s)
    BY <2>4, <2>5, <2>12, <2>13, <2>14 DEF SavesSection
  <2>16. Rests(k) \/ Writes(k, [at |-> "save all", summary |-> author[k].summary])
    BY <2>1, Zenon
  <2> QED
    BY <1>1, <2>15, <2>16
<1> QED
  BY <1>6, <1>7

\* A save keeps the invariant: what it fills elsewhere than in the section is remembered.
LEMMA SaveSectionStep ==
  ASSUME StockInv, NEW k \in Authors, SaveSection(k) PROVE StockInv'
<1>1. author[k].at \in {"edit", "save"} /\ UNCHANGED <<summaries, scopes, cutOff>>
  BY SaveDoes
<1>2. author[k].summary \in Summaries /\ summaries[author[k].summary] # Missing
  BY <1>1, AtWork
<1>3. PICK s \in Edited(k) :
        \/ Rests(k) /\ UNCHANGED <<sections, columns, sheetRows, cells, strays>>
        \/ /\ SavesSection(s)
           /\ Rests(k) \/ Writes(k, [at |-> "save all", summary |-> author[k].summary])
  BY SaveDoes
<1>4. CASE Rests(k) /\ UNCHANGED <<sections, columns, sheetRows, cells, strays>>
  BY <1>1, <1>4, Holds, GoesOnly DEF Rests
<1>5. CASE SavesSection(s) /\ (Rests(k) \/ Writes(k, [at |-> "save all", summary |-> author[k].summary]))
  <2>1. PICK next \in AuthorKinds : Writes(k, next) /\ (next = Unbusy \/ next = [at |-> "save all", summary |-> author[k].summary])
    BY <1>2, <1>5, Holds DEF Rests
  <2>2. AuthorFits(next)'
    <3>1. CASE next = Unbusy
      BY <3>1, Holds DEF AuthorFits
    <3>2. CASE next = [at |-> "save all", summary |-> author[k].summary]
      <4>1. next.at = "save all" /\ next.summary = author[k].summary
        BY <3>2
      <4> QED
        BY <1>1, <1>2, <4>1 DEF AuthorFits
    <3> QED
      BY <2>1, <3>1, <3>2
  <2>3. s \in Sections /\ sections[s] # Undrawn /\ sections[s].of = author[k].summary
    BY DraftsAreFiled DEF Edited, SectionsOf
  <2>4. PICK form \in Forms, figure \in Figures, addsRow \in BOOLEAN, addsColumn \in BOOLEAN :
          \E pageColumns \in SUBSET Columns, pageRows \in SUBSET SheetRows, filled \in SUBSET (SheetRows \X Columns) :
            /\ Reforms(s, form) /\ Fills(s, addsRow, filled, figure)
            /\ SyncsColumns(s, pageColumns, addsColumn, form) /\ SyncsRows(s, pageRows, addsRow, form)
    BY <1>5 DEF SavesSection
  <2>45. PICK pageColumns \in SUBSET Columns, pageRows \in SUBSET SheetRows, filled \in SUBSET (SheetRows \X Columns) :
            /\ Reforms(s, form) /\ Fills(s, addsRow, filled, figure)
            /\ SyncsColumns(s, pageColumns, addsColumn, form) /\ SyncsRows(s, pageRows, addsRow, form)
    BY <2>4
  <2>5. StockTyped
    BY DEF StockInv
  <2>6. PICK old \in Section : old = sections[s]
    BY <2>3, <2>5 DEF StockTyped
  <2>7. PICK row : row = [old EXCEPT !.form = form]
    OBVIOUS
  <2>8. row \in Section /\ row.of = old.of
    BY <2>7 DEF Section
  <2>9. row.live = old.live
    BY <2>7 DEF Section
  <2>10. sections' = [sections EXCEPT ![s] = row]
    BY <2>3, <2>45, <2>5, <2>6, <2>7 DEF StockTyped, Reforms
  <2>11. /\ sections' \in [Sections -> Section \union {Undrawn}] /\ Retains(sections, sections') /\ sections'[s] # Undrawn
         /\ sections'[s] = row /\ \A t \in Sections \ {s} : sections'[t] = sections[t]
    BY <2>3, <2>5, <2>6, <2>8, <2>9, <2>10, DrawSection
  <2>12. /\ columns' \in [Columns -> SheetColumn \union {Undrawn}] /\ Retains(columns, columns')
         /\ \A i \in Columns : columns[i] # Undrawn \/ (columns'[i] # Undrawn => columns'[i].of = s)
         /\ \A i \in Columns : columns[i].of = s => columns'[i].of = s
         /\ addsColumn => columns'[NextId(columns)].of = s
         /\ \A i \in Columns : columns[i].of = s \/ (addsColumn /\ i = NextId(columns)) \/ columns'[i] = columns[i]
    BY <2>3, <2>45, <2>5, SyncedColumns
  <2>13. /\ sheetRows' \in [SheetRows -> SheetRow \union {Undrawn}] /\ Retains(sheetRows, sheetRows')
         /\ \A i \in SheetRows : sheetRows[i] # Undrawn \/ (sheetRows'[i] # Undrawn => sheetRows'[i].of = s)
         /\ \A i \in SheetRows : sheetRows[i].of = s => sheetRows'[i].of = s
         /\ addsRow => sheetRows'[NextId(sheetRows)].of = s
         /\ \A i \in SheetRows : sheetRows[i].of = s \/ (addsRow /\ i = NextId(sheetRows)) \/ sheetRows'[i] = sheetRows[i]
    BY <2>3, <2>45, <2>5, SyncedRows
  <2>14. DOMAIN cells' \subseteq SheetRows \X Columns
    BY <2>45, <2>5 DEF StockTyped, Fills
  <2>15. \A p \in DOMAIN cells' :
           /\ cells'[p] \in Figures /\ columns'[p[2]].live
           /\ p \in DOMAIN cells \/ sheetRows'[p[1]] # Undrawn
           /\ p \in (DOMAIN cells) \union strays' \/ columns'[p[2]].of = sheetRows'[p[1]].of
    <3> SUFFICES ASSUME NEW p \in DOMAIN cells'
                 PROVE  /\ cells'[p] \in Figures /\ columns'[p[2]].live
                        /\ p \in DOMAIN cells \/ sheetRows'[p[1]] # Undrawn
                        /\ p \in (DOMAIN cells) \union strays' \/ columns'[p[2]].of = sheetRows'[p[1]].of
      OBVIOUS
    <3>1. p[1] \in SheetRows /\ p[2] \in Columns
      BY <2>14
    <3>2. CASE p \in filled
      <4>1. sheetRows'[p[1]].of = s /\ s # 0 /\ Undrawn.of = 0
        BY <2>3, <2>45, <2>13, <3>1, <3>2, KindsApart DEF Fills
      <4> QED
        BY <2>45, <3>2, <4>1 DEF Fills
    <3>3. CASE p \notin filled
      BY <2>45, <2>5, <3>3 DEF StockTyped, Fills
    <3> QED
      BY <3>2, <3>3
  <2>16. strays \subseteq strays'
    BY <2>45 DEF Fills
  <2> QED
    BY <1>1, <2>1, <2>2, <2>11, <2>12, <2>13, <2>14, <2>15, <2>16, DrawsOnly
<1> QED
  BY <1>3, <1>4, <1>5

\* What a copier has at hand.
LEMMA AtHand ==
  ASSUME NEW d \in Copier
  PROVE  /\ d.at = "copy" /\ d.summary \in Summaries /\ d.to \in Sections \union {0}
         /\ d.columnMap \in [DOMAIN d.columnMap -> Columns] /\ DOMAIN d.columnMap \subseteq Columns
         /\ d.rowMap \in [DOMAIN d.rowMap -> SheetRows] /\ DOMAIN d.rowMap \subseteq SheetRows
         /\ d.todo \in [DOMAIN d.todo -> Sheets] /\ DOMAIN d.todo \subseteq Sections
         /\ d.from \in Sheets \union {NoSheet}
<1>1. d.at = "copy" /\ d.summary \in Summaries /\ d.to \in Sections \union {0} /\ d.from \in Sheets \union {NoSheet}
  BY DEF Copier
<1>2. d.columnMap \in Maps(Columns, Columns) /\ d.rowMap \in Maps(SheetRows, SheetRows) /\ d.todo \in Maps(Sections, Sheets)
  BY DEF Copier
<1>3. d.columnMap \in [DOMAIN d.columnMap -> Columns] /\ DOMAIN d.columnMap \subseteq Columns
  BY <1>2 DEF Maps
<1>4. d.rowMap \in [DOMAIN d.rowMap -> SheetRows] /\ DOMAIN d.rowMap \subseteq SheetRows
  BY <1>2 DEF Maps
<1>5. d.todo \in [DOMAIN d.todo -> Sheets] /\ DOMAIN d.todo \subseteq Sections
  BY <1>2 DEF Maps
<1> QED
  BY <1>1, <1>3, <1>4, <1>5

\* What a sheet has: forms of columns and rows, and figures where they meet.
LEMMA OnSheet ==
  /\ DOMAIN NoSheet.columns = {} /\ DOMAIN NoSheet.rows = {}
  /\ \A t \in Sheets :
       /\ t.form \in Forms /\ DOMAIN t.columns \subseteq Columns /\ DOMAIN t.rows \subseteq SheetRows
       /\ \A c \in DOMAIN t.columns : t.columns[c] \in Forms
       /\ \A w \in DOMAIN t.rows : t.rows[w] \in Forms
       /\ DOMAIN t.cells \subseteq SheetRows \X Columns
       /\ \A p \in DOMAIN t.cells : t.cells[p] \in Figures /\ p[1] \in DOMAIN t.rows /\ p[2] \in DOMAIN t.columns
<1>1. DOMAIN NoSheet.columns = {} /\ DOMAIN NoSheet.rows = {}
  BY DEF NoSheet
<1>2. ASSUME NEW t \in Sheets
      PROVE  /\ t.form \in Forms /\ DOMAIN t.columns \subseteq Columns /\ DOMAIN t.rows \subseteq SheetRows
             /\ \A c \in DOMAIN t.columns : t.columns[c] \in Forms
             /\ \A w \in DOMAIN t.rows : t.rows[w] \in Forms
             /\ DOMAIN t.cells \subseteq SheetRows \X Columns
             /\ \A p \in DOMAIN t.cells : t.cells[p] \in Figures /\ p[1] \in DOMAIN t.rows /\ p[2] \in DOMAIN t.columns
  <2>1. /\ t.form \in Forms /\ t.columns \in Maps(Columns, Forms) /\ t.rows \in Maps(SheetRows, Forms)
        /\ t.cells \in Maps(SheetRows \X Columns, Figures)
    BY DEF Sheets, Sheet
  <2>2. PICK C \in SUBSET Columns : t.columns \in [C -> Forms]
    BY <2>1 DEF Maps
  <2>3. PICK R \in SUBSET SheetRows : t.rows \in [R -> Forms]
    BY <2>1 DEF Maps
  <2>4. PICK P \in SUBSET (SheetRows \X Columns) : t.cells \in [P -> Figures]
    BY <2>1 DEF Maps
  <2>5. \A p \in DOMAIN t.cells : p[1] \in DOMAIN t.rows /\ p[2] \in DOMAIN t.columns
    BY DEF Sheets
  <2> QED
    BY <2>1, <2>2, <2>3, <2>4, <2>5
<1> QED
  BY <1>1, <1>2

\* The next section to copy: a new one, of whose columns and rows none is copied yet.
LEMMA CopySectionStep ==
  ASSUME StockInv, NEW k \in Authors, CopySection(k)
  PROVE  /\ StockInv'
         /\ author'[k].summary = author[k].summary /\ sections'[author'[k].to].of = author[k].summary
<1> DEFINE new == NextId(sections)
<1>1. PICK d \in Copier : d = author[k] /\ summaries[d.summary] # Missing /\ d.at = "copy"
  BY AtWork DEF CopySection, SectionCopied
<1>2. new \in Sections /\ sections[new] = Undrawn /\ new # 0
  BY FreeIsNew, KindsApart DEF CopySection, StockInv
<1>3. PICK s \in DOMAIN d.todo :
        /\ sections' = [sections EXCEPT ![new] = [of |-> d.summary, form |-> d.todo[s].form, live |-> TRUE]]
        /\ Writes(k, [d EXCEPT !.from = d.todo[s], !.to = new, !.columnMap = <<>>, !.rowMap = <<>>,
                               !.todo = Restrict(@, DOMAIN @ \ {s})])
  BY <1>1 DEF CopySection
<1> HIDE DEF new
<1>4. PICK from \in Sheets : from = d.todo[s]
  BY AtHand
<1>5. PICK todo : todo = Restrict(d.todo, DOMAIN d.todo \ {s})
  OBVIOUS
<1>6. PICK next : next = [d EXCEPT !.from = from, !.to = new, !.columnMap = <<>>, !.rowMap = <<>>, !.todo = todo]
  OBVIOUS
<1>7. Writes(k, next)
  BY <1>3, <1>4, <1>5, <1>6 DEF Copier
<1>8. todo \in Maps(Sections, Sheets)
  <2>1. \A t \in DOMAIN d.todo \ {s} : t \in Sections /\ d.todo[t] \in Sheets
    BY AtHand
  <2> QED
    BY <1>5, <2>1 DEF Restrict, Maps
<1>9. <<>> \in Maps(Columns, Columns) /\ <<>> \in Maps(SheetRows, SheetRows) /\ DOMAIN <<>> = {}
  <2>1. DOMAIN <<>> = {} /\ <<>> = [x \in {} |-> x]
    OBVIOUS
  <2>2. [x \in {} |-> x] \in [{} -> Columns] /\ [x \in {} |-> x] \in [{} -> SheetRows]
    OBVIOUS
  <2> QED
    BY <2>1, <2>2 DEF Maps
<1>10. next \in Copier
  BY <1>2, <1>6, <1>8, <1>9 DEF Copier
<1>11. next.at = "copy" /\ next.summary = d.summary /\ next.to = new /\ next.from = from /\ next.columnMap = <<>>
  BY <1>1, <1>6 DEF Copier
<1>12. d.summary \in Summaries /\ from.form \in Forms
  BY AtHand, OnSheet
<1>13. PICK row \in Section : row = [of |-> d.summary, form |-> from.form, live |-> TRUE]
  BY <1>12 DEF Section
<1>14. /\ sections' \in [Sections -> Section \union {Undrawn}] /\ Retains(sections, sections') /\ sections'[new] # Undrawn
       /\ sections'[new] = row /\ \A t \in Sections \ {new} : sections'[t] = sections[t]
  BY <1>2, <1>3, <1>4, <1>13, DrawSection DEF StockInv
<1>15. UNCHANGED <<summaries, columns, sheetRows, cells, scopes, cutOff, strays>>
  BY DEF CopySection
<1>16. AuthorFits(next)'
  BY <1>1, <1>2, <1>9, <1>11, <1>14, <1>15 DEF AuthorFits
<1>17. /\ columns' \in [Columns -> SheetColumn \union {Undrawn}] /\ Retains(columns, columns')
       /\ sheetRows' \in [SheetRows -> SheetRow \union {Undrawn}] /\ Retains(sheetRows, sheetRows')
  BY <1>15, NothingDrawn DEF StockInv, StockTyped
<1>19. author'[k] = next /\ row.of = d.summary
  BY <1>7, <1>13 DEF Writes, StockInv, StockTyped
<1> QED
  BY <1>1, <1>7, <1>10, <1>11, <1>14, <1>15, <1>16, <1>17, <1>19, DrawsRows DEF AuthorKinds

\* A column is copied below the new section.
LEMMA CopyColumnStep ==
  ASSUME StockInv, NEW k \in Authors, CopyColumn(k)
  PROVE  /\ StockInv' /\ author[k].to # 0
         /\ author'[k].summary = author[k].summary /\ author'[k].to = author[k].to
<1> DEFINE new == NextId(columns)
<1>1. PICK d \in Copier : d = author[k] /\ summaries[d.summary] # Missing /\ d.at = "copy" /\ AuthorFits(d)
  BY AtWork DEF CopyColumn
<1>2. new \in Columns /\ columns[new] = Undrawn
  BY FreeIsNew DEF CopyColumn, StockInv
<1>3. PICK c \in LeftColumns(k) :
       /\ columns' = [columns EXCEPT ![new] = [of |-> d.to, form |-> d.from.columns[c], live |-> TRUE]]
       /\ Writes(k, [d EXCEPT !.columnMap = [x \in DOMAIN @ \union {c} |-> IF x = c THEN new ELSE @[x]]])
  BY <1>1 DEF CopyColumn
<1> HIDE DEF new
<1>4. c \in DOMAIN d.from.columns /\ c \notin DOMAIN d.columnMap
  BY <1>1 DEF LeftColumns
<1>5. d.to \in Sections /\ d.from \in Sheets /\ sections[d.to] # Undrawn
  BY <1>1, <1>4, AtHand, OnSheet DEF AuthorFits
<1>6. c \in Columns /\ d.from.columns[c] \in Forms
  BY <1>4, <1>5, OnSheet
<1>7. PICK map : map = [x \in DOMAIN d.columnMap \union {c} |-> IF x = c THEN new ELSE d.columnMap[x]]
  OBVIOUS
<1>8. DOMAIN map = DOMAIN d.columnMap \union {c} /\ map[c] = new /\ \A x \in DOMAIN d.columnMap : map[x] = d.columnMap[x]
  BY <1>4, <1>7
<1>9. map \in Maps(Columns, Columns)
  <2>1. map \in [DOMAIN d.columnMap \union {c} -> Columns] /\ DOMAIN d.columnMap \union {c} \subseteq Columns
    BY <1>2, <1>6, <1>7, AtHand
  <2> QED
    BY <2>1 DEF Maps
<1>10. PICK next : next = [d EXCEPT !.columnMap = map]
  OBVIOUS
<1>11. Writes(k, next)
  BY <1>3, <1>7, <1>10 DEF Copier
<1>12. next \in Copier /\ next.at = "copy" /\ next.summary = d.summary /\ next.to = d.to /\ next.from = d.from /\ next.columnMap = map
  BY <1>1, <1>9, <1>10 DEF Copier
<1>13. PICK col \in SheetColumn : col = [of |-> d.to, form |-> d.from.columns[c], live |-> TRUE]
  BY <1>5, <1>6 DEF SheetColumn
<1>14. /\ columns' \in [Columns -> SheetColumn \union {Undrawn}] /\ Retains(columns, columns')
       /\ columns'[new] = col /\ columns'[new] # Undrawn /\ \A x \in Columns \ {new} : columns'[x] = columns[x]
  BY <1>2, <1>3, <1>13, DrawColumn DEF StockInv
<1>15. UNCHANGED <<summaries, sections, sheetRows, cells, scopes, cutOff, strays>>
  BY DEF CopyColumn
<1>16. AuthorFits(next)'
  <2>1. \A x \in DOMAIN map : x \in DOMAIN d.from.columns /\ columns'[map[x]] # Undrawn /\ columns'[map[x]].of = d.to
    <3> SUFFICES ASSUME NEW x \in DOMAIN map
                 PROVE  x \in DOMAIN d.from.columns /\ columns'[map[x]] # Undrawn /\ columns'[map[x]].of = d.to
      OBVIOUS
    <3>1. CASE x = c
      BY <1>4, <1>8, <1>13, <1>14, <3>1
    <3>2. CASE x # c
      <4>1. x \in DOMAIN d.columnMap /\ map[x] = d.columnMap[x] /\ d.columnMap[x] \in Columns
        BY <1>8, <3>2, AtHand
      <4>2. columns[d.columnMap[x]] # Undrawn /\ columns[d.columnMap[x]].of = d.to /\ x \in DOMAIN d.from.columns
        BY <1>1, <4>1 DEF AuthorFits
      <4> QED
        BY <1>2, <1>14, <4>1, <4>2
    <3> QED
      BY <3>1, <3>2
  <2>2. d.to # 0
    BY <1>5, KindsApart
  <2> QED
    BY <1>1, <1>5, <1>12, <1>15, <2>1, <2>2 DEF AuthorFits
<1>17. /\ sections' \in [Sections -> Section \union {Undrawn}] /\ Retains(sections, sections')
       /\ sheetRows' \in [SheetRows -> SheetRow \union {Undrawn}] /\ Retains(sheetRows, sheetRows')
  BY <1>15, NothingDrawn DEF StockInv, StockTyped
<1>18. \A x \in Columns : columns[x] # Undrawn \/ (columns'[x] # Undrawn => sections'[columns'[x].of] # Undrawn)
  BY <1>5, <1>13, <1>14, <1>15
<1>19. \A x \in Columns : columns[x].live => columns'[x].live
  BY <1>2, <1>14, KindsApart
<1>21. author'[k] = next /\ d.to # 0
  BY <1>5, <1>11, KindsApart DEF Writes, StockInv, StockTyped
<1> QED
  BY <1>1, <1>11, <1>12, <1>14, <1>15, <1>16, <1>17, <1>18, <1>19, <1>21, DrawsRows DEF AuthorKinds

\* What a request knows of the rows it has copied, after another one.
RowMapped(d, w, new) == [x \in DOMAIN d.rowMap \union {w} |-> IF x = w THEN new ELSE d.rowMap[x]]

\* A copied row is drawn in the new section; its cells follow, unless a column of theirs is gone.
LEMMA RowCopied ==
  ASSUME StockInv, NEW k \in Authors, CopyRow(k)
  PROVE  \E d \in Copier, new \in SheetRows, w \in SheetRows :
           /\ d = author[k] /\ sheetRows[new] = Undrawn /\ UNCHANGED <<summaries, sections, columns, scopes, cutOff, strays>>
           /\ w \in DOMAIN d.from.rows /\ w \notin DOMAIN d.rowMap /\ DOMAIN d.from.columns \subseteq DOMAIN d.columnMap
           /\ d.to \in Sections /\ d.from \in Sheets /\ sections[d.to] # Undrawn
           /\ sheetRows' = [sheetRows EXCEPT ![new] = [of |-> d.to, form |-> d.from.rows[w], live |-> TRUE]]
           /\ \/ Rests(k) /\ UNCHANGED cells
              \/ /\ \A p \in FreshCells(d, w, new) : columns[p[2]].live
                 /\ CopyCells(d, w, new)
                 /\ Writes(k, [d EXCEPT !.rowMap = RowMapped(d, w, new)])
<1> DEFINE new == NextId(sheetRows)
<1>1. PICK d \in Copier : d = author[k] /\ AuthorFits(d) /\ d.at = "copy"
  BY AtWork DEF CopyRow
<1>2. new \in SheetRows /\ sheetRows[new] = Undrawn /\ UNCHANGED <<summaries, sections, columns, scopes, cutOff, strays>>
  BY FreeIsNew DEF CopyRow, StockInv
<1>3. PICK w \in LeftRows(k) :
       /\ sheetRows' = [sheetRows EXCEPT ![new] = [of |-> d.to, form |-> d.from.rows[w], live |-> TRUE]]
       /\ IF \E p \in FreshCells(d, w, new) : ~columns[p[2]].live THEN Rests(k) /\ UNCHANGED cells
          ELSE /\ CopyCells(d, w, new)
               /\ Writes(k, [d EXCEPT !.rowMap = [x \in DOMAIN @ \union {w} |-> IF x = w THEN new ELSE @[x]]])
  BY <1>1 DEF CopyRow
<1> HIDE DEF new
<1>4. w \in DOMAIN d.from.rows /\ w \notin DOMAIN d.rowMap
  BY <1>1 DEF LeftRows
<1>5. d.to \in Sections /\ d.from \in Sheets /\ sections[d.to] # Undrawn
  BY <1>1, <1>4, AtHand, OnSheet DEF AuthorFits
<1>6. DOMAIN d.from.columns \subseteq DOMAIN d.columnMap
  BY <1>1 DEF CopyRow, LeftColumns
<1>7. w \in SheetRows
  BY <1>4, <1>5, OnSheet
<1>8. [d EXCEPT !.rowMap = [x \in DOMAIN @ \union {w} |-> IF x = w THEN new ELSE @[x]]] = [d EXCEPT !.rowMap = RowMapped(d, w, new)]
  BY DEF Copier, RowMapped
<1>9. CASE \E p \in FreshCells(d, w, new) : ~columns[p[2]].live
  <2>1. Rests(k) /\ UNCHANGED cells
    BY <1>3, <1>9, Zenon
  <2>2. sheetRows' = [sheetRows EXCEPT ![new] = [of |-> d.to, form |-> d.from.rows[w], live |-> TRUE]]
    BY <1>3, Zenon
  <2> QED
    BY <1>1, <1>2, <1>4, <1>5, <1>6, <1>7, <2>1, <2>2
<1>10. CASE ~\E p \in FreshCells(d, w, new) : ~columns[p[2]].live
  <2>1. CopyCells(d, w, new) /\ Writes(k, [d EXCEPT !.rowMap = [x \in DOMAIN @ \union {w} |-> IF x = w THEN new ELSE @[x]]])
    BY <1>3, <1>10, Zenon
  <2>2. Writes(k, [d EXCEPT !.rowMap = RowMapped(d, w, new)])
    BY <1>8, <2>1, Zenon
  <2>3. sheetRows' = [sheetRows EXCEPT ![new] = [of |-> d.to, form |-> d.from.rows[w], live |-> TRUE]]
    BY <1>3, Zenon
  <2>4. CopyCells(d, w, new)
    BY <2>1, Zenon
  <2> QED
    BY <1>1, <1>2, <1>4, <1>5, <1>6, <1>7, <1>10, <2>2, <2>3, <2>4
<1> QED
  BY <1>9, <1>10

\* The fresh cells stand in the new row below columns of the new section, and hold what theirs held.
LEMMA FreshCellsFit ==
  ASSUME StockInv, NEW d \in Copier, AuthorFits(d), d.from \in Sheets, NEW w, NEW new \in SheetRows,
         DOMAIN d.from.columns \subseteq DOMAIN d.columnMap
  PROVE  \A p \in FreshCells(d, w, new) :
           /\ p \in SheetRows \X Columns /\ p[1] = new /\ columns[p[2]].of = d.to
           /\ SourceOf(d, w, p) \in DOMAIN d.from.cells /\ d.from.cells[SourceOf(d, w, p)] \in Figures
<1> SUFFICES ASSUME NEW p \in FreshCells(d, w, new)
             PROVE  /\ p \in SheetRows \X Columns /\ p[1] = new /\ columns[p[2]].of = d.to
                    /\ SourceOf(d, w, p) \in DOMAIN d.from.cells /\ d.from.cells[SourceOf(d, w, p)] \in Figures
  OBVIOUS
<1>1. PICK q \in OldCells(d, w) : p = <<new, d.columnMap[q[2]]>>
  BY DEF FreshCells
<1>2. q[2] \in DOMAIN d.from.columns
  BY OnSheet DEF OldCells
<1>3. q[2] \in DOMAIN d.columnMap /\ d.columnMap[q[2]] \in Columns
  BY <1>2, AtHand
<1>4. columns[d.columnMap[q[2]]].of = d.to
  BY <1>3, AtHand DEF AuthorFits
<1>5. d.columnMap[q[2]] = p[2] /\ p[1] = new /\ p \in SheetRows \X Columns
  BY <1>1, <1>3
<1>6. SourceOf(d, w, p) \in OldCells(d, w)
  BY <1>5 DEF SourceOf
<1> QED
  BY <1>4, <1>5, <1>6, OnSheet DEF OldCells

\* A row is copied with its cells, or the copying ends there.
LEMMA CopyRowStep ==
  ASSUME StockInv, NEW k \in Authors, CopyRow(k)
  PROVE  /\ StockInv' /\ author[k].to # 0
         /\ author'[k] = Unbusy \/ (author'[k].summary = author[k].summary /\ author'[k].to = author[k].to)
<1>1. PICK d \in Copier, new \in SheetRows, w \in SheetRows :
           /\ d = author[k] /\ sheetRows[new] = Undrawn /\ UNCHANGED <<summaries, sections, columns, scopes, cutOff, strays>>
           /\ w \in DOMAIN d.from.rows /\ w \notin DOMAIN d.rowMap /\ DOMAIN d.from.columns \subseteq DOMAIN d.columnMap
           /\ d.to \in Sections /\ d.from \in Sheets /\ sections[d.to] # Undrawn
           /\ sheetRows' = [sheetRows EXCEPT ![new] = [of |-> d.to, form |-> d.from.rows[w], live |-> TRUE]]
           /\ \/ Rests(k) /\ UNCHANGED cells
              \/ /\ \A p \in FreshCells(d, w, new) : columns[p[2]].live
                 /\ CopyCells(d, w, new)
                 /\ Writes(k, [d EXCEPT !.rowMap = RowMapped(d, w, new)])
  BY RowCopied
<1>2. d.from.rows[w] \in Forms
  BY <1>1, OnSheet
<1>3. PICK row \in SheetRow : row = [of |-> d.to, form |-> d.from.rows[w], live |-> TRUE]
  BY <1>1, <1>2 DEF SheetRow
<1>4. row.of = d.to /\ row # Undrawn
  BY <1>3, KindsApart
<1>5. sheetRows' = [sheetRows EXCEPT ![new] = row]
  BY <1>1, <1>3, Zenon
<1>6. /\ sheetRows' \in [SheetRows -> SheetRow \union {Undrawn}] /\ Retains(sheetRows, sheetRows')
      /\ sheetRows'[new] = row /\ \A x \in SheetRows \ {new} : sheetRows'[x] = sheetRows[x]
  BY <1>1, <1>3, <1>5, DrawRow DEF StockInv
<1>7. d.at = "copy" /\ d = author[k] /\ UNCHANGED <<summaries, sections, columns, scopes, cutOff, strays>>
  BY <1>1, AtHand
<1>8. /\ sections' \in [Sections -> Section \union {Undrawn}] /\ Retains(sections, sections')
      /\ columns' \in [Columns -> SheetColumn \union {Undrawn}] /\ Retains(columns, columns')
  BY <1>7, NothingDrawn DEF StockInv, StockTyped
<1>9. \A x \in SheetRows : sheetRows[x] # Undrawn \/ (sheetRows'[x] # Undrawn => sections'[sheetRows'[x].of] # Undrawn)
  BY <1>1, <1>4, <1>6, <1>7
<1>10. \A x \in Columns : columns[x] # Undrawn \/ (columns'[x] # Undrawn => sections'[columns'[x].of] # Undrawn)
  BY <1>7
<1>110. d.to # 0
  BY <1>1, KindsApart
<1>111. \A next : Writes(k, next) => author'[k] = next
  BY DEF Writes, StockInv, StockTyped
<1>11. CASE Rests(k) /\ UNCHANGED cells
  <2>1. AuthorFits(Unbusy)' /\ Writes(k, Unbusy) /\ Unbusy \in AuthorKinds
    BY <1>11, Holds DEF AuthorFits, Rests
  <2>2. \A x \in Columns : columns[x].live => columns'[x].live
    BY <1>7
  <2> QED
    BY <1>6, <1>7, <1>8, <1>9, <1>10, <1>11, <1>110, <1>111, <2>1, <2>2, DrawsRows
<1>12. CASE /\ \A p \in FreshCells(d, w, new) : columns[p[2]].live
            /\ CopyCells(d, w, new)
            /\ Writes(k, [d EXCEPT !.rowMap = RowMapped(d, w, new)])
  <2>1. PICK map : map = RowMapped(d, w, new)
    OBVIOUS
  <2>2. map \in Maps(SheetRows, SheetRows)
    <3>1. map \in [DOMAIN d.rowMap \union {w} -> SheetRows] /\ DOMAIN d.rowMap \union {w} \subseteq SheetRows
      BY <2>1, AtHand DEF RowMapped
    <3> QED
      BY <3>1 DEF Maps
  <2>3. PICK next : next = [d EXCEPT !.rowMap = map]
    OBVIOUS
  <2>4. Writes(k, next)
    BY <1>12, <2>1, <2>3, Zenon
  <2>5. next \in Copier /\ next.at = "copy" /\ next.summary = d.summary /\ next.to = d.to /\ next.from = d.from /\ next.columnMap = d.columnMap
    BY <1>7, <2>2, <2>3 DEF Copier
  <2>6. AuthorFits(d)
    BY <1>7 DEF StockInv
  <2>7. AuthorFits(next)'
    BY <1>7, <2>5, <2>6 DEF AuthorFits
  <2>8. \A p \in FreshCells(d, w, new) :
           /\ p \in SheetRows \X Columns /\ p[1] = new /\ columns[p[2]].of = d.to
           /\ SourceOf(d, w, p) \in DOMAIN d.from.cells /\ d.from.cells[SourceOf(d, w, p)] \in Figures
    BY <1>1, <2>6, FreshCellsFit
  <2>9. DOMAIN cells' = (DOMAIN cells) \union FreshCells(d, w, new)
        /\ \A p \in DOMAIN cells' : cells'[p] = IF p \in FreshCells(d, w, new) THEN d.from.cells[SourceOf(d, w, p)] ELSE cells[p]
    BY <1>12 DEF CopyCells
  <2>10. DOMAIN cells' \subseteq SheetRows \X Columns
    BY <2>8, <2>9 DEF StockInv, StockTyped
  <2>11. \A p \in DOMAIN cells' :
           /\ cells'[p] \in Figures /\ columns'[p[2]].live
           /\ p \in DOMAIN cells \/ (sheetRows'[p[1]] # Undrawn /\ columns'[p[2]].of = sheetRows'[p[1]].of)
    <3> SUFFICES ASSUME NEW p \in DOMAIN cells'
                 PROVE  /\ cells'[p] \in Figures /\ columns'[p[2]].live
                        /\ p \in DOMAIN cells \/ (sheetRows'[p[1]] # Undrawn /\ columns'[p[2]].of = sheetRows'[p[1]].of)
      OBVIOUS
    <3>1. CASE p \in FreshCells(d, w, new)
      <4>1. p[1] = new /\ columns[p[2]].of = d.to /\ cells'[p] \in Figures
        BY <2>8, <2>9, <3>1
      <4> QED
        BY <1>4, <1>6, <1>7, <1>12, <2>8, <3>1, <4>1
    <3>2. CASE p \notin FreshCells(d, w, new)
      <4>1. p \in DOMAIN cells /\ cells'[p] = cells[p]
        BY <2>9, <3>2
      <4> QED
        BY <1>7, <4>1 DEF StockInv, StockTyped, Rooted
    <3> QED
      BY <3>1, <3>2
  <2> QED
    BY <1>6, <1>7, <1>8, <1>9, <1>10, <1>110, <1>111, <2>4, <2>5, <2>7, <2>10, <2>11, DrawsOnly DEF AuthorKinds
<1> QED
  BY <1>1, <1>11, <1>12

\* There is nothing at first.
LEMMA StockBegins == ASSUME StockInit PROVE StockInv
<1>1. author = [k \in Authors |-> Unbusy] /\ summaries = [r \in Summaries |-> Missing] /\ sections = [s \in Sections |-> Undrawn]
      /\ columns = [c \in Columns |-> Undrawn] /\ sheetRows = [w \in SheetRows |-> Undrawn]
      /\ cells = <<>> /\ scopes = [r \in Summaries |-> 0]
  BY DEF StockInit
<1>2. StockTyped
  <2>1. author \in [Authors -> AuthorKinds]
    BY <1>1, Holds
  <2>2. scopes \in [Summaries -> 0..MaxLists]
    BY <1>1, StockAssumption
  <2>3. DOMAIN cells = {}
    BY <1>1
  <2> QED
    BY <1>1, <2>1, <2>2, <2>3 DEF StockTyped
<1>3. CellsPlaced /\ Rooted
  BY <1>1 DEF CellsPlaced, Rooted
<1>4. ScopeKept
  BY <1>1 DEF ScopeKept, Filed
<1>5. \A k \in Authors : AuthorFits(author[k])
  BY <1>1, Holds
<1> QED
  BY <1>2, <1>3, <1>4, <1>5 DEF StockInv

\* Every step of a request keeps the invariant.
LEMMA StockStep == StockInv /\ [StockNext]_stockVars => StockInv'
<1>1. CASE StockInv /\ UNCHANGED stockVars
  <2>1. UNCHANGED <<summaries, sections, columns, sheetRows, cells, scopes, author, cutOff, strays>>
    BY <1>1 DEF stockVars
  <2>2. StockTyped' /\ CellsPlaced' /\ Rooted'
    BY <1>1, <2>1 DEF StockInv, StockTyped, CellsPlaced, Rooted
  <2>3. ScopeKept'
    BY <1>1, <2>1 DEF StockInv, ScopeKept, Filed
  <2>4. \A k \in Authors : AuthorFits(author[k])'
    BY <1>1, <2>1 DEF StockInv, AuthorFits
  <2> QED
    BY <2>2, <2>3, <2>4 DEF StockInv
<1>2. CASE StockInv /\ StockNext
  <2>1. PICK k \in Authors : Turning(k) \/ Filing(k) \/ AssertEditable(k) \/ Drawing(k) \/ Transcribing(k) \/ GiveUp(k)
    BY <1>2 DEF StockNext
  <2>2. Filing(k) => StockInv'
    BY <1>2, InsertSummaryStep, InsertCountriesStep, SaveSummaryStep, ClearCountriesStep, RemoveSummaryStep DEF Filing
  <2>3. Drawing(k) => StockInv'
    BY <1>2, SectionsStep, ColumnsStep, RowsDrawnStep, SaveSectionStep, AskingStep DEF Drawing
  <2>4. Transcribing(k) => StockInv'
    BY <1>2, CopySectionStep, CopyColumnStep, CopyRowStep, AskingStep DEF Transcribing
  <2> QED
    BY <1>2, <2>1, <2>2, <2>3, <2>4, TurningStep, AskingStep, GiveUpStep
<1> QED
  BY <1>1, <1>2

\* What the invariant says of types.
LEMMA StockTypesHold == ASSUME StockInv PROVE StockTypeOK
<1>1. \A k \in Authors : author[k].at \in
       {"idle", "insert", "countries", "update", "clear", "remove", "edit", "save", "save all", "copy"}
  <2>1. \A d \in AuthorKinds : d.at \in
          {"idle", "insert", "countries", "update", "clear", "remove", "edit", "save", "save all", "copy"}
    <3>1. \A d \in AuthorKinds : d = Unbusy \/ d \in Copier \/ d \in Inserter \/ d \in Lister \/ d \in Updater \/ d \in Editor
      BY DEF AuthorKinds
    <3>2. Unbusy.at = "idle" /\ (\A d \in Copier : d.at = "copy") /\ (\A d \in Inserter : d.at = "insert") /\ (\A d \in Lister : d.at = "countries")
          /\ (\A d \in Updater : d.at = "update") /\ (\A d \in Editor : d.at \in {"clear", "remove", "edit", "save", "save all"})
      BY DEF Unbusy, Copier, Inserter, Lister, Updater, Editor
    <3> QED
      BY <3>1, <3>2
  <2> QED
    BY <2>1 DEF StockInv, StockTyped
<1> QED
  BY <1>1 DEF StockInv, StockTyped, StockTypeOK

\* However requests about monthly stock reports race, a cell stands where a row meets a column of
\* its own section, unless a save has put it elsewhere itself, and a report has countries unless
\* the request that writes them is at it or was cut off.
THEOREM CellsStayPlaced == StockSpec => [](StockTypeOK /\ CellsPlaced /\ ScopeKept)
<1>1. StockInit => StockInv
  BY StockBegins
<1>2. StockInv => StockTypeOK /\ CellsPlaced /\ ScopeKept
  BY StockTypesHold DEF StockInv
<1> QED
  BY <1>1, <1>2, StockStep, PTL DEF StockSpec

\* What a request tests before it writes: that the report is a draft.
OnDrafts == {"update", "remove", "edit", "save"}

\* A request that neither files a report nor writes countries leaves which reports there are, and
\* the countries; what it goes on with has been found a draft.
LEMMA NoCountries ==
  ASSUME StockInv, NEW k \in Authors,
         Turning(k) \/ SaveSummary(k) \/ RemoveSummary(k) \/ AssertEditable(k) \/ Drawing(k) \/ EndCopy(k) \/ GiveUp(k)
  PROVE  /\ scopes' = scopes /\ \A r \in Summaries : summaries'[r] = Missing => summaries[r] = Missing
         /\ \E next :
              /\ Writes(k, next) /\ next.at # "countries" /\ (next.at = "copy" => next.to = 0)
              /\ next.at \in OnDrafts => next.summary \in Drafts /\ summaries' = summaries
<1>1. Unbusy.at = "idle" /\ "idle" \notin OnDrafts /\ "insert" \notin OnDrafts /\ "clear" \notin OnDrafts
      /\ "save all" \notin OnDrafts /\ "copy" \notin OnDrafts
  BY DEF Unbusy, OnDrafts
<1>2. CASE Turning(k)
  <2>1. UNCHANGED <<summaries, scopes>>
    BY <1>2 DEF Turning, FindMonth, LoadSummary, LoadToPublish, LoadToRemove
  <2>2. FindMonth(k) => \E next : Writes(k, next) /\ next.at = "insert"
    BY DEF FindMonth
  <2>3. LoadSummary(k) => \E next : Writes(k, next) /\ next.at = "update" /\ next.summary \in Drafts
    BY DEF LoadSummary
  <2>4. LoadToPublish(k) => \E next : Writes(k, next) /\ next.at = "update" /\ next.summary \in Drafts
    BY DEF LoadToPublish
  <2>5. LoadToRemove(k) => \E next : Writes(k, next) /\ next.at = "remove" /\ next.summary \in Drafts
    BY DEF LoadToRemove
  <2>6. \E next : Writes(k, next) /\ (next.at = "insert" \/ (next.at \in {"update", "remove"} /\ next.summary \in Drafts))
    BY <1>2, <2>2, <2>3, <2>4, <2>5 DEF Turning
  <2> QED
    BY <1>1, <2>1, <2>6
<1>3. CASE SaveSummary(k)
  <2>1. scopes' = scopes
    BY <1>3, SummarySaved
  <2>2. CASE Rests(k) /\ UNCHANGED summaries
    BY <1>1, <2>1, <2>2 DEF Rests
  <2>3. CASE ~(Rests(k) /\ UNCHANGED summaries)
    <3>1. PICK r \in Summaries, saved \in Summary :
                 /\ r = author[k].summary /\ summaries[r] # Missing /\ saved.live = summaries[r].live
                 /\ summaries' = [summaries EXCEPT ![r] = saved]
                 /\ Rests(k) \/ Writes(k, [at |-> "clear", summary |-> r])
      BY <1>3, <2>3, SummarySaved
    <3>2. \A q \in Summaries : summaries'[q] = Missing => summaries[q] = Missing
      BY <3>1, KindsApart DEF StockInv, StockTyped
    <3>3. \E next : Writes(k, next) /\ next.at \in {"idle", "clear"} /\ next.at \notin OnDrafts
      <4>1. PICK clear : clear = [at |-> "clear", summary |-> r]
        OBVIOUS
      <4>2. clear.at = "clear" /\ (Writes(k, Unbusy) \/ Writes(k, clear))
        BY <3>1, <4>1 DEF Rests
      <4> QED
        BY <1>1, <4>2
    <3> QED
      BY <1>1, <2>1, <3>2, <3>3
  <2> QED
    BY <2>2, <2>3
<1>4. CASE RemoveSummary(k)
  <2>1. author[k].at = "remove" /\ scopes' = scopes /\ Writes(k, Unbusy)
    BY <1>4 DEF RemoveSummary, Rests
  <2>2. PICK r \in Summaries : r = author[k].summary /\ summaries[r] # Missing
    BY <2>1, AtWork
  <2>3. PICK stored \in Summary : stored = summaries[r]
    BY <2>2 DEF StockInv, StockTyped
  <2>4. PICK gone : gone = [stored EXCEPT !.live = FALSE]
    OBVIOUS
  <2>5. gone \in Summary /\ gone # Missing
    BY <2>4, KindsApart DEF Summary
  <2>6. summaries' = [summaries EXCEPT ![r] = gone]
    BY <1>4, <2>2, <2>3, <2>4 DEF RemoveSummary, StockInv, StockTyped
  <2>7. \A q \in Summaries : summaries'[q] = Missing => summaries[q] = Missing
    BY <2>5, <2>6 DEF StockInv, StockTyped
  <2> QED
    BY <1>1, <2>1, <2>7
<1>5. CASE AssertEditable(k)
  <2>1. UNCHANGED <<summaries, scopes>>
    BY <1>5 DEF AssertEditable
  <2>2. CASE \E r \in Drafts : Writes(k, [at |-> "edit", summary |-> r])
    BY <2>1, <2>2
  <2>3. CASE Rests(k)
    BY <1>1, <2>1, <2>3 DEF Rests
  <2>5. CASE author[k].at = "save all" /\ author[k].summary \notin Drafts
    BY <1>1, <1>5, <2>1, <2>2, <2>3, <2>5 DEF AssertEditable
  <2>4. CASE /\ author[k].at = "save all" /\ Writes(k, [author[k] EXCEPT !.at = "save"])
             /\ author[k].summary \in Drafts
    <3>1. PICK d \in Editor : d = author[k]
      BY <2>4, AtWork
    <3>2. PICK e : e = [d EXCEPT !.at = "save"]
      OBVIOUS
    <3>3. e.at = "save" /\ e.summary = d.summary
      BY <3>2 DEF Editor
    <3> QED
      BY <2>1, <2>4, <3>1, <3>2, <3>3
  <2> QED
    BY <1>5, <2>2, <2>3, <2>4, <2>5 DEF AssertEditable
<1>6. CASE Drawing(k) \/ EndCopy(k)
  <2>1. CASE SaveSection(k)
    <3>1. UNCHANGED <<summaries, scopes>> /\ (Rests(k) \/ Writes(k, [at |-> "save all", summary |-> author[k].summary]))
      BY <2>1, SaveDoes
    <3>2. PICK all : all = [at |-> "save all", summary |-> author[k].summary]
      OBVIOUS
    <3>3. all.at = "save all"
      BY <3>2
    <3>4. Writes(k, Unbusy) \/ Writes(k, all)
      BY <3>1, <3>2, Zenon DEF Rests
    <3> QED
      BY <1>1, <3>1, <3>3, <3>4
  <2>2. CASE Duplicate(k)
    <3>1. UNCHANGED <<summaries, scopes>> /\ \E s \in Edited(k) : Writes(k, Copying(author[k].summary, {s}))
      BY <2>2 DEF Duplicate
    <3>2. \A s : Copying(author[k].summary, {s}).at = "copy" /\ Copying(author[k].summary, {s}).to = 0
      BY DEF Copying
    <3>3. \E next : Writes(k, next) /\ next.at = "copy" /\ next.to = 0
      BY <3>1, <3>2
    <3>4. summaries' = summaries /\ scopes' = scopes
      BY <3>1
    <3> QED
      BY <1>1, <3>3, <3>4
  <2>3. CASE ~SaveSection(k) /\ ~Duplicate(k)
    <3>1. UNCHANGED <<summaries, scopes>> /\ Rests(k)
      BY <1>6, <2>3 DEF Drawing, AddSection, ChangeSection, AddColumn, ChangeColumn, AddRow, ChangeRow, EndCopy
    <3>2. Writes(k, Unbusy) /\ Unbusy.at # "countries" /\ Unbusy.at # "copy" /\ Unbusy.at \notin OnDrafts
      BY <1>1, <3>1 DEF Rests
    <3>3. summaries' = summaries /\ scopes' = scopes
      BY <3>1
    <3> QED
      BY <3>2, <3>3, Zenon
  <2> QED
    BY <2>1, <2>2, <2>3
<1>7. CASE GiveUp(k)
  BY <1>1, <1>7 DEF GiveUp, Rests
<1> QED
  BY <1>2, <1>3, <1>4, <1>5, <1>6, <1>7

\* One request works, the others rest; a report has its countries once, and none when the request
\* that writes them is at it.
OneAtWork(k) == \A j \in Authors \ {k} : author[j] = Unbusy
ListedOnce(k) ==
  /\ \A r \in Summaries : scopes[r] <= 1 /\ (summaries[r] = Missing => scopes[r] = 0)
  /\ author[k].at = "countries" => scopes[author[k].summary] = 0
AloneInv(k) == StockInv /\ OneAtWork(k) /\ ListedOnce(k)

\* What a request may do.
Acts(k) == Turning(k) \/ Filing(k) \/ AssertEditable(k) \/ Drawing(k) \/ Transcribing(k) \/ GiveUp(k)

\* When a request that is alone goes on, the others rest.
LEMMA StaysAlone ==
  ASSUME StockInv, NEW k \in Authors, OneAtWork(k), NEW next, Writes(k, next)
  PROVE  OneAtWork(k)' /\ author'[k] = next
BY DEF Writes, OneAtWork, StockInv, StockTyped

\* A section, a column or a row is copied without a look at reports and countries.
LEMMA CopyingWrites ==
  ASSUME StockInv, NEW k \in Authors, CopySection(k) \/ CopyColumn(k) \/ CopyRow(k)
  PROVE  /\ UNCHANGED <<summaries, scopes>>
         /\ \E next : Writes(k, next) /\ next.at \in {"copy", "idle"}
<1>1. author[k].at = "copy" /\ UNCHANGED <<summaries, scopes>>
  BY DEF CopySection, CopyColumn, CopyRow, SectionCopied
<1>2. PICK d \in Copier : d = author[k]
  BY <1>1, AtWork
<1>3. CASE CopySection(k)
  <2>1. PICK s \in DOMAIN d.todo :
          Writes(k, [d EXCEPT !.from = d.todo[s], !.to = NextId(sections), !.columnMap = <<>>, !.rowMap = <<>>,
                              !.todo = Restrict(@, DOMAIN @ \ {s})])
    BY <1>2, <1>3 DEF CopySection
  <2>2. PICK next : next = [d EXCEPT !.from = d.todo[s], !.to = NextId(sections), !.columnMap = <<>>, !.rowMap = <<>>,
                              !.todo = Restrict(@, DOMAIN @ \ {s})]
    OBVIOUS
  <2>3. next.at = "copy"
    BY <2>2 DEF Copier
  <2>4. Writes(k, next)
    BY <2>1, <2>2, Zenon
  <2> QED
    BY <1>1, <2>3, <2>4
<1>4. CASE CopyColumn(k)
  <2>1. PICK c \in LeftColumns(k) :
       Writes(k, [d EXCEPT !.columnMap = [x \in DOMAIN @ \union {c} |-> IF x = c THEN NextId(columns) ELSE @[x]]])
    BY <1>2, <1>4 DEF CopyColumn
  <2>2. PICK next : next = [d EXCEPT !.columnMap = [x \in DOMAIN @ \union {c} |-> IF x = c THEN NextId(columns) ELSE @[x]]]
    OBVIOUS
  <2>3. next.at = "copy"
    BY <2>2 DEF Copier
  <2>4. Writes(k, next)
    BY <2>1, <2>2, Zenon
  <2> QED
    BY <1>1, <2>3, <2>4
<1>5. CASE CopyRow(k)
  <2>1. PICK e \in Copier, new \in SheetRows, w \in SheetRows : Rests(k) \/ Writes(k, [e EXCEPT !.rowMap = RowMapped(e, w, new)])
    BY <1>5, RowCopied, Zenon
  <2>2. PICK next : next = [e EXCEPT !.rowMap = RowMapped(e, w, new)]
    OBVIOUS
  <2>3. next.at = "copy" /\ Unbusy.at = "idle"
    BY <2>2 DEF Copier, Unbusy
  <2>4. Writes(k, next) \/ Writes(k, Unbusy)
    BY <2>1, <2>2, Zenon DEF Rests
  <2> QED
    BY <1>1, <2>3, <2>4
<1> QED
  BY <1>3, <1>4, <1>5

\* A report filed is a new one, and gets countries next; what they are removed from has none.
LEMMA AloneStep == ASSUME NEW k \in Authors, AloneInv(k), Acts(k) PROVE AloneInv(k)'
<1>1. StockInv /\ OneAtWork(k) /\ ListedOnce(k)
  BY DEF AloneInv
<1>2. StockInv'
  BY <1>1, StockStep DEF StockNext, Acts
<1>3. ASSUME NEW next, Writes(k, next), next.at # "countries", scopes' = scopes,
             \A r \in Summaries : summaries'[r] = Missing => summaries[r] = Missing
      PROVE  AloneInv(k)'
  <2>1. OneAtWork(k)' /\ author'[k] = next
    BY <1>1, <1>3, StaysAlone
  <2>2. ListedOnce(k)'
    BY <1>1, <1>3, <2>1 DEF ListedOnce
  <2> QED
    BY <1>2, <2>1, <2>2 DEF AloneInv
<1>4. CASE InsertSummary(k)
  <2>1. scopes' = scopes /\ Unbusy.at = "idle"
    BY <1>4 DEF InsertSummary, Unbusy
  <2>2. CASE Rests(k) /\ UNCHANGED summaries
    BY <1>3, <2>1, <2>2 DEF Rests
  <2>3. CASE ~(Rests(k) /\ UNCHANGED summaries)
    <3> DEFINE new == NextId(summaries)
    <3>1. PICK row : summaries' = [summaries EXCEPT ![new] = row]
      BY <1>4, <2>3 DEF InsertSummary
    <3>2. PICK next : next = [at |-> "countries", summary |-> new, source |-> author[k].source]
      OBVIOUS
    <3>3. Writes(k, next) /\ new \in Summaries /\ summaries[new] = Missing
      BY <1>1, <1>4, <2>3, <3>2, FreeIsNew DEF InsertSummary, StockInv
    <3> HIDE DEF new
    <3>4. OneAtWork(k)' /\ author'[k] = next /\ next.summary = new
      BY <1>1, <3>2, <3>3, StaysAlone
    <3>5. \A r \in Summaries \ {new} : summaries'[r] = summaries[r]
      BY <1>1, <3>1 DEF StockInv, StockTyped
    <3>6. ListedOnce(k)'
      BY <1>1, <2>1, <3>3, <3>4, <3>5 DEF ListedOnce
    <3> QED
      BY <1>2, <3>4, <3>6 DEF AloneInv
  <2> QED
    BY <2>2, <2>3
<1>5. CASE InsertCountries(k)
  <2> DEFINE r == author[k].summary
  <2>1. author[k].at = "countries" /\ scopes' = [scopes EXCEPT ![r] = @ + 1] /\ summaries' = summaries
    BY <1>5 DEF InsertCountries
  <2>2. r \in Summaries /\ summaries[r] # Missing
    BY <1>1, <2>1, AtWork
  <2>3. PICK next : Writes(k, next) /\ next.at # "countries"
    <3>1. Unbusy.at = "idle" /\ \A copied : Copying(r, copied).at = "copy"
      BY DEF Unbusy, Copying
    <3>2. Writes(k, Unbusy) \/ \E copied : Writes(k, Copying(r, copied))
      BY <1>5 DEF InsertCountries, Rests
    <3> QED
      BY <3>1, <3>2
  <2>4. OneAtWork(k)' /\ author'[k] = next
    BY <1>1, <2>3, StaysAlone
  <2> HIDE DEF r
  <2>5. scopes'[r] = scopes[r] + 1 /\ \A q \in Summaries \ {r} : scopes'[q] = scopes[q]
    BY <1>1, <2>1, <2>2 DEF StockInv, StockTyped
  <2>6. scopes[r] = 0
    BY <1>1, <2>1 DEF ListedOnce, r
  <2>7. ListedOnce(k)'
    BY <1>1, <2>1, <2>2, <2>3, <2>4, <2>5, <2>6 DEF ListedOnce
  <2> QED
    BY <1>2, <2>4, <2>7 DEF AloneInv
<1>6. CASE ClearCountries(k)
  <2>1. author[k].at = "clear" /\ scopes' = [scopes EXCEPT ![author[k].summary] = 0] /\ summaries' = summaries
    BY <1>6 DEF ClearCountries
  <2>2. PICK r \in Summaries : r = author[k].summary /\ summaries[r] # Missing
    BY <1>1, <2>1, AtWork
  <2>3. PICK next : next = [at |-> "countries", summary |-> r, source |-> 0]
    OBVIOUS
  <2>4. Writes(k, next) /\ next.summary = r
    BY <1>6, <2>2, <2>3 DEF ClearCountries
  <2>5. OneAtWork(k)' /\ author'[k] = next
    BY <1>1, <2>4, StaysAlone
  <2>6. scopes'[r] = 0 /\ \A q \in Summaries \ {r} : scopes'[q] = scopes[q]
    BY <1>1, <2>1, <2>2 DEF StockInv, StockTyped
  <2>7. ListedOnce(k)'
    BY <1>1, <2>1, <2>4, <2>5, <2>6 DEF ListedOnce
  <2> QED
    BY <1>2, <2>5, <2>7 DEF AloneInv
<1>7. CASE CopySection(k) \/ CopyColumn(k) \/ CopyRow(k)
  BY <1>1, <1>3, <1>7, CopyingWrites
<1>8. CASE Turning(k) \/ SaveSummary(k) \/ RemoveSummary(k) \/ AssertEditable(k) \/ Drawing(k) \/ EndCopy(k) \/ GiveUp(k)
  BY <1>1, <1>3, <1>8, NoCountries
<1> QED
  BY <1>4, <1>5, <1>6, <1>7, <1>8 DEF Acts, Filing, Transcribing

\* What a request has copied of a section: its new columns and rows are what the maps lead to, and
\* the cells of the copied rows stand where they stood, once every column is copied.
CopiedSoFar(d) ==
  d.at = "copy" /\ d.to # 0 =>
    /\ ColumnsOf(d.to) = Range(d.columnMap) /\ RowsOf(d.to) = Range(d.rowMap)
    /\ \A b, c \in DOMAIN d.columnMap : d.columnMap[b] = d.columnMap[c] => b = c
    /\ \A v, w \in DOMAIN d.rowMap : d.rowMap[v] = d.rowMap[w] => v = w
    /\ \A c \in DOMAIN d.columnMap : columns[d.columnMap[c]].form = d.from.columns[c]
    /\ \A w \in DOMAIN d.rowMap : w \in DOMAIN d.from.rows /\ sheetRows[d.rowMap[w]].form = d.from.rows[w]
    /\ DOMAIN d.rowMap # {} => DOMAIN d.from.columns \subseteq DOMAIN d.columnMap
    /\ \A w \in DOMAIN d.rowMap, c \in DOMAIN d.columnMap :
         /\ <<w, c>> \in DOMAIN d.from.cells <=> <<d.rowMap[w], d.columnMap[c]>> \in DOMAIN cells
         /\ <<w, c>> \in DOMAIN d.from.cells => cells[<<d.rowMap[w], d.columnMap[c]>>] = d.from.cells[<<w, c>>]

\* A section that was not drawn has no column and no row, and a row that was not drawn no cell.
LEMMA UndrawnIsBare ==
  ASSUME StockInv
  PROVE  /\ \A s \in Sections : sections[s] = Undrawn => ColumnsOf(s) = {} /\ RowsOf(s) = {}
         /\ \A p \in DOMAIN cells : sheetRows[p[1]] # Undrawn
<1>1. ASSUME NEW s \in Sections, sections[s] = Undrawn PROVE ColumnsOf(s) = {} /\ RowsOf(s) = {}
  BY <1>1, KindsApart DEF StockInv, Rooted, ColumnsOf, RowsOf
<1>2. ASSUME NEW p \in DOMAIN cells PROVE sheetRows[p[1]] # Undrawn
  BY DEF StockInv, Rooted
<1> QED
  BY <1>1, <1>2

\* A new section is a copy of nothing yet.
LEMMA CopySectionCopies ==
  ASSUME StockInv, NEW k \in Authors, CopySection(k) PROVE CopiedSoFar(author[k])'
<1>0. PICK new : new = NextId(sections)
  OBVIOUS
<1>1. PICK d \in Copier : d = author[k] /\ d.at = "copy"
  BY AtWork DEF CopySection, SectionCopied
<1>2. new \in Sections /\ sections[new] = Undrawn
  BY <1>0, FreeIsNew DEF CopySection, StockInv
<1>3. PICK s \in DOMAIN d.todo :
        Writes(k, [d EXCEPT !.from = d.todo[s], !.to = new, !.columnMap = <<>>, !.rowMap = <<>>,
                            !.todo = Restrict(@, DOMAIN @ \ {s})])
  BY <1>0, <1>1 DEF CopySection
<1>4. PICK next : next = [d EXCEPT !.from = d.todo[s], !.to = new, !.columnMap = <<>>, !.rowMap = <<>>,
                            !.todo = Restrict(@, DOMAIN @ \ {s})]
  OBVIOUS
<1>5. next.to = new /\ next.columnMap = <<>> /\ next.rowMap = <<>>
  BY <1>4 DEF Copier
<1>6. author'[k] = next
  <2>1. Writes(k, next)
    BY <1>3, <1>4, Zenon
  <2> QED
    BY <2>1 DEF Writes, StockInv, StockTyped
<1>7. UNCHANGED <<columns, sheetRows>>
  BY DEF CopySection
<1>8. ColumnsOf(new)' = {} /\ RowsOf(new)' = {}
  BY <1>2, <1>7, UndrawnIsBare DEF ColumnsOf, RowsOf
<1>9. DOMAIN next.columnMap = {} /\ DOMAIN next.rowMap = {} /\ Range(next.columnMap) = {} /\ Range(next.rowMap) = {}
  BY <1>5 DEF Range
<1>10. CopiedSoFar(next)'
  BY <1>5, <1>8, <1>9 DEF CopiedSoFar
<1> QED
  BY <1>6, <1>10

\* A column is copied before any row is.
LEMMA CopyColumnCopies ==
  ASSUME StockInv, NEW k \in Authors, CopyColumn(k), CopiedSoFar(author[k]) PROVE CopiedSoFar(author[k])'
<1> DEFINE new == NextId(columns)
<1>1. PICK d \in Copier : d = author[k] /\ d.at = "copy" /\ AuthorFits(d) /\ CopiedSoFar(d)
  BY AtWork DEF CopyColumn
<1>2. new \in Columns /\ columns[new] = Undrawn
  BY FreeIsNew DEF CopyColumn, StockInv
<1>3. PICK c \in LeftColumns(k) :
       /\ columns' = [columns EXCEPT ![new] = [of |-> d.to, form |-> d.from.columns[c], live |-> TRUE]]
       /\ Writes(k, [d EXCEPT !.columnMap = [x \in DOMAIN @ \union {c} |-> IF x = c THEN new ELSE @[x]]])
  BY <1>1 DEF CopyColumn
<1> HIDE DEF new
<1>4. c \in DOMAIN d.from.columns /\ c \notin DOMAIN d.columnMap
  BY <1>1 DEF LeftColumns
<1>5. d.to \in Sections /\ d.from \in Sheets /\ d.to # 0
  BY <1>1, <1>4, AtHand, OnSheet, KindsApart DEF AuthorFits
<1>6. PICK map : map = [x \in DOMAIN d.columnMap \union {c} |-> IF x = c THEN new ELSE d.columnMap[x]]
  OBVIOUS
<1>7. DOMAIN map = DOMAIN d.columnMap \union {c} /\ map[c] = new /\ \A x \in DOMAIN d.columnMap : map[x] = d.columnMap[x]
  BY <1>4, <1>6
<1>8. PICK next : next = [d EXCEPT !.columnMap = map]
  OBVIOUS
<1>9. next.at = "copy" /\ next.to = d.to /\ next.from = d.from /\ next.columnMap = map /\ next.rowMap = d.rowMap
  BY <1>1, <1>8 DEF Copier
<1>10. author'[k] = next
  <2>1. Writes(k, next)
    BY <1>3, <1>6, <1>8 DEF Copier
  <2> QED
    BY <2>1 DEF Writes, StockInv, StockTyped
<1>11. PICK col : col = [of |-> d.to, form |-> d.from.columns[c], live |-> TRUE]
  OBVIOUS
<1>12. columns'[new] = col /\ \A x \in Columns \ {new} : columns'[x] = columns[x]
  BY <1>2, <1>3, <1>11 DEF StockInv, StockTyped
<1>13. col.of = d.to /\ col.live /\ col.form = d.from.columns[c]
  BY <1>11
<1>14. UNCHANGED <<sheetRows, cells>>
  BY DEF CopyColumn
<1>15. \A x \in DOMAIN d.columnMap : d.columnMap[x] \in Columns /\ d.columnMap[x] # new
  BY <1>1, <1>2, AtHand DEF AuthorFits
<1>16. DOMAIN d.rowMap = {}
  BY <1>1, <1>4, <1>5 DEF CopiedSoFar
<1>17. ColumnsOf(d.to)' = ColumnsOf(d.to) \union {new}
  BY <1>2, <1>12, <1>13, KindsApart DEF ColumnsOf
<1>18. Range(map) = Range(d.columnMap) \union {new}
  BY <1>7 DEF Range
<1>19. RowsOf(d.to)' = RowsOf(d.to)
  BY <1>14 DEF RowsOf
<1>20. ColumnsOf(d.to) = Range(d.columnMap) /\ RowsOf(d.to) = Range(d.rowMap)
  BY <1>1, <1>5 DEF CopiedSoFar
<1>21. \A a, b \in DOMAIN map : map[a] = map[b] => a = b
  BY <1>1, <1>5, <1>7, <1>15 DEF CopiedSoFar
<1>22. \A x \in DOMAIN map : columns'[map[x]].form = d.from.columns[x]
  BY <1>1, <1>5, <1>7, <1>12, <1>13, <1>15 DEF CopiedSoFar
<1>23. CopiedSoFar(next)'
  BY <1>9, <1>16, <1>17, <1>18, <1>19, <1>20, <1>21, <1>22 DEF CopiedSoFar
<1> QED
  BY <1>10, <1>23

\* The fresh cells of a row are the old ones, each below the copy of its column.
LEMMA FreshAreCopies ==
  ASSUME NEW d \in Copier, d.from \in Sheets, NEW w, NEW new, DOMAIN d.from.columns \subseteq DOMAIN d.columnMap,
         \A b, c \in DOMAIN d.columnMap : d.columnMap[b] = d.columnMap[c] => b = c
  PROVE  \A c \in DOMAIN d.columnMap :
           /\ <<new, d.columnMap[c]>> \in FreshCells(d, w, new) <=> <<w, c>> \in DOMAIN d.from.cells
           /\ <<w, c>> \in DOMAIN d.from.cells => SourceOf(d, w, <<new, d.columnMap[c]>>) = <<w, c>>
<1> SUFFICES ASSUME NEW c \in DOMAIN d.columnMap
             PROVE  /\ <<new, d.columnMap[c]>> \in FreshCells(d, w, new) <=> <<w, c>> \in DOMAIN d.from.cells
                    /\ <<w, c>> \in DOMAIN d.from.cells => SourceOf(d, w, <<new, d.columnMap[c]>>) = <<w, c>>
  OBVIOUS
<1>1. \A q \in OldCells(d, w) : q \in DOMAIN d.from.cells /\ q = <<w, q[2]>> /\ q[2] \in DOMAIN d.columnMap
  <2>1. ASSUME NEW q \in OldCells(d, w) PROVE q \in DOMAIN d.from.cells /\ q = <<w, q[2]>> /\ q[2] \in DOMAIN d.columnMap
    <3>1. q \in DOMAIN d.from.cells /\ q[1] = w
      BY DEF OldCells
    <3>2. q \in SheetRows \X Columns /\ q[2] \in DOMAIN d.from.columns
      BY <3>1, OnSheet
    <3> QED
      BY <3>1, <3>2
  <2> QED
    BY <2>1
<1>2. <<w, c>> \in DOMAIN d.from.cells => <<w, c>> \in OldCells(d, w)
  BY DEF OldCells
<1>3. <<new, d.columnMap[c]>> \in FreshCells(d, w, new) => <<w, c>> \in DOMAIN d.from.cells
  <2> SUFFICES ASSUME NEW q \in OldCells(d, w), <<new, d.columnMap[c]>> = <<new, d.columnMap[q[2]]>>
               PROVE  <<w, c>> \in DOMAIN d.from.cells
    BY DEF FreshCells
  <2>1. d.columnMap[c] = d.columnMap[q[2]]
    OBVIOUS
  <2>2. c = q[2]
    BY <1>1, <2>1
  <2> QED
    BY <1>1, <2>2
<1>4. ASSUME <<w, c>> \in DOMAIN d.from.cells
      PROVE  <<new, d.columnMap[c]>> \in FreshCells(d, w, new) /\ SourceOf(d, w, <<new, d.columnMap[c]>>) = <<w, c>>
  <2>1. <<w, c>> \in OldCells(d, w) /\ <<w, c>>[2] = c
    BY <1>2, <1>4
  <2>2. <<new, d.columnMap[c]>> \in FreshCells(d, w, new)
    BY <2>1 DEF FreshCells
  <2>3. <<new, d.columnMap[c]>>[2] = d.columnMap[c]
    OBVIOUS
  <2>4. \A q \in OldCells(d, w) : d.columnMap[q[2]] = d.columnMap[c] => q = <<w, c>>
    BY <1>1
  <2>5. SourceOf(d, w, <<new, d.columnMap[c]>>) = <<w, c>>
    BY <2>1, <2>3, <2>4 DEF SourceOf
  <2> QED
    BY <2>2, <2>5
<1> QED
  BY <1>3, <1>4

\* A row is copied with all its cells, and none of another row changes.
LEMMA CopyRowCopies ==
  ASSUME StockInv, NEW k \in Authors, CopyRow(k), CopiedSoFar(author[k]) PROVE CopiedSoFar(author[k])'
<1>1. PICK d \in Copier, new \in SheetRows, w \in SheetRows :
           /\ d = author[k] /\ sheetRows[new] = Undrawn /\ UNCHANGED <<summaries, sections, columns, scopes, cutOff, strays>>
           /\ w \in DOMAIN d.from.rows /\ w \notin DOMAIN d.rowMap /\ DOMAIN d.from.columns \subseteq DOMAIN d.columnMap
           /\ d.to \in Sections /\ d.from \in Sheets /\ sections[d.to] # Undrawn
           /\ sheetRows' = [sheetRows EXCEPT ![new] = [of |-> d.to, form |-> d.from.rows[w], live |-> TRUE]]
           /\ \/ Rests(k) /\ UNCHANGED cells
              \/ /\ \A p \in FreshCells(d, w, new) : columns[p[2]].live
                 /\ CopyCells(d, w, new)
                 /\ Writes(k, [d EXCEPT !.rowMap = RowMapped(d, w, new)])
  BY RowCopied
<1>2. CASE Rests(k)
  <2>1. author'[k] = Unbusy /\ Unbusy.at = "idle"
    BY <1>2 DEF Rests, Writes, StockInv, StockTyped, Unbusy
  <2> QED
    BY <2>1 DEF CopiedSoFar
<1>3. CASE CopyCells(d, w, new) /\ Writes(k, [d EXCEPT !.rowMap = RowMapped(d, w, new)])
  <2>1. d.at = "copy" /\ d.to # 0 /\ AuthorFits(d) /\ CopiedSoFar(d)
    <3>1. d.at = "copy" /\ d.to # 0
      BY <1>1, AtHand, KindsApart
    <3>2. AuthorFits(d)
      BY <1>1, AtWork
    <3>3. CopiedSoFar(d)
      BY <1>1
    <3> QED
      BY <3>1, <3>2, <3>3
  <2>2. PICK map : map = RowMapped(d, w, new)
    OBVIOUS
  <2>3. DOMAIN map = DOMAIN d.rowMap \union {w} /\ map[w] = new /\ \A x \in DOMAIN d.rowMap : map[x] = d.rowMap[x]
    BY <1>1, <2>2 DEF RowMapped
  <2>4. PICK next : next = [d EXCEPT !.rowMap = map]
    OBVIOUS
  <2>5. next.at = "copy" /\ next.to = d.to /\ next.from = d.from /\ next.columnMap = d.columnMap /\ next.rowMap = map
    BY <2>1, <2>4 DEF Copier
  <2>6. author'[k] = next
    <3>1. Writes(k, next)
      BY <1>3, <2>2, <2>4, Zenon
    <3> QED
      BY <3>1 DEF Writes, StockInv, StockTyped
  <2>7. PICK row : row = [of |-> d.to, form |-> d.from.rows[w], live |-> TRUE]
    OBVIOUS
  <2>8. row.of = d.to /\ row.live /\ row.form = d.from.rows[w]
    BY <2>7
  <2>9. sheetRows' = [sheetRows EXCEPT ![new] = row]
    BY <1>1, <2>7, Zenon
  <2>10. sheetRows'[new] = row /\ \A x \in SheetRows \ {new} : sheetRows'[x] = sheetRows[x]
    BY <1>1, <2>9 DEF StockInv, StockTyped
  <2>11. DOMAIN cells' = (DOMAIN cells) \union FreshCells(d, w, new)
         /\ \A p \in DOMAIN cells' : cells'[p] = IF p \in FreshCells(d, w, new) THEN d.from.cells[SourceOf(d, w, p)] ELSE cells[p]
    BY <1>3 DEF CopyCells
  <2>12. \A p \in FreshCells(d, w, new) : p[1] = new
    BY DEF FreshCells
  <2>13. ColumnsOf(d.to)' = ColumnsOf(d.to) /\ columns' = columns
    BY <1>1 DEF ColumnsOf
  <2>14. ColumnsOf(d.to) = Range(d.columnMap) /\ RowsOf(d.to) = Range(d.rowMap)
    BY <2>1 DEF CopiedSoFar
  <2>15. RowsOf(d.to)' = RowsOf(d.to) \union {new}
    <3>1. sheetRows[new] = Undrawn
      BY <1>1, Zenon
    <3> QED
      BY <2>8, <2>10, <3>1, KindsApart DEF RowsOf
  <2>16. Range(map) = Range(d.rowMap) \union {new}
    BY <2>3 DEF Range
  <2>17. \A x \in DOMAIN d.rowMap : d.rowMap[x] \in SheetRows /\ d.rowMap[x] # new
    <3>1. new \notin RowsOf(d.to)
      BY <1>1, KindsApart DEF RowsOf
    <3>2. \A x \in DOMAIN d.rowMap : d.rowMap[x] \in Range(d.rowMap)
      BY DEF Range
    <3> QED
      BY <2>14, <3>1, <3>2, AtHand
  <2>18. \A v, x \in DOMAIN map : map[v] = map[x] => v = x
    BY <2>1, <2>3, <2>17 DEF CopiedSoFar
  <2>19. \A x \in DOMAIN map : x \in DOMAIN d.from.rows /\ sheetRows'[map[x]].form = d.from.rows[x]
    BY <1>1, <2>1, <2>3, <2>8, <2>10, <2>17 DEF CopiedSoFar
  <2>20. \A b, c \in DOMAIN d.columnMap : d.columnMap[b] = d.columnMap[c] => b = c
    BY <2>1 DEF CopiedSoFar
  <2>21. ASSUME NEW x \in DOMAIN map, NEW c \in DOMAIN d.columnMap
         PROVE  /\ <<x, c>> \in DOMAIN d.from.cells <=> <<map[x], d.columnMap[c]>> \in DOMAIN cells'
                /\ <<x, c>> \in DOMAIN d.from.cells => cells'[<<map[x], d.columnMap[c]>>] = d.from.cells[<<x, c>>]
    <3>1. CASE x = w
      <4>1. map[x] = new
        BY <2>3, <3>1
      <4>2. <<new, d.columnMap[c]>> \notin DOMAIN cells
        <5>1. <<new, d.columnMap[c]>>[1] = new
          OBVIOUS
        <5> QED
          BY <1>1, <5>1, UndrawnIsBare
      <4>3. /\ <<new, d.columnMap[c]>> \in FreshCells(d, w, new) <=> <<w, c>> \in DOMAIN d.from.cells
            /\ <<w, c>> \in DOMAIN d.from.cells => SourceOf(d, w, <<new, d.columnMap[c]>>) = <<w, c>>
        BY <1>1, <2>20, FreshAreCopies
      <4> QED
        BY <2>11, <3>1, <4>1, <4>2, <4>3
    <3>2. CASE x # w
      <4>1. x \in DOMAIN d.rowMap /\ map[x] = d.rowMap[x] /\ d.rowMap[x] # new
        BY <2>3, <2>17, <3>2
      <4>2. <<d.rowMap[x], d.columnMap[c]>> \notin FreshCells(d, w, new)
        <5>1. <<d.rowMap[x], d.columnMap[c]>>[1] = d.rowMap[x]
          OBVIOUS
        <5> QED
          BY <2>12, <4>1, <5>1
      <4>3. /\ <<x, c>> \in DOMAIN d.from.cells <=> <<d.rowMap[x], d.columnMap[c]>> \in DOMAIN cells
            /\ <<x, c>> \in DOMAIN d.from.cells => cells[<<d.rowMap[x], d.columnMap[c]>>] = d.from.cells[<<x, c>>]
        BY <2>1, <4>1 DEF CopiedSoFar
      <4> QED
        BY <2>11, <4>1, <4>2, <4>3
    <3> QED
      BY <3>1, <3>2
  <2>22. DOMAIN d.from.columns \subseteq DOMAIN d.columnMap
    BY <1>1, Zenon
  <2>23. CopiedSoFar(next)'
    BY <2>1, <2>5, <2>13, <2>14, <2>15, <2>16, <2>18, <2>19, <2>20, <2>21, <2>22 DEF CopiedSoFar
  <2> QED
    BY <2>6, <2>23
<1> QED
  BY <1>1, <1>2, <1>3

\* One request about reports at a time copies completely what it copies.
LEMMA CopiedStep ==
  ASSUME NEW k \in Authors, AloneInv(k), CopiedSoFar(author[k]), Acts(k) PROVE CopiedSoFar(author[k])'
<1>1. StockInv /\ OneAtWork(k)
  BY DEF AloneInv
<1>2. ASSUME NEW next, Writes(k, next), next.at = "copy" => next.to = 0 PROVE CopiedSoFar(author[k])'
  <2>1. author'[k] = next
    BY <1>1, <1>2, StaysAlone
  <2> QED
    BY <1>2, <2>1 DEF CopiedSoFar
<1>3. Unbusy.at = "idle" /\ \A r, copied : Copying(r, copied).to = 0
  BY DEF Unbusy, Copying
<1>4. CASE InsertSummary(k)
  <2>1. PICK next : next = [at |-> "countries", summary |-> NextId(summaries), source |-> author[k].source]
    OBVIOUS
  <2>2. Writes(k, Unbusy) \/ Writes(k, next)
    BY <1>4, <2>1 DEF InsertSummary, Rests
  <2>3. next.at = "countries"
    BY <2>1
  <2> QED
    BY <1>2, <1>3, <2>2, <2>3
<1>5. CASE InsertCountries(k)
  <2>1. Writes(k, Unbusy) \/ \E copied : Writes(k, Copying(author[k].summary, copied))
    BY <1>5 DEF InsertCountries, Rests
  <2> QED
    BY <1>2, <1>3, <2>1
<1>6. CASE ClearCountries(k)
  <2>1. PICK next : next = [at |-> "countries", summary |-> author[k].summary, source |-> 0]
    OBVIOUS
  <2>2. Writes(k, next) /\ next.at = "countries"
    BY <1>6, <2>1 DEF ClearCountries
  <2> QED
    BY <1>2, <2>2
<1>7. CASE Turning(k) \/ SaveSummary(k) \/ RemoveSummary(k) \/ AssertEditable(k) \/ Drawing(k) \/ EndCopy(k) \/ GiveUp(k)
  BY <1>1, <1>2, <1>7, NoCountries
<1>8. CASE CopySection(k) \/ CopyColumn(k) \/ CopyRow(k)
  BY <1>1, <1>8, CopySectionCopies, CopyColumnCopies, CopyRowCopies
<1> QED
  BY <1>4, <1>5, <1>6, <1>7, <1>8 DEF Acts, Filing, Transcribing

\* When all is copied, the new section reads as the old one did.
LEMMA CopiesAreComplete ==
  ASSUME NEW k \in Authors, AloneInv(k), CopiedSoFar(author[k]) PROVE CopyComplete
<1>1. ASSUME NEW j \in Authors, SectionCopied(j), author[j].to # 0 PROVE j = k
  <2>1. author[j] # Unbusy
    BY <1>1 DEF SectionCopied, Unbusy
  <2> QED
    BY <2>1 DEF AloneInv, OneAtWork
<1> SUFFICES ASSUME SectionCopied(k), author[k].to # 0
             PROVE  LET from == author[k].from
                        columnMap == author[k].columnMap
                        rowMap == author[k].rowMap
                        copy == Loaded(author[k].to)
                    IN /\ DOMAIN copy.columns = Range(columnMap) /\ DOMAIN copy.rows = Range(rowMap)
                       /\ \A c \in DOMAIN columnMap : copy.columns[columnMap[c]] = from.columns[c]
                       /\ \A w \in DOMAIN rowMap : copy.rows[rowMap[w]] = from.rows[w]
                       /\ \A w \in DOMAIN rowMap, c \in DOMAIN columnMap :
                            LET new == <<rowMap[w], columnMap[c]>>
                            IN IF <<w, c>> \in DOMAIN from.cells
                               THEN new \in DOMAIN copy.cells /\ copy.cells[new] = from.cells[<<w, c>>]
                               ELSE new \notin DOMAIN copy.cells
  BY <1>1 DEF CopyComplete
<1>2. PICK d : d = author[k]
  OBVIOUS
<1>3. d.at = "copy" /\ d.to # 0 /\ CopiedSoFar(d)
  BY <1>2 DEF SectionCopied
<1>4. PICK copy : copy = Loaded(d.to)
  OBVIOUS
<1>5. /\ DOMAIN copy.columns = ColumnsOf(d.to) /\ \A c \in ColumnsOf(d.to) : copy.columns[c] = columns[c].form
      /\ DOMAIN copy.rows = RowsOf(d.to) /\ \A w \in RowsOf(d.to) : copy.rows[w] = sheetRows[w].form
  BY <1>4 DEF Loaded
<1>6. copy.cells = Restrict(cells, CellsOf(d.to))
  BY <1>4 DEF Loaded
<1>7. DOMAIN copy.cells = CellsOf(d.to) /\ \A p \in CellsOf(d.to) : copy.cells[p] = cells[p]
  BY <1>6 DEF Restrict
<1>8. ColumnsOf(d.to) = Range(d.columnMap) /\ RowsOf(d.to) = Range(d.rowMap)
  BY <1>3 DEF CopiedSoFar
<1>9. (\A c \in DOMAIN d.columnMap : d.columnMap[c] \in Range(d.columnMap)) /\ \A w \in DOMAIN d.rowMap : d.rowMap[w] \in Range(d.rowMap)
  BY DEF Range
<1>10. \A c \in DOMAIN d.columnMap : copy.columns[d.columnMap[c]] = d.from.columns[c]
  BY <1>3, <1>5, <1>8, <1>9 DEF CopiedSoFar
<1>11. \A w \in DOMAIN d.rowMap : copy.rows[d.rowMap[w]] = d.from.rows[w]
  BY <1>3, <1>5, <1>8, <1>9 DEF CopiedSoFar
<1>12. ASSUME NEW w \in DOMAIN d.rowMap, NEW c \in DOMAIN d.columnMap, NEW new, new = <<d.rowMap[w], d.columnMap[c]>>
       PROVE  IF <<w, c>> \in DOMAIN d.from.cells
              THEN new \in DOMAIN copy.cells /\ copy.cells[new] = d.from.cells[<<w, c>>]
              ELSE new \notin DOMAIN copy.cells
  <2>1. new[1] \in RowsOf(d.to) /\ new[2] \in ColumnsOf(d.to)
    BY <1>8, <1>9, <1>12
  <2>2. new \in DOMAIN copy.cells <=> new \in DOMAIN cells
    BY <1>7, <2>1 DEF CellsOf
  <2>3. /\ <<w, c>> \in DOMAIN d.from.cells <=> new \in DOMAIN cells
        /\ <<w, c>> \in DOMAIN d.from.cells => cells[new] = d.from.cells[<<w, c>>]
    BY <1>3, <1>12 DEF CopiedSoFar
  <2> QED
    BY <1>7, <2>2, <2>3
<1> QED
  BY <1>2, <1>4, <1>5, <1>8, <1>10, <1>11, <1>12

\* At first nobody is at work.
LEMMA AloneBegins == ASSUME StockInit, NEW k \in Authors PROVE AloneInv(k) /\ CopiedSoFar(author[k])
<1>1. author[k] = Unbusy /\ Unbusy.at = "idle" /\ OneAtWork(k)
  BY DEF StockInit, OneAtWork, Unbusy
<1>2. \A r \in Summaries : scopes[r] = 0
  BY DEF StockInit
<1>3. ListedOnce(k)
  BY <1>1, <1>2 DEF ListedOnce
<1> QED
  BY <1>1, <1>3, StockBegins DEF AloneInv, CopiedSoFar

-----------------------------------------------------------------------------
(* Tasks *)

\* What a request holds between two statements
RequestKinds ==
  {NoRequest}
  \union [at : {"insert"}, number : Nat]
  \union [at : {"insertSubtask"}, parent : Tasks, code : Seq(Nat)]
  \union [at : {"rewrite"}, task : Tasks]
  \union [at : {"hide", "destroy"}, parent : Tasks]
  \union [at : {"walk"}, task : Tasks, on : Tasks, queue : SUBSET Tasks, visited : SUBSET Tasks]
  \union [at : {"depend"}, task : Tasks, on : Tasks]

TasksTyped ==
  /\ lastNumber \in Nat
  /\ holder \in Users \union {NoTask}
  /\ tasks \in [Tasks -> Task \union {Unmade}]
  /\ depends \subseteq Tasks \X Tasks
  /\ request \in [Users -> RequestKinds]
  /\ rewritten \subseteq Tasks /\ bereft \subseteq Tasks

\* A first task that no update made one has a number that was drawn; a parent is there.
CodesDrawn ==
  \A t \in Made : /\ tasks[t].parent \in Made \union {NoTask}
                  /\ tasks[t].parent = NoTask /\ t \notin rewritten => \E n \in 0 .. lastNumber : tasks[t].code = <<n>>

\* Who is about to insert a first task has locked the sequence it has read.
Draws(u) ==
  /\ request[u].at = "insert" => holder = u /\ request[u].number = lastNumber + 1
  /\ request[u].at = "insertSubtask" => request[u].parent \in Made

TasksInv == TasksTyped /\ CodesDrawn /\ NumbersUnique /\ \A u \in Users : Draws(u)

\* A row that is there is a task.
LEMMA TaskRows ==
  ASSUME TasksTyped
  PROVE  /\ \A t \in Tasks : t \in Made <=> tasks[t] \in Task
         /\ \A t \in Made : /\ t \in Tasks /\ tasks[t].code \in Seq(Nat)
                            /\ tasks[t].parent \in Tasks \union {NoTask}
                            /\ tasks[t].deleted \in BOOLEAN /\ tasks[t].hidden \in BOOLEAN
         /\ Unmade \notin Task
         /\ Found \subseteq Made
<1>1. Unmade \notin Task
  BY DEF Unmade, Task
<1> QED
  BY <1>1 DEF TasksTyped, Made, Found, Task

\* A request is of its kind.
LEMMA RequestTyped ==
  ASSUME TasksTyped, NEW u \in Users
  PROVE  /\ request[u] \in RequestKinds
         /\ request[u].at \in {"idle", "insert", "insertSubtask", "rewrite", "hide", "destroy", "walk", "depend"}
         /\ request[u].at = "idle" <=> request[u] = NoRequest
         /\ request[u].at = "insert" => request[u].number \in Nat
         /\ request[u].at = "insertSubtask" => request[u].parent \in Tasks /\ request[u].code \in Seq(Nat)
         /\ request[u].at = "rewrite" => request[u].task \in Tasks
         /\ request[u].at \in {"hide", "destroy"} => request[u] \in [at : {"hide", "destroy"}, parent : Tasks]
         /\ request[u].at = "walk" =>
              request[u] \in [at : {"walk"}, task : Tasks, on : Tasks, queue : SUBSET Tasks, visited : SUBSET Tasks]
         /\ request[u].at = "depend" => request[u].task \in Tasks /\ request[u].on \in Tasks
<1>1. request[u] \in RequestKinds
  BY DEF TasksTyped
<1> QED
  BY <1>1 DEF RequestKinds, NoRequest

\* Each kind of request is one.
LEMMA RequestsAre ==
  /\ NoRequest \in RequestKinds
  /\ \A n \in Nat : [at |-> "insert", number |-> n] \in RequestKinds
  /\ \A p \in Tasks, code \in Seq(Nat) : [at |-> "insertSubtask", parent |-> p, code |-> code] \in RequestKinds
  /\ \A t \in Tasks : [at |-> "rewrite", task |-> t] \in RequestKinds
  /\ \A at \in {"hide", "destroy"}, p \in Tasks : [at |-> at, parent |-> p] \in RequestKinds
  /\ \A t, d \in Tasks, q, v \in SUBSET Tasks :
       [at |-> "walk", task |-> t, on |-> d, queue |-> q, visited |-> v] \in RequestKinds
  /\ \A t, d \in Tasks : [at |-> "depend", task |-> t, on |-> d] \in RequestKinds
BY DEF RequestKinds, NoRequest

\* A request goes on.
LEMMA TurnsTyped ==
  ASSUME TasksTyped, NEW u \in Users, NEW next \in RequestKinds, Turns(u, next)
  PROVE  /\ request' \in [Users -> RequestKinds] /\ request'[u] = next
         /\ \A v \in Users \ {u} : request'[v] = request[v]
BY DEF TasksTyped, Turns

\* Subtasks: how many there are is a number.
LEMMA SiblingsCounted ==
  ASSUME NEW p
  PROVE  Siblings(p) \in Nat /\ IsFiniteSet(Children(p))
<1>1. IsFiniteSet(Children(p))
  BY TasksAssumption, FS_Subset DEF Children, Made
<1> QED
  BY <1>1, FS_CardinalityType DEF Siblings

\* A step that leaves the codes and the sequence alone.
LEMMA CodesStay ==
  ASSUME TasksInv, NEW u \in Users, NEW next \in RequestKinds, Turns(u, next), UNCHANGED <<lastNumber, rewritten, bereft>>,
         tasks' \in [Tasks -> Task \union {Unmade}], depends' \subseteq Tasks \X Tasks,
         Made' = Made, \A t \in Made : tasks'[t].code = tasks[t].code /\ tasks'[t].parent = tasks[t].parent,
         holder' \in Users \union {NoTask}, \A v \in Users \ {u} : holder = v => holder' = v,
         next.at = "insert" => holder' = u /\ next.number = lastNumber + 1,
         next.at = "insertSubtask" => next.parent \in Made
  PROVE  TasksInv'
<1>1. TasksTyped
  BY DEF TasksInv
<1>2. TasksTyped'
  BY <1>1, TurnsTyped DEF TasksTyped
<1>3. CodesDrawn'
  BY DEF TasksInv, CodesDrawn
<1>4. NumbersUnique'
  BY DEF TasksInv, NumbersUnique
<1>5. ASSUME NEW v \in Users PROVE Draws(v)'
  <2>1. CASE v = u
    BY <1>1, <2>1, TurnsTyped DEF Draws
  <2>2. CASE v # u
    BY <1>1, <2>2, TurnsTyped DEF TasksInv, Draws
  <2> QED
    BY <2>1, <2>2
<1> QED
  BY <1>2, <1>3, <1>4, <1>5 DEF TasksInv

\* Reading the sequence and the number of subtasks.
LEMMA CountsInv ==
  ASSUME TasksInv, NEW u \in Users, LockSequence(u) \/ CountSubtasks(u) \/ FindSubtask(u)
  PROVE  TasksInv'
<1>1. TasksTyped
  BY DEF TasksInv
<1>2. CASE LockSequence(u)
  <2>1. Turns(u, [at |-> "insert", number |-> lastNumber + 1]) /\ UNCHANGED <<lastNumber, tasks, depends, rewritten, bereft>>
        /\ holder = NoTask /\ holder' = u
    BY <1>2 DEF LockSequence
  <2>2. [at |-> "insert", number |-> lastNumber + 1] \in RequestKinds
    BY <1>1, RequestsAre DEF TasksTyped
  <2>3. Made' = Made
    BY <2>1 DEF Made
  <2> QED
    BY <1>1, <2>1, <2>2, <2>3, CodesStay, TasksAssumption DEF TasksTyped
<1>3. CASE CountSubtasks(u)
  <2>1. PICK p \in Found :
          Turns(u, [at |-> "insertSubtask", parent |-> p, code |-> Append(tasks[p].code, Siblings(p))])
    BY <1>3 DEF CountSubtasks
  <2>2. UNCHANGED <<lastNumber, holder, tasks, depends, rewritten, bereft>>
    BY <1>3 DEF CountSubtasks
  <2>3. p \in Made /\ p \in Tasks /\ tasks[p].code \in Seq(Nat) /\ Siblings(p) \in Nat
    BY <1>1, TaskRows, SiblingsCounted
  <2>4. PICK next : next = [at |-> "insertSubtask", parent |-> p, code |-> Append(tasks[p].code, Siblings(p))]
    OBVIOUS
  <2>5. next \in RequestKinds /\ next.at = "insertSubtask" /\ next.parent = p
    <3>1. Append(tasks[p].code, Siblings(p)) \in Seq(Nat)
      BY <2>3
    <3> QED
      BY <2>3, <2>4, <3>1, RequestsAre
  <2>7. Made' = Made
    BY <2>2 DEF Made
  <2>8. Turns(u, next) /\ next.parent \in Made
    BY <2>1, <2>3, <2>4, <2>5, Zenon
  <2> QED
    BY <1>1, <2>2, <2>5, <2>7, <2>8, CodesStay DEF TasksTyped
<1>4. CASE FindSubtask(u)
  <2>1. PICK t \in Found : Turns(u, [at |-> "rewrite", task |-> t])
    BY <1>4, Zenon DEF FindSubtask
  <2>2. UNCHANGED <<lastNumber, holder, tasks, depends, rewritten, bereft>>
    BY <1>4 DEF FindSubtask
  <2>3. [at |-> "rewrite", task |-> t] \in RequestKinds
    BY <1>1, TaskRows, RequestsAre
  <2>4. Made' = Made
    BY <2>2 DEF Made
  <2> QED
    BY <1>1, <2>1, <2>2, <2>3, <2>4, CodesStay DEF TasksTyped
<1> QED
  BY <1>2, <1>3, <1>4

\* Deleting, restoring and hiding.
LEMMA DeletesInv ==
  ASSUME TasksInv, NEW u \in Users,
         DeleteTask(u) \/ HideSubtasks(u) \/ DestroySubtasks(u) \/ BulkDelete(u) \/ RestoreTask(u)
  PROVE  /\ TasksInv'
         /\ Made' = Made /\ \A t \in Made : tasks'[t].code = tasks[t].code /\ tasks'[t].parent = tasks[t].parent
         /\ UNCHANGED <<rewritten, bereft>>
<1>1. TasksTyped
  BY DEF TasksInv
<1>2. /\ tasks' \in [Tasks -> Task \union {Unmade}]
      /\ Made' = Made /\ \A t \in Made : tasks'[t].code = tasks[t].code /\ tasks'[t].parent = tasks[t].parent
  <2> DEFINE Flagged ==
               /\ DOMAIN tasks' = Tasks
               /\ \A t \in Tasks : \/ tasks'[t] = tasks[t]
                                   \/ t \in Made /\ \E deleted, hidden \in BOOLEAN :
                                        tasks'[t] = [code |-> tasks[t].code, parent |-> tasks[t].parent,
                                                     deleted |-> deleted, hidden |-> hidden]
  <2>1. Flagged
    <3>1. ASSUME NEW t \in Made
          PROVE  /\ \A flag \in BOOLEAN : [tasks[t] EXCEPT !.deleted = flag] =
                      [code |-> tasks[t].code, parent |-> tasks[t].parent, deleted |-> flag, hidden |-> tasks[t].hidden]
                 /\ \A flag \in BOOLEAN : [tasks[t] EXCEPT !.hidden = flag] =
                      [code |-> tasks[t].code, parent |-> tasks[t].parent, deleted |-> tasks[t].deleted, hidden |-> flag]
                 /\ tasks[t].deleted \in BOOLEAN /\ tasks[t].hidden \in BOOLEAN
      <4>1. PICK row \in Task : row = tasks[t]
        BY <1>1, <3>1, TaskRows
      <4> QED
        BY <4>1 DEF Task
    <3>2. DOMAIN tasks = Tasks
      BY <1>1 DEF TasksTyped
    <3>3. CASE DeleteTask(u)
      <4>1. PICK t \in Found : tasks' = [tasks EXCEPT ![t].deleted = TRUE]
        BY <3>3, Zenon DEF DeleteTask
      <4> QED
        BY <1>1, <3>1, <3>2, <4>1, TaskRows
    <3>4. CASE HideSubtasks(u)
      BY <1>1, <3>1, <3>2, <3>4, TaskRows DEF HideSubtasks
    <3>5. CASE DestroySubtasks(u)
      BY <1>1, <3>1, <3>2, <3>5, TaskRows DEF DestroySubtasks, Children
    <3>6. CASE BulkDelete(u)
      BY <1>1, <3>1, <3>2, <3>6, TaskRows DEF BulkDelete
    <3>7. CASE RestoreTask(u)
      <4>1. PICK t \in Made \ Found : tasks' = [tasks EXCEPT ![t].deleted = FALSE]
        BY <3>7, Zenon DEF RestoreTask
      <4> QED
        BY <1>1, <3>1, <3>2, <4>1, TaskRows
    <3> HIDE DEF Flagged
    <3> QED
      BY <3>3, <3>4, <3>5, <3>6, <3>7, Zenon
  <2>2. ASSUME NEW t \in Tasks
        PROVE  /\ tasks'[t] \in Task \union {Unmade} /\ (t \in Made <=> tasks'[t] # Unmade)
               /\ t \in Made => tasks'[t].code = tasks[t].code /\ tasks'[t].parent = tasks[t].parent
    <3>1. tasks[t] \in Task \union {Unmade}
      BY <1>1 DEF TasksTyped
    <3>2. CASE tasks'[t] = tasks[t]
      BY <3>1, <3>2 DEF Made
    <3>3. CASE tasks'[t] # tasks[t]
      <4>1. t \in Made
        BY <2>1, <3>3
      <4>2. PICK deleted \in BOOLEAN, hidden \in BOOLEAN :
              tasks'[t] = [code |-> tasks[t].code, parent |-> tasks[t].parent, deleted |-> deleted, hidden |-> hidden]
        BY <2>1, <3>3
      <4>3. tasks'[t] \in Task
        BY <1>1, <4>1, <4>2, TaskRows DEF Task
      <4> QED
        BY <1>1, <4>1, <4>2, <4>3, TaskRows
    <3> QED
      BY <3>2, <3>3
  <2>3. tasks' \in [Tasks -> Task \union {Unmade}]
    <3>1. tasks' = [t \in Tasks |-> tasks'[t]]
      <4>1. \E made : tasks' = [t \in Tasks |-> made[t]]
        <5>1. CASE DeleteTask(u) \/ RestoreTask(u)
          BY <1>1, <5>1 DEF DeleteTask, RestoreTask, TasksTyped
        <5> QED
          BY <5>1 DEF HideSubtasks, DestroySubtasks, BulkDelete
      <4> QED
        BY <4>1
    <3> QED
      BY <2>2, <3>1
  <2> QED
    BY <2>2, <2>3 DEF Made
<1>3. UNCHANGED <<lastNumber, holder, depends, rewritten, bereft>>
  BY DEF DeleteTask, HideSubtasks, DestroySubtasks, BulkDelete, RestoreTask
<1>4. PICK next \in RequestKinds : 
        \/ Turns(u, next) /\ next.at \in {"idle", "hide", "destroy"}
        \/ next = request[u] /\ UNCHANGED request
  <2>1. NoRequest.at = "idle"
    BY DEF NoRequest
  <2>2. CASE DeleteTask(u)
    <3>1. PICK t \in Found : Turns(u, IF tasks[t].parent = NoTask THEN [at |-> "hide", parent |-> t] ELSE NoRequest)
      BY <2>2, Zenon DEF DeleteTask
    <3>2. [at |-> "hide", parent |-> t] \in RequestKinds /\ NoRequest \in RequestKinds
      BY <1>1, <3>1, TaskRows, RequestsAre
    <3>3. CASE tasks[t].parent = NoTask
      BY <3>1, <3>2, <3>3
    <3>4. CASE tasks[t].parent # NoTask
      BY <2>1, <3>1, <3>2, <3>4
    <3> QED
      BY <3>3, <3>4
  <2>3. CASE HideSubtasks(u)
    <3>1. request[u] \in [at : {"hide", "destroy"}, parent : Tasks]
      BY <1>1, <2>3, RequestTyped DEF HideSubtasks
    <3>2. Turns(u, [request[u] EXCEPT !.at = "destroy"])
      BY <2>3, Zenon DEF HideSubtasks
    <3>3. PICK r \in [at : {"hide", "destroy"}, parent : Tasks] : r = request[u]
      BY <3>1
    <3>4. [r EXCEPT !.at = "destroy"] = [at |-> "destroy", parent |-> r.parent]
      OBVIOUS
    <3>5. [at |-> "destroy", parent |-> r.parent] \in RequestKinds
      BY <3>3, RequestsAre
    <3>6. Turns(u, [at |-> "destroy", parent |-> r.parent])
      BY <3>2, <3>3, <3>4, Zenon
    <3>7. [at |-> "destroy", parent |-> r.parent].at = "destroy"
      OBVIOUS
    <3> QED
      BY <3>5, <3>6, <3>7, Zenon
  <2>4. CASE DestroySubtasks(u)
    <3>1. Turns(u, NoRequest)
      BY <2>4, Zenon DEF DestroySubtasks
    <3> QED
      BY <2>1, <3>1, RequestsAre
  <2>5. CASE BulkDelete(u) \/ RestoreTask(u)
    BY <1>1, <2>5, RequestTyped DEF BulkDelete, RestoreTask
  <2> QED
    BY <2>2, <2>3, <2>4, <2>5
<1>5. CASE UNCHANGED request
  <2>1. Turns(u, request[u])
    BY <1>1, <1>5 DEF Turns, TasksTyped
  <2>2. request[u] \in RequestKinds /\ Draws(u)
    BY <1>1, RequestTyped DEF TasksInv
  <2>3. /\ request[u].at = "insert" => holder' = u /\ request[u].number = lastNumber + 1
        /\ request[u].at = "insertSubtask" => request[u].parent \in Made
    BY <1>3, <2>2 DEF Draws
  <2> QED
    BY <1>1, <1>2, <1>3, <2>1, <2>2, <2>3, CodesStay DEF TasksTyped
<1>6. CASE Turns(u, next) /\ next.at \in {"idle", "hide", "destroy"}
  BY <1>1, <1>2, <1>3, <1>6, CodesStay DEF TasksTyped
<1> QED
  BY <1>2, <1>3, <1>4, <1>5, <1>6

\* The rows a creation adds: a first task and its subtasks, numbered from zero.
Adds(number, t, subtasks, items) ==
  /\ t \in Tasks \ Made /\ items \in Nat
  /\ subtasks \in [1 .. items -> Tasks \ (Made \union {t})]
  /\ \A i, j \in 1 .. items : subtasks[i] = subtasks[j] => i = j
  /\ tasks' \in [Tasks -> Task \union {Unmade}]
  /\ \A r \in Made : tasks'[r] = tasks[r]
  /\ tasks'[t] = NewTask(<<number>>, NoTask)
  /\ \A i \in 1 .. items : tasks'[subtasks[i]] = NewTask(<<number, i - 1>>, t)
  /\ Made' = Made \union {t} \union {subtasks[i] : i \in 1 .. items}

\* Inserting a task adds it and the subtasks of its template, under the number that was drawn.
LEMMA InsertAdds ==
  ASSUME TasksTyped, NEW u \in Users, InsertTask(u)
  PROVE  \E t, subtasks, items : Adds(request[u].number, t, subtasks, items)
<1>1. request[u].number \in Nat
  BY RequestTyped DEF InsertTask
<1>2. PICK t \in Tasks \ Made, items \in {0} \union TemplateItems :
        \E subtasks \in [1 .. items -> Tasks \ (Made \union {t})] :
         /\ \A i, j \in 1 .. items : subtasks[i] = subtasks[j] => i = j
         /\ tasks' = [r \in Tasks |->
              IF r = t THEN NewTask(<<request[u].number>>, NoTask)
              ELSE IF \E i \in 1 .. items : subtasks[i] = r
              THEN NewTask(<<request[u].number, (CHOOSE i \in 1 .. items : subtasks[i] = r) - 1>>, t)
              ELSE tasks[r]]
  BY Zenon DEF InsertTask
<1>3. PICK subtasks \in [1 .. items -> Tasks \ (Made \union {t})] :
         /\ \A i, j \in 1 .. items : subtasks[i] = subtasks[j] => i = j
         /\ tasks' = [r \in Tasks |->
              IF r = t THEN NewTask(<<request[u].number>>, NoTask)
              ELSE IF \E i \in 1 .. items : subtasks[i] = r
              THEN NewTask(<<request[u].number, (CHOOSE i \in 1 .. items : subtasks[i] = r) - 1>>, t)
              ELSE tasks[r]]
  BY <1>2
<1>4. items \in Nat
  BY TasksAssumption
<1>5. \A r \in Made : r # t /\ ~(\E i \in 1 .. items : subtasks[i] = r)
  BY <1>3
<1>6. \A i \in 1 .. items : subtasks[i] # t /\ subtasks[i] \in Tasks /\ subtasks[i] \notin Made
  BY <1>3
<1>7. \A i \in 1 .. items : (CHOOSE j \in 1 .. items : subtasks[j] = subtasks[i]) = i
  BY <1>3
<1>8. /\ \A r \in Made : tasks'[r] = tasks[r]
      /\ tasks'[t] = NewTask(<<request[u].number>>, NoTask)
  BY <1>3, <1>5 DEF Made
<1>9. ASSUME NEW i \in 1 .. items PROVE tasks'[subtasks[i]] = NewTask(<<request[u].number, i - 1>>, t)
  BY <1>3, <1>6, <1>7
<1>10. \A r \in Tasks : r \notin Made /\ r # t /\ ~(\E i \in 1 .. items : subtasks[i] = r) => tasks'[r] = Unmade
  BY <1>3 DEF Made
<1>11. ASSUME NEW code \in Seq(Nat), NEW p \in Tasks \union {NoTask}
       PROVE  NewTask(code, p) \in Task /\ NewTask(code, p) # Unmade
  BY DEF NewTask, Task, Unmade
<1>12. NewTask(<<request[u].number>>, NoTask) \in Task /\ NewTask(<<request[u].number>>, NoTask) # Unmade
  <2>1. <<request[u].number>> \in Seq(Nat)
    BY <1>1
  <2> QED
    BY <2>1, <1>11
<1>13. ASSUME NEW i \in 1 .. items
       PROVE  /\ NewTask(<<request[u].number, i - 1>>, t) \in Task
              /\ NewTask(<<request[u].number, i - 1>>, t) # Unmade
  <2>1. <<request[u].number, i - 1>> \in Seq(Nat)
    BY <1>1, <1>4
  <2> QED
    BY <2>1, <1>11
<1>14. \A r \in Tasks : tasks'[r] \in Task \union {Unmade}
  BY <1>8, <1>9, <1>10, <1>12, <1>13 DEF TasksTyped
<1>15. \A r \in Tasks : tasks'[r] # Unmade <=> r \in Made \/ r = t \/ \E i \in 1 .. items : subtasks[i] = r
  BY <1>8, <1>9, <1>10, <1>12, <1>13 DEF Made
<1>16. DOMAIN tasks' = Tasks
  BY <1>3
<1>17. tasks' \in [Tasks -> Task \union {Unmade}]
  BY <1>3, <1>14
<1>18. Made' = Made \union {t} \union {subtasks[i] : i \in 1 .. items}
  BY <1>6, <1>15 DEF Made
<1>19. Adds(request[u].number, t, subtasks, items)
  BY <1>3, <1>4, <1>8, <1>9, <1>17, <1>18 DEF Adds
<1> QED
  BY <1>19

\* The numbers of first tasks stay apart: the one that is added was not drawn before.
LEMMA InsertTaskInv == ASSUME TasksInv, NEW u \in Users, InsertTask(u) PROVE TasksInv'
<1>1. TasksTyped
  BY DEF TasksInv
<1>2. PICK t, subtasks, items : Adds(request[u].number, t, subtasks, items)
  BY <1>1, InsertAdds
<1>3. request[u].number = lastNumber + 1 /\ holder = u /\ lastNumber \in Nat /\ lastNumber' = request[u].number
      /\ UNCHANGED <<depends, rewritten, bereft>> /\ Turns(u, NoRequest) /\ holder' = NoTask
  BY <1>1 DEF InsertTask, TasksInv, Draws, TasksTyped, Unlock
<1>4. TasksTyped'
  BY <1>1, <1>2, <1>3, TurnsTyped, RequestsAre DEF TasksTyped, Adds
<1>5. ASSUME NEW r \in Made'
      PROVE  \/ r \in Made /\ tasks'[r] = tasks[r]
             \/ r = t /\ tasks'[r].code = <<lastNumber'>> /\ tasks'[r].parent = NoTask
             \/ \E k \in Nat : tasks'[r].code = <<lastNumber', k>> /\ tasks'[r].parent = t
  <2>1. CASE r \in Made
    BY <1>2, <2>1 DEF Adds
  <2>2. CASE r = t
    BY <1>2, <1>3, <2>2 DEF Adds, NewTask
  <2>3. ASSUME NEW i \in 1 .. items, r = subtasks[i]
        PROVE  \E k \in Nat : tasks'[r].code = <<lastNumber', k>> /\ tasks'[r].parent = t
    <3>1. i - 1 \in Nat
      BY <1>2 DEF Adds
    <3>2. tasks'[subtasks[i]] = NewTask(<<request[u].number, i - 1>>, t)
      BY <1>2 DEF Adds
    <3>3. tasks'[r].code = <<lastNumber', i - 1>> /\ tasks'[r].parent = t
      BY <1>3, <2>3, <3>2 DEF NewTask
    <3> QED
      BY <3>1, <3>3
  <2> QED
    BY <1>2, <2>1, <2>2, <2>3 DEF Adds
<1>6. t # NoTask
  BY <1>2, TasksAssumption DEF Adds
<1>7. CodesDrawn'
  <2> SUFFICES ASSUME NEW r \in Made'
               PROVE  /\ tasks'[r].parent \in Made' \union {NoTask}
                      /\ tasks'[r].parent = NoTask /\ r \notin rewritten => \E n \in 0 .. lastNumber' : tasks'[r].code = <<n>>
    BY <1>3 DEF CodesDrawn
  <2>1. CASE r \in Made /\ tasks'[r] = tasks[r]
    <3>1. tasks[r].parent \in Made \union {NoTask} /\ Made \subseteq Made'
      BY <1>2, <2>1 DEF TasksInv, CodesDrawn, Adds
    <3>2. CASE tasks[r].parent = NoTask /\ r \notin rewritten
      <4>1. PICK n \in 0 .. lastNumber : tasks[r].code = <<n>>
        BY <2>1, <3>2 DEF TasksInv, CodesDrawn
      <4> QED
        BY <1>3, <2>1, <3>1, <4>1
    <3> QED
      BY <2>1, <3>1, <3>2
  <2>2. CASE tasks'[r].code = <<lastNumber'>> /\ tasks'[r].parent = NoTask
    BY <1>3, <2>2
  <2>3. CASE \E k \in Nat : tasks'[r].code = <<lastNumber', k>> /\ tasks'[r].parent = t
    BY <1>2, <1>6, <2>3 DEF Adds
  <2> QED
    BY <1>5, <2>1, <2>2, <2>3
<1>8. NumbersUnique'
  <2> SUFFICES ASSUME NEW r \in Made' \ rewritten, NEW s \in Made' \ rewritten, tasks'[r].parent = NoTask, tasks'[s].parent = NoTask,
                      tasks'[r].code = tasks'[s].code
               PROVE  r = s
    BY <1>3 DEF NumbersUnique
  <2>1. ASSUME NEW q \in Made \ rewritten, tasks[q].parent = NoTask, tasks[q].code = <<lastNumber'>> PROVE FALSE
    <3>1. PICK n \in 0 .. lastNumber : tasks[q].code = <<n>>
      BY <2>1 DEF TasksInv, CodesDrawn
    <3> QED
      BY <1>3, <2>1, <3>1
  <2>2. CASE r = t \/ s = t
    <3>1. tasks'[t].code = <<lastNumber'>>
      BY <1>2, <1>3 DEF Adds, NewTask
    <3>2. ASSUME NEW q \in Made' \ rewritten, tasks'[q].parent = NoTask, tasks'[q].code = <<lastNumber'>> PROVE q = t
      BY <1>5, <1>6, <2>1, <3>2
    <3> QED
      BY <2>2, <3>1, <3>2
  <2>3. CASE r # t /\ s # t
    BY <1>5, <1>6, <2>3 DEF TasksInv, NumbersUnique
  <2> QED
    BY <2>2, <2>3
<1>9. ASSUME NEW v \in Users PROVE Draws(v)'
  <2>1. CASE v = u
    BY <1>1, <1>3, <2>1, TurnsTyped, RequestsAre DEF Draws, NoRequest
  <2>2. CASE v # u
    <3>1. request'[v] = request[v] /\ request[v].at # "insert"
      BY <1>1, <1>3, <2>2, TurnsTyped, RequestsAre DEF TasksInv, Draws
    <3>2. Made \subseteq Made'
      BY <1>2 DEF Adds
    <3> QED
      BY <1>3, <3>1, <3>2 DEF TasksInv, Draws
  <2> QED
    BY <2>1, <2>2
<1> QED
  BY <1>4, <1>7, <1>8, <1>9 DEF TasksInv

\* A subtask has no number of the sequence.
LEMMA InsertSubtaskInv ==
  ASSUME TasksInv, NEW u \in Users, InsertSubtask(u)
  PROVE  /\ TasksInv'
         /\ \E t \in Tasks \ Made : /\ tasks'[t] = NewTask(request[u].code, request[u].parent)
                                   /\ Made' = Made \union {t}
                                   /\ \A r \in Made : tasks'[r] = tasks[r]
<1>1. TasksTyped /\ request[u].parent \in Tasks /\ request[u].code \in Seq(Nat)
      /\ UNCHANGED <<lastNumber, holder, depends, rewritten, bereft>>
      /\ Turns(u, NoRequest) /\ request[u].parent \in Made
  BY RequestTyped DEF TasksInv, InsertSubtask, Draws
<1>2. PICK t \in Tasks \ Made : tasks' = [tasks EXCEPT ![t] = NewTask(request[u].code, request[u].parent)]
  BY DEF InsertSubtask
<1>3. PICK new : new = NewTask(request[u].code, request[u].parent)
  OBVIOUS
<1>4. new \in Task /\ new # Unmade /\ new.code = request[u].code /\ new.parent = request[u].parent
  BY <1>1, <1>3 DEF NewTask, Task, Unmade
<1>5. tasks' = [tasks EXCEPT ![t] = new]
  BY <1>2, <1>3
<1>6. /\ tasks' \in [Tasks -> Task \union {Unmade}] /\ tasks'[t] = new
      /\ \A r \in Tasks \ {t} : tasks'[r] = tasks[r]
  BY <1>1, <1>4, <1>5 DEF TasksTyped
<1>7. Made' = Made \union {t} /\ \A r \in Made : tasks'[r] = tasks[r]
  BY <1>4, <1>6 DEF Made
<1>8. TasksTyped'
  BY <1>1, <1>6, TurnsTyped, RequestsAre DEF TasksTyped
<1>9. CodesDrawn'
  <2> SUFFICES ASSUME NEW r \in Made'
               PROVE  /\ tasks'[r].parent \in Made' \union {NoTask}
                      /\ tasks'[r].parent = NoTask /\ r \notin rewritten => \E n \in 0 .. lastNumber : tasks'[r].code = <<n>>
    BY <1>1 DEF CodesDrawn
  <2>1. CASE r = t
    BY <1>1, <1>4, <1>6, <1>7, <2>1, TasksAssumption
  <2>2. CASE r \in Made
    BY <1>7, <2>2 DEF TasksInv, CodesDrawn
  <2> QED
    BY <1>7, <2>1, <2>2
<1>10. NumbersUnique'
  BY <1>1, <1>4, <1>6, <1>7, TasksAssumption DEF TasksInv, NumbersUnique
<1>11. ASSUME NEW v \in Users PROVE Draws(v)'
  <2>1. CASE v = u
    BY <1>1, <2>1, TurnsTyped, RequestsAre DEF Draws, NoRequest
  <2>2. CASE v # u
    BY <1>1, <1>7, <2>2, TurnsTyped, RequestsAre DEF TasksInv, Draws
  <2> QED
    BY <2>1, <2>2
<1> QED
  BY <1>3, <1>6, <1>7, <1>8, <1>9, <1>10, <1>11 DEF TasksInv

\* Dependencies touch no code.
LEMMA DependsInv ==
  ASSUME TasksInv, NEW u \in Users, BeginDependency(u) \/ Walk(u) \/ Depend(u) \/ RemoveDependency(u)
  PROVE  TasksInv'
<1>1. TasksTyped /\ UNCHANGED <<lastNumber, holder, tasks, rewritten, bereft>>
  BY DEF TasksInv, BeginDependency, Walk, Depend, RemoveDependency
<1>2. Made' = Made /\ \A t \in Made : tasks'[t].code = tasks[t].code /\ tasks'[t].parent = tasks[t].parent
  BY <1>1 DEF Made
<1>3. depends' \subseteq Tasks \X Tasks
  <2>1. CASE Depend(u)
    BY <1>1, <2>1, RequestTyped DEF Depend, TasksTyped
  <2>2. CASE BeginDependency(u) \/ Walk(u) \/ RemoveDependency(u)
    <3>1. depends' = depends \/ \E d \in depends : depends' = depends \ {d}
      BY <2>2, Zenon DEF BeginDependency, Walk, RemoveDependency
    <3> QED
      BY <1>1, <3>1 DEF TasksTyped
  <2> QED
    BY <2>1, <2>2
<1>4. ASSUME NEW next \in RequestKinds, Turns(u, next), next.at \notin {"insert", "insertSubtask"}
      PROVE  TasksInv'
  BY <1>1, <1>2, <1>3, <1>4, CodesStay DEF TasksTyped
<1>5. NoRequest \in RequestKinds /\ NoRequest.at = "idle"
  BY RequestsAre DEF NoRequest
<1>6. CASE BeginDependency(u)
  <2>1. PICK t \in Found, d \in Found : Turns(u, [at |-> "walk", task |-> t, on |-> d, queue |-> {d}, visited |-> {}])
    BY <1>6, Zenon DEF BeginDependency
  <2>2. t \in Tasks /\ d \in Tasks
    BY <1>1, TaskRows
  <2>3. [at |-> "walk", task |-> t, on |-> d, queue |-> {d}, visited |-> {}] \in RequestKinds
    BY <2>2, RequestsAre
  <2> QED
    BY <1>4, <2>1, <2>3
<1>7. CASE Walk(u)
  <2>1. PICK r \in [at : {"walk"}, task : Tasks, on : Tasks, queue : SUBSET Tasks, visited : SUBSET Tasks] : r = request[u]
    BY <1>1, <1>7, RequestTyped DEF Walk
  <2>2. CASE r.task \in r.queue
    BY <1>4, <1>5, <1>7, <2>1, <2>2 DEF Walk
  <2>3. CASE r.task \notin r.queue /\ r.queue = {}
    <3>1. Turns(u, [at |-> "depend", task |-> r.task, on |-> r.on])
      BY <1>7, <2>1, <2>3, Zenon DEF Walk
    <3>2. [at |-> "depend", task |-> r.task, on |-> r.on] \in RequestKinds
      BY <2>1, RequestsAre
    <3> QED
      BY <1>4, <3>1, <3>2
  <2>4. CASE r.task \notin r.queue /\ r.queue # {}
    <3>1. PICK t \in r.queue : Turns(u, [r EXCEPT !.visited = @ \union {t},
                                   !.queue = (@ \union DirectDependencies(t)) \ (r.visited \union {t})])
      BY <1>7, <2>1, <2>4, Zenon DEF Walk
    <3>2. PICK queue, visited : /\ queue = (r.queue \union DirectDependencies(t)) \ (r.visited \union {t})
                                /\ visited = r.visited \union {t}
      OBVIOUS
    <3>3. queue \in SUBSET Tasks /\ visited \in SUBSET Tasks
      BY <2>1, <3>1, <3>2 DEF DirectDependencies
    <3>4. PICK next : next = [r EXCEPT !.visited = visited, !.queue = queue]
      OBVIOUS
    <3>5. /\ next \in [at : {"walk"}, task : Tasks, on : Tasks, queue : SUBSET Tasks, visited : SUBSET Tasks]
          /\ next.at = "walk"
      BY <3>3, <3>4
    <3>6. Turns(u, next)
      BY <3>1, <3>2, <3>4, Zenon
    <3>7. next \in RequestKinds
      BY <3>5 DEF RequestKinds
    <3> QED
      BY <1>4, <3>5, <3>6, <3>7
  <2> QED
    BY <2>2, <2>3, <2>4
<1>8. CASE Depend(u)
  BY <1>4, <1>5, <1>8 DEF Depend
<1>9. CASE RemoveDependency(u)
  <2>1. request[u] \in RequestKinds /\ request[u].at = "idle" /\ Turns(u, request[u])
    BY <1>1, <1>5, <1>9 DEF RemoveDependency, Turns, TasksTyped
  <2> QED
    BY <1>4, <2>1
<1> QED
  BY <1>6, <1>7, <1>8, <1>9

\* An update of a subtask writes one row, and tells whose subtask it was.
LEMMA RewriteInv ==
  ASSUME TasksInv, NEW u \in Users, RewriteSubtask(u)
  PROVE  /\ TasksInv' /\ Made' = Made
         /\ \/ UNCHANGED <<tasks, rewritten, bereft>>
            \/ \E t \in Made : /\ \A r \in Made \ {t} : tasks'[r] = tasks[r]
                              /\ rewritten' = rewritten \union {t}
                              /\ bereft' = bereft \union ({tasks[t].parent} \ {tasks'[t].parent, NoTask})
<1>1. TasksTyped /\ UNCHANGED <<lastNumber, holder, depends>> /\ Turns(u, NoRequest)
  BY DEF TasksInv, RewriteSubtask
<1>2. NoRequest \in RequestKinds /\ NoRequest.at = "idle"
  BY RequestsAre DEF NoRequest
<1>3. CASE UNCHANGED <<tasks, rewritten, bereft>>
  <2>1. Made' = Made
    BY <1>3 DEF Made
  <2> QED
    BY <1>1, <1>2, <1>3, <2>1, CodesStay DEF TasksTyped
<1>4. CASE ~UNCHANGED <<tasks, rewritten, bereft>>
  <2>0. PICK t : t = request[u].task
    OBVIOUS
  <2>1. /\ t \in Found /\ rewritten' = rewritten \union {t}
        /\ \E code \in CodesSent \union {tasks[t].code}, parent \in Made \union {NoTask} :
             /\ tasks' = [tasks EXCEPT ![t].code = code, ![t].parent = parent]
             /\ bereft' = bereft \union ({tasks[t].parent} \ {parent, NoTask})
    BY <1>4, <2>0, Zenon DEF RewriteSubtask
  <2>20. PICK code \in CodesSent \union {tasks[t].code}, parent \in Made \union {NoTask} :
          /\ tasks' = [tasks EXCEPT ![t].code = code, ![t].parent = parent]
          /\ bereft' = bereft \union ({tasks[t].parent} \ {parent, NoTask})
    BY <2>1, Zenon
  <2>2. PICK row \in Task : row = tasks[t]
    BY <1>1, <2>1, TaskRows
  <2>3. t \in Made /\ t \in Tasks /\ code \in Seq(Nat) /\ parent \in Tasks \union {NoTask}
    BY <1>1, <2>1, <2>2, <2>20, TaskRows, TasksAssumption DEF Task
  <2>4. PICK new : new = [code |-> code, parent |-> parent, deleted |-> row.deleted, hidden |-> row.hidden]
    OBVIOUS
  <2>5. new \in Task /\ new.parent = parent /\ new # Unmade
    BY <2>2, <2>3, <2>4 DEF Task, Unmade
  <2>6. [row EXCEPT !.code = code, !.parent = parent] = new
    <3>1. PICK one : one = [row EXCEPT !.code = code]
      OBVIOUS
    <3>2. one \in Task /\ one.code = code /\ one.deleted = row.deleted /\ one.hidden = row.hidden
      BY <2>2, <2>3, <3>1 DEF Task
    <3>3. [one EXCEPT !.parent = parent] = new
      BY <2>4, <3>2 DEF Task
    <3> QED
      BY <3>1, <3>3
  <2>7. tasks' = [tasks EXCEPT ![t] = new]
    BY <1>1, <2>2, <2>3, <2>6, <2>20 DEF TasksTyped
  <2>8. /\ tasks' \in [Tasks -> Task \union {Unmade}] /\ tasks'[t] = new
        /\ \A r \in Tasks \ {t} : tasks'[r] = tasks[r]
    BY <1>1, <2>3, <2>5, <2>7 DEF TasksTyped
  <2>9. Made' = Made /\ \A r \in Made \ {t} : tasks'[r] = tasks[r]
    BY <2>3, <2>5, <2>8 DEF Made
  <2>10. TasksTyped'
    <3>1. bereft' \subseteq Tasks /\ rewritten' \subseteq Tasks
      BY <1>1, <2>1, <2>2, <2>3, <2>20 DEF TasksTyped, Task
    <3> QED
      BY <1>1, <1>2, <2>8, <3>1, TurnsTyped DEF TasksTyped
  <2>11. CodesDrawn'
    <3> SUFFICES ASSUME NEW r \in Made
                 PROVE  /\ tasks'[r].parent \in Made \union {NoTask}
                        /\ tasks'[r].parent = NoTask /\ r \notin rewritten' => \E n \in 0 .. lastNumber : tasks'[r].code = <<n>>
      BY <1>1, <2>9 DEF CodesDrawn
    <3>1. CASE r = t
      BY <2>1, <2>5, <2>8, <3>1
    <3>2. CASE r # t
      BY <2>1, <2>9, <3>2 DEF TasksInv, CodesDrawn
    <3> QED
      BY <3>1, <3>2
  <2>12. NumbersUnique'
    BY <2>1, <2>9 DEF TasksInv, NumbersUnique
  <2>13. ASSUME NEW v \in Users PROVE Draws(v)'
    <3>1. CASE v = u
      BY <1>1, <1>2, <3>1, TurnsTyped DEF Draws
    <3>2. CASE v # u
      BY <1>1, <1>2, <2>9, <3>2, TurnsTyped DEF TasksInv, Draws
    <3> QED
      BY <3>1, <3>2
  <2> QED
    BY <2>1, <2>20, <2>3, <2>5, <2>8, <2>9, <2>10, <2>11, <2>12, <2>13 DEF TasksInv
<1> QED
  BY <1>3, <1>4

\* A request that ends early lets go of the sequence.
LEMMA FailRequestInv == ASSUME TasksInv, NEW u \in Users, FailRequest(u) PROVE TasksInv'
<1>1. TasksTyped /\ UNCHANGED <<lastNumber, tasks, depends, rewritten, bereft>> /\ Turns(u, NoRequest) /\ Unlock(u)
  BY DEF TasksInv, FailRequest
<1>2. NoRequest \in RequestKinds /\ NoRequest.at = "idle"
  BY RequestsAre DEF NoRequest
<1>3. Made' = Made
  BY <1>1 DEF Made
<1> QED
  BY <1>1, <1>2, <1>3, CodesStay DEF Unlock, TasksTyped

\* Every step of a request about tasks keeps the invariant, whoever else is at work.
LEMMA TasksStep == ASSUME TasksInv, [TasksNext]_taskVars PROVE TasksInv'
<1>1. CASE UNCHANGED taskVars
  <2>1. UNCHANGED <<lastNumber, holder, tasks, depends, request, rewritten, bereft>>
    BY <1>1 DEF taskVars
  <2> QED
    BY <2>1 DEF TasksInv, TasksTyped, CodesDrawn, NumbersUnique, Draws, Made
<1>2. CASE TasksNext
  BY <1>2, CountsInv, DeletesInv, InsertTaskInv, InsertSubtaskInv, RewriteInv, DependsInv, FailRequestInv
     DEF TasksNext, Accept, Resume
<1> QED
  BY <1>1, <1>2

\* The invariant of tasks holds at the start.
LEMMA TasksBegin == ASSUME TasksInit PROVE TasksInv
<1>1. Made = {}
  BY DEF TasksInit, Made
<1>2. TasksTyped
  BY RequestsAre DEF TasksInit, TasksTyped
<1> QED
  BY <1>1, <1>2 DEF TasksInit, TasksInv, CodesDrawn, NumbersUnique, Draws, NoRequest

\* No two first tasks share a number of the sequence but those an update made, for any number of
\* tasks, subtasks of their templates and requests that overlap and fail.
THEOREM NumbersStayUnique == TasksSpec => [](TasksTypeOK /\ NumbersUnique)
<1>1. TasksInv => TasksTypeOK /\ NumbersUnique
  BY TaskRows, RequestTyped DEF TasksInv, TasksTyped, TasksTypeOK
<1> QED
  BY <1>1, TasksBegin, TasksStep, PTL DEF TasksSpec

\* Requests one at a time: the code of a subtask ends with the number of those that were there
\* before it, unless one was taken from its parent; those that are there now are counted right;
\* and what a walk has not met it will not reach.
OneTask == \A u, v \in Users : request[u] # NoRequest /\ request[v] # NoRequest => u = v

Lettered ==
  \A t \in Made \ rewritten :
    LET p == tasks[t].parent
    IN  p # NoTask /\ p \notin bereft =>
          \E c \in Seq(Nat), k \in Nat : k < Siblings(p) /\ tasks[t].code = Append(c, k)

Counted(u) ==
  request[u].at = "insertSubtask" =>
    \E c \in Seq(Nat) : request[u].code = Append(c, Siblings(request[u].parent))

CodesInv == Lettered /\ CodesUnique /\ \A u \in Users : Counted(u)

\* Everything that can be reached from a set is in it.
Reached(group) == \A t \in group : DirectDependencies(t) \subseteq group

Walked(u) ==
  /\ request[u].at = "walk" =>
       /\ request[u].on \in request[u].queue \union request[u].visited
       /\ request[u].task \notin request[u].visited
       /\ \A t \in request[u].visited : DirectDependencies(t) \subseteq request[u].queue \union request[u].visited
  /\ request[u].at = "depend" =>
       \E group \in SUBSET Tasks : Reached(group) /\ request[u].on \in group /\ request[u].task \notin group

WalksInv == Acyclic /\ \A u \in Users : Walked(u)

\* Nobody else has a request while one is on its way.
LEMMA OthersRest ==
  ASSUME TasksTyped, OneTask, NEW u \in Users, request[u] # NoRequest \/ \A v \in Users : request[v] = NoRequest,
         NEW next \in RequestKinds, Turns(u, next)
  PROVE  OneTask' /\ request'[u] = next /\ \A v \in Users \ {u} : request'[v] = NoRequest
BY TurnsTyped DEF OneTask

\* Codes that stay, and what is counted of them.
LEMMA LettersStay ==
  ASSUME CodesInv, Made' = Made, UNCHANGED <<rewritten, bereft>>,
         \A t \in Made : tasks'[t].code = tasks[t].code /\ tasks'[t].parent = tasks[t].parent
  PROVE  Lettered' /\ CodesUnique' /\ \A p : Siblings(p)' = Siblings(p)
<1>1. \A p : Siblings(p)' = Siblings(p)
  BY DEF Siblings, Children
<1>2. CodesUnique'
  BY DEF CodesInv, CodesUnique
<1>3. Lettered'
  <2> SUFFICES ASSUME NEW r \in Made \ rewritten, tasks[r].parent # NoTask, tasks[r].parent \notin bereft
               PROVE  \E c \in Seq(Nat), k \in Nat : k < (Siblings(tasks[r].parent))' /\ tasks'[r].code = Append(c, k)
    BY DEF Lettered
  <2>1. PICK q : q = tasks[r].parent /\ tasks'[r].parent = q
    OBVIOUS
  <2>2. \E c \in Seq(Nat), k \in Nat : k < Siblings(q) /\ tasks[r].code = Append(c, k)
    BY <2>1 DEF CodesInv, Lettered
  <2>3. (Siblings(tasks[r].parent))' = Siblings(q)
    BY <1>1, <2>1
  <2> QED
    BY <2>2, <2>3
<1> QED
  BY <1>1, <1>2, <1>3

\* Subtasks counted with what is there.
LEMMA CountSubtasksCodes ==
  ASSUME TasksInv, CodesInv, OneTask, NEW u \in Users, CountSubtasks(u), \A v \in Users : request[v] = NoRequest
  PROVE  CodesInv'
<1>1. TasksTyped /\ UNCHANGED <<tasks, rewritten, bereft>> /\ Made' = Made
  BY DEF TasksInv, CountSubtasks, Made
<1>2. PICK p \in Found :
        Turns(u, [at |-> "insertSubtask", parent |-> p, code |-> Append(tasks[p].code, Siblings(p))])
  BY DEF CountSubtasks
<1>3. p \in Made /\ tasks[p].code \in Seq(Nat) /\ Siblings(p) \in Nat
  BY <1>1, TaskRows, SiblingsCounted
<1>4. PICK next : next = [at |-> "insertSubtask", parent |-> p, code |-> Append(tasks[p].code, Siblings(p))]
  OBVIOUS
<1>5. next \in RequestKinds
  <2>1. Append(tasks[p].code, Siblings(p)) \in Seq(Nat)
    BY <1>3
  <2> QED
    BY <1>3, <1>4, <2>1, RequestsAre DEF Made
<1>6. request'[u] = next /\ \A v \in Users \ {u} : request'[v] = NoRequest
  BY <1>1, <1>2, <1>4, <1>5, OthersRest
<1>7. Lettered' /\ CodesUnique' /\ \A q : Siblings(q)' = Siblings(q)
  BY <1>1, LettersStay
<1>8. ASSUME NEW v \in Users PROVE Counted(v)'
  <2>1. CASE v = u
    <3>1. request'[v].code = Append(tasks[p].code, Siblings(p)) /\ request'[v].parent = p
      BY <1>4, <1>6, <2>1
    <3>2. (Siblings(request[v].parent))' = Siblings(p)
      BY <1>7, <3>1
    <3> QED
      BY <1>3, <3>1, <3>2 DEF Counted
  <2>2. CASE v # u
    BY <1>6, <2>2 DEF Counted, NoRequest
  <2> QED
    BY <2>1, <2>2
<1> QED
  BY <1>7, <1>8 DEF CodesInv

\* The next subtask gets a code no other one has.
LEMMA InsertSubtaskCodes ==
  ASSUME TasksInv, CodesInv, OneTask, NEW u \in Users, InsertSubtask(u)
  PROVE  CodesInv'
<1>1. TasksTyped /\ request[u].parent \in Made /\ Turns(u, NoRequest) /\ request[u] # NoRequest
      /\ UNCHANGED <<rewritten, bereft>>
  BY RequestTyped DEF TasksInv, InsertSubtask, Draws
<1>2. PICK t \in Tasks \ Made : /\ tasks'[t] = NewTask(request[u].code, request[u].parent)
                                /\ Made' = Made \union {t}
                                /\ \A r \in Made : tasks'[r] = tasks[r]
  BY InsertSubtaskInv
<1>3. PICK p : p = request[u].parent
  OBVIOUS
<1>4. PICK begin \in Seq(Nat) : request[u].code = Append(begin, Siblings(p))
  BY <1>3 DEF CodesInv, Counted, InsertSubtask
<1>5. tasks'[t].parent = p /\ tasks'[t].code = Append(begin, Siblings(p)) /\ p \in Made
  BY <1>1, <1>2, <1>3, <1>4 DEF NewTask
<1>6. /\ Children(p)' = Children(p) \union {t} /\ t \notin Children(p)
      /\ \A q : q # p => Children(q)' = Children(q)
  BY <1>2, <1>5 DEF Children
<1>7. /\ Siblings(p)' = Siblings(p) + 1
      /\ \A q : q # p => Siblings(q)' = Siblings(q)
      /\ \A q : Siblings(q) \in Nat
  BY <1>6, SiblingsCounted, FS_AddElement DEF Siblings
<1>8. Lettered'
  <2> SUFFICES ASSUME NEW r \in Made' \ rewritten, tasks'[r].parent # NoTask, tasks'[r].parent \notin bereft
               PROVE  \E c \in Seq(Nat), k \in Nat : k < (Siblings(tasks[r].parent))' /\ tasks'[r].code = Append(c, k)
    BY <1>1 DEF Lettered
  <2>1. PICK q : q = tasks'[r].parent /\ (Siblings(tasks[r].parent))' = (Siblings(q))'
    OBVIOUS
  <2>2. CASE r = t
    <3>1. Siblings(p) \in Nat /\ Siblings(p) < (Siblings(p))' /\ q = p
      BY <1>5, <1>7, <2>1, <2>2
    <3> QED
      BY <1>5, <2>1, <2>2, <3>1
  <2>3. CASE r \in Made
    <3>1. PICK c \in Seq(Nat), k \in Nat : k < Siblings(q) /\ tasks[r].code = Append(c, k)
      BY <1>2, <2>1, <2>3 DEF CodesInv, Lettered
    <3>2. k < (Siblings(q))'
      BY <1>7, <3>1
    <3> QED
      BY <1>2, <2>1, <2>3, <3>1, <3>2
  <2> QED
    BY <1>2, <2>2, <2>3
<1>9. CodesUnique'
  <2>1. ASSUME NEW r \in Made \ rewritten, tasks[r].parent = p, p \notin bereft,
               tasks[r].code = Append(begin, Siblings(p))
        PROVE  FALSE
    <3>1. p # NoTask
      BY <1>5, TasksAssumption DEF Made
    <3>2. PICK c \in Seq(Nat), k \in Nat : k < Siblings(p) /\ tasks[r].code = Append(c, k)
      BY <2>1, <3>1 DEF CodesInv, Lettered
    <3>3. PICK n \in Nat : n = Siblings(p)
      BY <1>7
    <3>4. Append(c, k) = Append(begin, n)
      BY <2>1, <3>2, <3>3, Zenon
    <3>5. k = n
      BY <3>4, AppendsDiffer
    <3> QED
      BY <3>2, <3>3, <3>5
  <2>2. PICK code : code = Append(begin, Siblings(p))
    OBVIOUS
  <2>3. /\ tasks'[t].code = code /\ tasks'[t].parent = p
        /\ \A r \in Made \ rewritten : tasks[r].parent = p /\ p \notin bereft => tasks[r].code # code
        /\ \A r \in Made : tasks'[r] = tasks[r]
    BY <1>2, <1>5, <2>1, <2>2, Zenon
  <2> SUFFICES ASSUME NEW r \in Made' \ rewritten, NEW s \in Made' \ rewritten, r # s,
                      tasks'[r].parent = tasks'[s].parent, tasks'[r].parent # NoTask, tasks'[r].parent \notin bereft,
                      tasks'[r].code = tasks'[s].code
               PROVE  FALSE
    BY <1>1 DEF CodesUnique
  <2>4. CASE r \in Made /\ s \in Made
    BY <2>3, <2>4 DEF CodesInv, CodesUnique
  <2>5. CASE r = t \/ s = t
    BY <1>2, <2>3, <2>5
  <2> QED
    BY <1>2, <2>4, <2>5
<1>10. ASSUME NEW v \in Users PROVE Counted(v)'
  <2>1. request'[v] = NoRequest
    BY <1>1, OthersRest, RequestsAre
  <2> QED
    BY <2>1 DEF Counted, NoRequest
<1> QED
  BY <1>8, <1>9, <1>10 DEF CodesInv

\* The subtasks of a template are numbered as they are counted.
LEMMA InsertTaskCodes ==
  ASSUME TasksInv, CodesInv, OneTask, NEW u \in Users, InsertTask(u)
  PROVE  CodesInv'
<1>1. TasksTyped /\ Turns(u, NoRequest) /\ request[u] # NoRequest /\ UNCHANGED <<rewritten, bereft>>
  BY RequestTyped DEF TasksInv, InsertTask
<1>2. PICK number : number = request[u].number
  OBVIOUS
<1>3. PICK t, subtasks, items : Adds(number, t, subtasks, items)
  BY <1>1, <1>2, InsertAdds
<1>4. number = lastNumber + 1 /\ lastNumber \in Nat
  BY <1>2 DEF InsertTask, TasksInv, TasksTyped, Draws
<1>5. /\ t \in Tasks \ Made /\ items \in Nat /\ t # NoTask
      /\ subtasks \in [1 .. items -> Tasks \ (Made \union {t})]
      /\ \A i, j \in 1 .. items : subtasks[i] = subtasks[j] => i = j
      /\ \A r \in Made : tasks'[r] = tasks[r]
      /\ Made' = Made \union {t} \union {subtasks[i] : i \in 1 .. items}
  BY <1>3, TasksAssumption DEF Adds
<1>6. tasks'[t].code = <<number>> /\ tasks'[t].parent = NoTask
  BY <1>3 DEF Adds, NewTask
<1>7. ASSUME NEW i \in 1 .. items
      PROVE  tasks'[subtasks[i]].code = <<number, i - 1>> /\ tasks'[subtasks[i]].parent = t
  <2>1. tasks'[subtasks[i]] = NewTask(<<number, i - 1>>, t)
    BY <1>3 DEF Adds
  <2> QED
    BY <2>1 DEF NewTask
<1>8. /\ Children(t)' = {subtasks[i] : i \in 1 .. items}
      /\ \A q \in Made : Children(q)' = Children(q)
  <2>1. ASSUME NEW r \in Made PROVE tasks'[r].parent # t
    BY <1>5, <2>1 DEF TasksInv, CodesDrawn
  <2>2. \A q \in Made : q # t /\ q # NoTask
    BY <1>5, TasksAssumption DEF Made
  <2>3. Children(t)' = {subtasks[i] : i \in 1 .. items}
    BY <1>5, <1>6, <1>7, <2>1 DEF Children
  <2>4. ASSUME NEW q \in Made PROVE Children(q)' = Children(q)
    BY <1>5, <1>6, <1>7, <2>2 DEF Children
  <2> QED
    BY <2>3, <2>4
<1>9. (Siblings(t))' = items
  <2>1. subtasks \in Bijection(1 .. items, {subtasks[i] : i \in 1 .. items})
    BY <1>5 DEF Bijection, Injection, Surjection, IsInjective
  <2>2. IsFiniteSet(1 .. items) /\ Cardinality(1 .. items) = items
    BY <1>5, FS_Interval
  <2>3. ExistsBijection(1 .. items, {subtasks[i] : i \in 1 .. items})
    BY <2>1 DEF ExistsBijection
  <2>4. Cardinality({subtasks[i] : i \in 1 .. items}) = items
    BY <2>2, <2>3, FS_Bijection
  <2> QED
    BY <1>8, <2>4 DEF Siblings
<1>10. \A q \in Made : (Siblings(q))' = Siblings(q)
  BY <1>8 DEF Siblings
<1>11. Lettered'
  <2> SUFFICES ASSUME NEW r \in Made' \ rewritten, tasks'[r].parent # NoTask, tasks'[r].parent \notin bereft
               PROVE  \E c \in Seq(Nat), k \in Nat : k < (Siblings(tasks[r].parent))' /\ tasks'[r].code = Append(c, k)
    BY <1>1 DEF Lettered
  <2>1. PICK q : q = tasks'[r].parent /\ (Siblings(tasks[r].parent))' = (Siblings(q))'
    OBVIOUS
  <2>2. CASE r \in Made
    <3>1. PICK c \in Seq(Nat), k \in Nat : k < Siblings(q) /\ tasks[r].code = Append(c, k)
      BY <1>5, <2>1, <2>2 DEF CodesInv, Lettered
    <3>2. (Siblings(q))' = Siblings(q)
      BY <1>5, <1>10, <2>1, <2>2 DEF TasksInv, CodesDrawn
    <3> QED
      BY <1>5, <2>1, <2>2, <3>1, <3>2
  <2>3. ASSUME NEW i \in 1 .. items, r = subtasks[i]
        PROVE  \E c \in Seq(Nat), k \in Nat : k < (Siblings(tasks[r].parent))' /\ tasks'[r].code = Append(c, k)
    <3>1. q = t /\ tasks'[r].code = <<number, i - 1>>
      BY <1>7, <2>1, <2>3
    <3>2. i - 1 \in Nat /\ i - 1 < items
      BY <1>5
    <3>3. Append(<<number>>, i - 1) = <<number, i - 1>> /\ <<number>> \in Seq(Nat)
      BY <1>4, <3>2, FirstSubtask
    <3> QED
      BY <1>9, <2>1, <3>1, <3>2, <3>3
  <2> QED
    BY <1>5, <1>6, <2>2, <2>3
<1>12. CodesUnique'
  <2>1. \A i, j \in 1 .. items : tasks'[subtasks[i]].code = tasks'[subtasks[j]].code => i = j
    BY <1>5, <1>7
  <2> SUFFICES ASSUME NEW r \in Made' \ rewritten, NEW s \in Made' \ rewritten,
                      tasks'[r].parent = tasks'[s].parent, tasks'[r].parent # NoTask, tasks'[r].parent \notin bereft,
                      tasks'[r].code = tasks'[s].code
               PROVE  r = s
    BY <1>1 DEF CodesUnique
  <2>2. \A q \in Made : tasks'[q].parent # t
    BY <1>5 DEF TasksInv, CodesDrawn
  <2>3. CASE r \in Made /\ s \in Made
    BY <1>5, <2>3 DEF CodesInv, CodesUnique
  <2>4. CASE tasks'[r].parent = t
    <3>1. ASSUME NEW q \in Made', tasks'[q].parent = t PROVE \E i \in 1 .. items : q = subtasks[i]
      BY <1>5, <1>6, <2>2, <3>1
    <3>2. PICK i \in 1 .. items, j \in 1 .. items : r = subtasks[i] /\ s = subtasks[j]
      BY <2>4, <3>1
    <3> QED
      BY <2>1, <3>2
  <2> QED
    BY <1>5, <1>6, <1>7, <2>3, <2>4
<1>13. ASSUME NEW v \in Users PROVE Counted(v)'
  <2>1. request'[v] = NoRequest
    BY <1>1, OthersRest, RequestsAre
  <2> QED
    BY <2>1 DEF Counted, NoRequest
<1> QED
  BY <1>11, <1>12, <1>13 DEF CodesInv

\* A subtask that is moved away or coded anew says nothing of the others, and lowers no count but
\* that of the parent it leaves.
LEMMA RewriteCodes ==
  ASSUME TasksInv, CodesInv, OneTask, NEW u \in Users, RewriteSubtask(u)
  PROVE  CodesInv'
<1>1. TasksTyped /\ Turns(u, NoRequest) /\ request[u] # NoRequest /\ Made' = Made
  BY RequestTyped, RewriteInv DEF TasksInv, RewriteSubtask
<1>2. ASSUME NEW v \in Users PROVE Counted(v)'
  <2>1. request'[v] = NoRequest
    BY <1>1, OthersRest, RequestsAre
  <2> QED
    BY <2>1 DEF Counted, NoRequest
<1>3. CASE UNCHANGED <<tasks, rewritten, bereft>>
  BY <1>1, <1>2, <1>3, LettersStay DEF CodesInv
<1>4. CASE ~UNCHANGED <<tasks, rewritten, bereft>>
  <2>1. PICK t \in Made : /\ \A r \in Made \ {t} : tasks'[r] = tasks[r]
                          /\ rewritten' = rewritten \union {t}
                          /\ bereft' = bereft \union ({tasks[t].parent} \ {tasks'[t].parent, NoTask})
    BY <1>4, RewriteInv, Zenon
  <2>2. CodesUnique'
    BY <1>1, <2>1 DEF CodesInv, CodesUnique
  <2>3. ASSUME NEW q, q # NoTask, q \notin bereft' PROVE Siblings(q) <= (Siblings(q))' /\ (Siblings(q))' \in Nat
    <3>1. Children(q) \subseteq Children(q)'
      BY <1>1, <2>1, <2>3 DEF Children
    <3>2. IsFiniteSet(Children(q)')
      BY <1>1, TasksAssumption, FS_Subset DEF Children, Made
    <3> QED
      BY <3>1, <3>2, FS_Subset, FS_CardinalityType DEF Siblings
  <2>4. Lettered'
    <3> SUFFICES ASSUME NEW r \in Made \ rewritten', tasks'[r].parent # NoTask, tasks'[r].parent \notin bereft'
                 PROVE  \E c \in Seq(Nat), k \in Nat : k < (Siblings(tasks[r].parent))' /\ tasks'[r].code = Append(c, k)
      BY <1>1 DEF Lettered
    <3>1. PICK q : q = tasks'[r].parent /\ (Siblings(tasks[r].parent))' = (Siblings(q))'
      OBVIOUS
    <3>2. PICK c \in Seq(Nat), k \in Nat : k < Siblings(q) /\ tasks[r].code = Append(c, k)
      BY <2>1, <3>1 DEF CodesInv, Lettered
    <3>3. k < (Siblings(q))'
      BY <2>3, <3>1, <3>2, SiblingsCounted
    <3> QED
      BY <2>1, <3>1, <3>2, <3>3
  <2> QED
    BY <1>2, <2>2, <2>4 DEF CodesInv
<1> QED
  BY <1>3, <1>4

\* What a step makes of the request: it is the only one, and where it stands next.
LEMMA OneTurns ==
  ASSUME TasksInv, OneTask, NEW u \in Users, Accept(u) \/ Resume(u) \/ FailRequest(u),
         request[u] # NoRequest \/ \A v \in Users : request[v] = NoRequest
  PROVE  /\ OneTask' /\ TasksInv'
         /\ \A v \in Users \ {u} : request[v] = NoRequest /\ request'[v] = NoRequest
         /\ request'[u].at = "insertSubtask" => CountSubtasks(u)
         /\ request'[u].at = "walk" => BeginDependency(u) \/ Walk(u)
         /\ request'[u].at = "depend" => Walk(u)
<1>1. TasksTyped
  BY DEF TasksInv
<1>2. TasksInv' /\ TasksTyped'
  BY CountsInv, DeletesInv, InsertTaskInv, InsertSubtaskInv, RewriteInv, DependsInv, FailRequestInv DEF Accept, Resume, TasksInv
<1>3. \A v \in Users \ {u} : request[v] = NoRequest
  BY DEF OneTask
<1>4. UNCHANGED request \/ \E next : Turns(u, next)
  BY DEF Accept, Resume, LockSequence, CountSubtasks, DeleteTask, BulkDelete, RestoreTask, BeginDependency, FindSubtask,
     RemoveDependency, InsertTask, InsertSubtask, RewriteSubtask, HideSubtasks, DestroySubtasks, Walk, Depend, FailRequest
<1>5. \A v \in Users \ {u} : request'[v] = NoRequest
  <2>1. CASE UNCHANGED request
    BY <1>3, <2>1
  <2>2. ASSUME NEW next, Turns(u, next) PROVE \A v \in Users \ {u} : request'[v] = request[v]
    BY <1>1, <2>2 DEF Turns, TasksTyped
  <2> QED
    BY <1>3, <1>4, <2>1, <2>2
<1>6. OneTask'
  BY <1>5 DEF OneTask
<1>7. ASSUME NEW next, Turns(u, next) PROVE request'[u] = next
  BY <1>1, <1>7 DEF Turns, TasksTyped
<1>8. NoRequest.at = "idle"
  BY DEF NoRequest
<1>9. /\ request'[u].at = "insertSubtask" => CountSubtasks(u)
      /\ request'[u].at = "walk" => BeginDependency(u) \/ Walk(u)
      /\ request'[u].at = "depend" => Walk(u)
  <2>1. CASE LockSequence(u)
    BY <1>7, <2>1 DEF LockSequence
  <2>2. CASE CountSubtasks(u)
    <3>1. PICK p \in Found :
            Turns(u, [at |-> "insertSubtask", parent |-> p, code |-> Append(tasks[p].code, Siblings(p))])
      BY <2>2 DEF CountSubtasks
    <3>2. request'[u] = [at |-> "insertSubtask", parent |-> p, code |-> Append(tasks[p].code, Siblings(p))]
      BY <1>7, <3>1
    <3> QED
      BY <2>2, <3>2
  <2>3. CASE DeleteTask(u)
    <3>1. PICK t \in Found : Turns(u, IF tasks[t].parent = NoTask THEN [at |-> "hide", parent |-> t] ELSE NoRequest)
      BY <2>3, Zenon DEF DeleteTask
    <3>2. request'[u] = IF tasks[t].parent = NoTask THEN [at |-> "hide", parent |-> t] ELSE NoRequest
      BY <1>7, <3>1
    <3> QED
      BY <1>8, <3>2
  <2>4. CASE BulkDelete(u) \/ RestoreTask(u) \/ RemoveDependency(u)
    <3>1. request'[u] = NoRequest
      BY <2>4 DEF BulkDelete, RestoreTask, RemoveDependency
    <3> QED
      BY <1>8, <3>1
  <2>5. CASE InsertTask(u) \/ InsertSubtask(u) \/ RewriteSubtask(u) \/ DestroySubtasks(u) \/ Depend(u) \/ FailRequest(u)
    <3>1. Turns(u, NoRequest)
      BY <2>5, Zenon DEF InsertTask, InsertSubtask, RewriteSubtask, DestroySubtasks, Depend, FailRequest
    <3> QED
      BY <1>7, <1>8, <3>1
  <2>6. CASE HideSubtasks(u)
    <3>1. request[u] \in [at : {"hide", "destroy"}, parent : Tasks]
      BY <1>1, <2>6, RequestTyped DEF HideSubtasks
    <3>2. request'[u] = [request[u] EXCEPT !.at = "destroy"]
      <4>1. Turns(u, [request[u] EXCEPT !.at = "destroy"])
        BY <2>6, Zenon DEF HideSubtasks
      <4> QED
        BY <1>7, <4>1
    <3>3. request'[u].at = "destroy"
      BY <3>1, <3>2
    <3> QED
      BY <3>3
  <2>7. CASE BeginDependency(u)
    <3>1. PICK t \in Found, d \in Found : Turns(u, [at |-> "walk", task |-> t, on |-> d, queue |-> {d}, visited |-> {}])
      BY <2>7, Zenon DEF BeginDependency
    <3>2. request'[u] = [at |-> "walk", task |-> t, on |-> d, queue |-> {d}, visited |-> {}]
      BY <1>7, <3>1
    <3> QED
      BY <2>7, <3>2
  <2>8. CASE Walk(u)
    <3>1. PICK r \in [at : {"walk"}, task : Tasks, on : Tasks, queue : SUBSET Tasks, visited : SUBSET Tasks] : r = request[u]
      BY <1>1, <2>8, RequestTyped DEF Walk
    <3>2. \/ Turns(u, NoRequest) \/ Turns(u, [at |-> "depend", task |-> r.task, on |-> r.on])
          \/ \E t \in r.queue : Turns(u, [r EXCEPT !.visited = @ \union {t},
                                   !.queue = (@ \union DirectDependencies(t)) \ (r.visited \union {t})])
      BY <2>8, <3>1, Zenon DEF Walk
    <3>3. ASSUME NEW t \in r.queue, Turns(u, [r EXCEPT !.visited = @ \union {t},
                                   !.queue = (@ \union DirectDependencies(t)) \ (r.visited \union {t})])
          PROVE  request'[u].at = "walk"
      <4>1. PICK queue, visited : /\ queue = (r.queue \union DirectDependencies(t)) \ (r.visited \union {t})
                                  /\ visited = r.visited \union {t}
        OBVIOUS
      <4>2. request'[u] = [r EXCEPT !.visited = visited, !.queue = queue]
        BY <1>7, <3>3, <4>1
      <4> QED
        BY <4>2
    <3>4. Turns(u, NoRequest) => request'[u].at = "idle"
      BY <1>7, <1>8
    <3>5. Turns(u, [at |-> "depend", task |-> r.task, on |-> r.on]) => request'[u].at = "depend"
      <4>1. [at |-> "depend", task |-> r.task, on |-> r.on].at = "depend"
        OBVIOUS
      <4> QED
        BY <1>7, <4>1
    <3> QED
      BY <2>8, <3>2, <3>3, <3>4, <3>5
  <2>9. CASE FindSubtask(u)
    <3>1. PICK t \in Found : Turns(u, [at |-> "rewrite", task |-> t])
      BY <2>9, Zenon DEF FindSubtask
    <3>2. request'[u] = [at |-> "rewrite", task |-> t]
      BY <1>7, <3>1
    <3> QED
      BY <3>2
  <2> QED
    BY <2>1, <2>2, <2>3, <2>4, <2>5, <2>6, <2>7, <2>8, <2>9 DEF Accept, Resume
<1> QED
  BY <1>2, <1>3, <1>5, <1>6, <1>9

\* One request at a time, the subtasks of a task have codes of their own.
LEMMA SerialCodes ==
  ASSUME TasksInv, OneTask, CodesInv, NEW u \in Users, Accept(u) \/ Resume(u) \/ FailRequest(u),
         request[u] # NoRequest \/ \A v \in Users : request[v] = NoRequest
  PROVE  CodesInv'
<1>1. CASE CountSubtasks(u)
  <2>1. request[u] = NoRequest
    BY <1>1 DEF CountSubtasks
  <2> QED
    BY <1>1, <2>1, CountSubtasksCodes
<1>2. CASE InsertTask(u) \/ InsertSubtask(u) \/ RewriteSubtask(u)
  BY <1>2, InsertTaskCodes, InsertSubtaskCodes, RewriteCodes
<1>3. CASE ~CountSubtasks(u) /\ ~InsertTask(u) /\ ~InsertSubtask(u) /\ ~RewriteSubtask(u)
  <2>1. /\ Made' = Made /\ UNCHANGED <<rewritten, bereft>>
        /\ \A t \in Made : tasks'[t].code = tasks[t].code /\ tasks'[t].parent = tasks[t].parent
    <3>1. UNCHANGED tasks => Made' = Made
      BY DEF Made
    <3>2. \/ UNCHANGED <<tasks, rewritten, bereft>>
          \/ DeleteTask(u) \/ HideSubtasks(u) \/ DestroySubtasks(u) \/ BulkDelete(u) \/ RestoreTask(u)
      BY <1>3 DEF Accept, Resume, LockSequence, FindSubtask, BeginDependency, RemoveDependency, Walk, Depend, FailRequest
    <3> QED
      BY <3>1, <3>2, DeletesInv
  <2>2. Lettered' /\ CodesUnique'
    BY <2>1, LettersStay
  <2>3. \A v \in Users : request'[v].at # "insertSubtask"
    <3>1. NoRequest.at = "idle"
      BY DEF NoRequest
    <3> QED
      BY <1>3, <3>1, OneTurns
  <2> QED
    BY <2>2, <2>3 DEF CodesInv, Counted
<1> QED
  BY <1>1, <1>2, <1>3

\* What nobody has met on a walk that has ended cannot be reached, so that a dependency that is
\* added closes no cycle.
LEMMA DependAcyclic ==
  ASSUME Acyclic, TasksTyped, NEW t \in Tasks, NEW d \in Tasks, depends' = depends \union {<<t, d>>},
         NEW reach \in SUBSET Tasks, Reached(reach), d \in reach, t \notin reach
  PROVE  Acyclic'
<1> SUFFICES ASSUME NEW group \in (SUBSET Tasks) \ {{}}
             PROVE  \E s \in group : DirectDependencies(s)' \intersect group = {}
  BY DEF Acyclic
<1>1. /\ \A s \in Tasks : s # t => DirectDependencies(s)' = DirectDependencies(s)
      /\ DirectDependencies(t)' = DirectDependencies(t) \union {d}
  BY DEF DirectDependencies
<1>2. CASE d \in group
  <2>1. PICK s \in group \intersect reach : DirectDependencies(s) \intersect (group \intersect reach) = {}
    <3>1. group \intersect reach \in (SUBSET Tasks) \ {{}}
      BY <1>2
    <3> QED
      BY <3>1 DEF Acyclic
  <2>2. DirectDependencies(s) \subseteq reach /\ s # t
    BY <2>1 DEF Reached
  <2> QED
    BY <1>1, <2>1, <2>2
<1>3. CASE d \notin group
  <2>1. PICK s \in group : DirectDependencies(s) \intersect group = {}
    BY DEF Acyclic
  <2> QED
    BY <1>1, <1>3, <2>1
<1> QED
  BY <1>2, <1>3

\* One request at a time, no task depends on itself.
LEMMA SerialWalks ==
  ASSUME TasksInv, OneTask, WalksInv, NEW u \in Users, Accept(u) \/ Resume(u) \/ FailRequest(u),
         request[u] # NoRequest \/ \A v \in Users : request[v] = NoRequest
  PROVE  WalksInv'
<1>1. TasksTyped /\ NoRequest.at = "idle" /\ \A v \in Users \ {u} : request'[v] = NoRequest
  BY OneTurns DEF TasksInv, NoRequest
<1>2. ASSUME NEW v \in Users, v # u PROVE Walked(v)'
  BY <1>1, <1>2 DEF Walked
<1>3. CASE BeginDependency(u)
  <2>1. PICK t \in Found, d \in Found :
          t # d /\ Turns(u, [at |-> "walk", task |-> t, on |-> d, queue |-> {d}, visited |-> {}])
    BY <1>3, Zenon DEF BeginDependency
  <2>2. [at |-> "walk", task |-> t, on |-> d, queue |-> {d}, visited |-> {}] \in RequestKinds
    BY <1>1, TaskRows, RequestsAre
  <2>3. request'[u] = [at |-> "walk", task |-> t, on |-> d, queue |-> {d}, visited |-> {}]
    BY <1>1, <2>1, <2>2, TurnsTyped
  <2>4. Walked(u)'
    BY <2>3 DEF Walked
  <2>5. Acyclic'
    BY <1>3 DEF BeginDependency, WalksInv, Acyclic, DirectDependencies
  <2> QED
    BY <1>2, <2>4, <2>5 DEF WalksInv
<1>4. CASE Walk(u)
  <2>1. PICK r \in [at : {"walk"}, task : Tasks, on : Tasks, queue : SUBSET Tasks, visited : SUBSET Tasks] : r = request[u]
    BY <1>1, <1>4, RequestTyped DEF Walk
  <2>2. UNCHANGED depends
    BY <1>4 DEF Walk
  <2>3. Acyclic'
    BY <2>2 DEF WalksInv, Acyclic, DirectDependencies
  <2>4. /\ r.on \in r.queue \union r.visited /\ r.task \notin r.visited
        /\ \A t \in r.visited : DirectDependencies(t) \subseteq r.queue \union r.visited
    BY <2>1 DEF WalksInv, Walked
  <2>5. ASSUME r.task \in r.queue PROVE Walked(u)'
    <3>1. Turns(u, NoRequest)
      BY <1>4, <2>1, <2>5 DEF Walk
    <3>2. request'[u] = NoRequest
      BY <1>1, <3>1, TurnsTyped, RequestsAre
    <3> QED
      BY <1>1, <3>2 DEF Walked
  <2>6. ASSUME r.task \notin r.queue, r.queue = {} PROVE Walked(u)'
    <3>1. Turns(u, [at |-> "depend", task |-> r.task, on |-> r.on])
      BY <1>4, <2>1, <2>6, Zenon DEF Walk
    <3>2. [at |-> "depend", task |-> r.task, on |-> r.on] \in RequestKinds
      BY <2>1, RequestsAre
    <3>3. request'[u] = [at |-> "depend", task |-> r.task, on |-> r.on]
      BY <1>1, <3>1, <3>2, TurnsTyped
    <3>4. Reached(r.visited)' /\ r.on \in r.visited /\ r.task \notin r.visited
      BY <2>2, <2>4, <2>6 DEF Reached, DirectDependencies
    <3> QED
      BY <3>3, <3>4 DEF Walked
  <2>7. ASSUME r.task \notin r.queue, r.queue # {} PROVE Walked(u)'
    <3>1. PICK t \in r.queue : Turns(u, [r EXCEPT !.visited = @ \union {t},
                                   !.queue = (@ \union DirectDependencies(t)) \ (r.visited \union {t})])
      BY <1>4, <2>1, <2>7, Zenon DEF Walk
    <3>2. PICK queue, visited : /\ queue = (r.queue \union DirectDependencies(t)) \ (r.visited \union {t})
                                /\ visited = r.visited \union {t}
      OBVIOUS
    <3>3. queue \in SUBSET Tasks /\ visited \in SUBSET Tasks
      BY <1>1, <2>1, <3>1, <3>2 DEF DirectDependencies
    <3>4. PICK next : next = [r EXCEPT !.visited = visited, !.queue = queue]
      OBVIOUS
    <3>5. /\ next \in [at : {"walk"}, task : Tasks, on : Tasks, queue : SUBSET Tasks, visited : SUBSET Tasks]
          /\ next.at = "walk" /\ next.task = r.task /\ next.on = r.on /\ next.queue = queue /\ next.visited = visited
      BY <3>3, <3>4
    <3>6. Turns(u, next) /\ next \in RequestKinds
      <4>1. Turns(u, next)
        BY <3>1, <3>2, <3>4, Zenon
      <4>2. next \in RequestKinds
        BY <3>5 DEF RequestKinds
      <4> QED
        BY <4>1, <4>2
    <3>7. request'[u] = next
      BY <1>1, <3>6, TurnsTyped
    <3>8. queue \union visited = r.queue \union r.visited \union DirectDependencies(t)
      BY <3>1, <3>2
    <3>9. \A s : DirectDependencies(s)' = DirectDependencies(s)
      BY <2>2 DEF DirectDependencies
    <3>10. \A s \in visited : DirectDependencies(s) \subseteq queue \union visited
      BY <2>4, <3>2, <3>8
    <3>11. r.on \in queue \union visited /\ r.task \notin visited
      BY <2>4, <2>7, <3>1, <3>2, <3>8
    <3> QED
      BY <3>5, <3>7, <3>9, <3>10, <3>11 DEF Walked
  <2>8. Walked(u)'
    BY <2>5, <2>6, <2>7
  <2> QED
    BY <1>2, <2>3, <2>8 DEF WalksInv
<1>5. CASE ~BeginDependency(u) /\ ~Walk(u)
  <2>1. request'[u].at \notin {"walk", "depend"}
    BY <1>5, OneTurns
  <2>2. Walked(u)'
    BY <2>1 DEF Walked
  <2>3. Acyclic'
    <3>1. CASE Depend(u)
      <4>1. request[u].task \in Tasks /\ request[u].on \in Tasks
        BY <1>1, <3>1, RequestTyped DEF Depend
      <4>2. PICK group \in SUBSET Tasks : Reached(group) /\ request[u].on \in group /\ request[u].task \notin group
        BY <3>1 DEF WalksInv, Walked, Depend
      <4>3. Acyclic /\ depends' = depends \union {<<request[u].task, request[u].on>>}
        BY <3>1 DEF WalksInv, Depend
      <4> QED
        BY <1>1, <4>1, <4>2, <4>3, DependAcyclic
    <3>2. CASE depends' \subseteq depends
      <4>1. \A t : DirectDependencies(t)' \subseteq DirectDependencies(t)
        BY <3>2 DEF DirectDependencies
      <4> SUFFICES ASSUME NEW group \in (SUBSET Tasks) \ {{}}
                   PROVE  \E s \in group : DirectDependencies(s)' \intersect group = {}
        BY DEF Acyclic
      <4>2. PICK s \in group : DirectDependencies(s) \intersect group = {}
        BY DEF WalksInv, Acyclic
      <4> QED
        BY <4>1, <4>2
    <3>3. Depend(u) \/ depends' \subseteq depends
      BY <1>5 DEF Accept, Resume, LockSequence, CountSubtasks, FindSubtask, DeleteTask, BulkDelete, RestoreTask,
         RemoveDependency, InsertTask, InsertSubtask, RewriteSubtask, HideSubtasks, DestroySubtasks, FailRequest
    <3> QED
      BY <3>1, <3>2, <3>3
  <2> QED
    BY <1>2, <2>2, <2>3 DEF WalksInv
<1> QED
  BY <1>3, <1>4, <1>5

\* Requests one at a time: what holds of codes and dependencies.
SerialTasksInv == OneTask /\ CodesInv /\ WalksInv

\* One request at a time: every step keeps what holds of codes and dependencies.
LEMMA SerialTasksStep == ASSUME TasksInv, SerialTasksInv, SerialTasks PROVE SerialTasksInv'
<1>1. PICK u \in Users : /\ Accept(u) \/ Resume(u) \/ FailRequest(u)
                         /\ request[u] # NoRequest \/ \A v \in Users : request[v] = NoRequest
  <2>1. ASSUME NEW u \in Users, Resume(u) \/ FailRequest(u) PROVE request[u] # NoRequest
    <3>1. CASE FailRequest(u)
      BY <3>1, Zenon DEF FailRequest
    <3>2. CASE Resume(u)
      <4>1. request[u].at \in {"insert", "insertSubtask", "rewrite", "hide", "destroy", "walk", "depend"}
        BY <3>2, Zenon DEF Resume, InsertTask, InsertSubtask, RewriteSubtask, HideSubtasks, DestroySubtasks, Walk, Depend
      <4> QED
        BY <4>1 DEF NoRequest
    <3> QED
      BY <2>1, <3>1, <3>2
  <2> QED
    BY <2>1 DEF SerialTasks, TasksNext
<1> QED
  BY <1>1, OneTurns, SerialCodes, SerialWalks DEF SerialTasksInv

\* And it holds at the start.
LEMMA SerialTasksBegin == ASSUME TasksInit PROVE SerialTasksInv
<1>1. Made = {} /\ NoRequest.at = "idle"
  BY DEF TasksInit, Made, NoRequest
<1>2. \A u \in Users : request[u] = NoRequest
  BY DEF TasksInit
<1>3. Acyclic
  BY DEF TasksInit, Acyclic, DirectDependencies
<1> QED
  BY <1>1, <1>2, <1>3 DEF SerialTasksInv, OneTask, CodesInv, Lettered, CodesUnique, Counted, WalksInv, Walked

-----------------------------------------------------------------------------
(* Trees of employees and of units *)

\* Whom an employee reports to, and what a unit is part of
ManagerOf == [e \in Employed |-> staff[e].manager]
ParentOf == [u \in ActiveUnits |-> units[u].parent]

EditKinds ==
  {NoEdit}
  \union [at : {"manager"}, employee : Staff, manager : Staff \union {NoOne}]
  \union [at : {"hire"}, manager : Staff \union {NoOne}, status : EmployeeStatus]
  \union [at : {"unit"}, unit : Units, read : Unit, sent : Unit]

OrgTyped ==
  /\ staff \in [Staff -> Employee \union {Vacant}]
  /\ units \in [Units -> Unit \union {Vacant}]
  /\ reopened \subseteq Existent
  /\ edit \in [Editors -> EditKinds]

\* Managers and parents are there, as are the unit of an update and the parent it was sent.
ManagersThere == \A e \in Employed : staff[e].manager \in Employed \union {NoOne}
ParentsThere == \A u \in Existent : units[u].parent \in Existent \union {NoOne}
EditFits(q) ==
  edit[q].at = "unit" => edit[q].unit \in Existent /\ edit[q].sent.parent \in Existent \union {NoOne}

OrgInv == OrgTyped /\ ManagersThere /\ ParentsThere /\ \A q \in Editors : EditFits(q)

\* Requests one at a time: the new place is not below the one that moves, when it is written.
OneEdit == \A q, r \in Editors : edit[q] # NoEdit /\ edit[r] # NoEdit => q = r
Apart(q) ==
  edit[q].at = "manager" =>
    \E below \in SUBSET Staff :
      /\ edit[q].employee \in below /\ edit[q].manager \notin below
      /\ \A s \in Employed : staff[s].manager \in below => s \in below
Outside(q) ==
  edit[q].at = "unit" =>
    /\ edit[q].read = units[edit[q].unit]
    /\ edit[q].unit \in ActiveUnits /\ edit[q].sent.parent \notin {NoOne, edit[q].read.parent} =>
         \E below \in SUBSET Units :
           /\ edit[q].unit \in below /\ edit[q].sent.parent \notin below
           /\ \A s \in ActiveUnits : units[s].parent \in below => s \in below

StaffInv == OneEdit /\ ReportingEnds /\ \A q \in Editors : Apart(q)
UnitsInv == OneEdit /\ UnitsEnd /\ \A q \in Editors : Outside(q)

\* A row that is there is an employee, or a unit.
LEMMA OrgRows ==
  ASSUME OrgTyped
  PROVE  /\ \A e \in Staff : e \in Employed <=> staff[e] \in Employee
         /\ \A e \in Employed : /\ e \in Staff /\ staff[e].manager \in Staff \union {NoOne}
                                /\ staff[e].status \in EmployeeStatus
         /\ \A u \in Units : u \in Existent <=> units[u] \in Unit
         /\ \A u \in Existent : /\ u \in Units /\ units[u].parent \in Units \union {NoOne}
                                /\ units[u].active \in BOOLEAN
         /\ Vacant \notin Employee /\ Vacant \notin Unit
         /\ ActiveUnits \subseteq Existent
<1>1. Vacant \notin Employee /\ Vacant \notin Unit
  BY DEF Vacant, Employee, Unit
<1> QED
  BY <1>1 DEF OrgTyped, Employed, Existent, ActiveUnits, Employee, Unit

\* What an editor carries from its checks to its writing.
LEMMA EditTyped ==
  ASSUME OrgTyped, NEW q \in Editors
  PROVE  /\ edit[q] \in EditKinds
         /\ edit[q].at \in {"idle", "manager", "hire", "unit"}
         /\ edit[q].at = "idle" <=> edit[q] = NoEdit
         /\ edit[q].at = "manager" => edit[q].employee \in Staff /\ edit[q].manager \in Staff \union {NoOne}
         /\ edit[q].at = "hire" => edit[q].manager \in Staff \union {NoOne} /\ edit[q].status \in EmployeeStatus
         /\ edit[q].at = "unit" => edit[q].unit \in Units /\ edit[q].read \in Unit /\ edit[q].sent \in Unit
<1>1. edit[q] \in EditKinds
  BY DEF OrgTyped
<1> QED
  BY <1>1 DEF EditKinds, NoEdit

\* What a check leaves behind is an edit.
LEMMA EditsAre ==
  /\ NoEdit \in EditKinds
  /\ \A e \in Staff, m \in Staff \union {NoOne} : [at |-> "manager", employee |-> e, manager |-> m] \in EditKinds
  /\ \A m \in Staff \union {NoOne}, status \in EmployeeStatus :
       [at |-> "hire", manager |-> m, status |-> status] \in EditKinds
  /\ \A u \in Units, r, t \in Unit : [at |-> "unit", unit |-> u, read |-> r, sent |-> t] \in EditKinds
BY DEF EditKinds, NoEdit

\* A step that changes one edit keeps the type of all.
LEMMA EditsTyped ==
  ASSUME OrgTyped, NEW q \in Editors, NEW next \in EditKinds, Edits(q, next)
  PROVE  edit' \in [Editors -> EditKinds] /\ edit'[q] = next /\ \A r \in Editors \ {q} : edit'[r] = edit[r]
BY DEF OrgTyped, Edits

\* The reports of an employee include him and theirs: the levels that are walked suffice.
LEMMA SubordinatesClosed ==
  ASSUME OrgTyped, NEW e \in Employed
  PROVE  /\ Subordinates(e) \in SUBSET Staff /\ e \in Subordinates(e)
         /\ \A s \in Employed : staff[s].manager \in Subordinates(e) => s \in Subordinates(e)
<1> DEFINE Solves(level) ==
      level = [n \in Nat |-> IF n = 0 THEN {e} ELSE {s \in Employed : staff[s].manager \in level[n - 1]}]
<1>1. PICK levels : Levels({e}, Employed, ManagerOf, levels, Nat)
  BY LevelsExist
<1>2. \A L : {s \in Employed : ManagerOf[s] \in L} = {s \in Employed : staff[s].manager \in L}
  BY DEF ManagerOf
<1>3. Solves(levels)
  <2>1. levels = [n \in Nat |-> IF n = 0 THEN {e} ELSE {s \in Employed : ManagerOf[s] \in levels[n - 1]}]
    BY <1>1, Zenon DEF Levels
  <2> QED
    BY <1>2, <2>1
<1>4. PICK tree : tree = CHOOSE level : Solves(level)
  OBVIOUS
<1>5. Solves(tree)
  <2> HIDE DEF Solves
  <2> QED
    BY <1>3, <1>4
<1>6. Levels({e}, Employed, ManagerOf, tree, Nat)
  <2>1. tree = [n \in Nat |-> IF n = 0 THEN {e} ELSE {s \in Employed : ManagerOf[s] \in tree[n - 1]}]
    BY <1>2, <1>5
  <2> QED
    BY <2>1, Zenon DEF Levels
<1>7. Level(e) = [n \in 0 .. Cardinality(Staff) |-> tree[n]]
  BY <1>4 DEF Level
<1>8. Subordinates(e) = UNION {tree[n] : n \in 0 .. Cardinality(Staff)}
  BY <1>7 DEF Subordinates
<1>9. IsFiniteSet(Staff) /\ Cardinality(Staff) \in Nat /\ Employed \in SUBSET Staff /\ {e} \in SUBSET Staff
  BY OrgAssumption, FS_CardinalityType DEF Employed
<1>10. tree[0] = {e} /\ \A n \in Nat \ {0} : tree[n] \subseteq Employed
  BY <1>5
<1>11. e \in Subordinates(e) /\ Subordinates(e) \in SUBSET Staff
  BY <1>8, <1>9, <1>10
<1>12. ASSUME NEW s \in Employed, staff[s].manager \in Subordinates(e) PROVE s \in Subordinates(e)
  <2>1. PICK i \in 0 .. Cardinality(Staff) : ManagerOf[s] \in tree[i]
    BY <1>8, <1>12 DEF ManagerOf
  <2>2. \E j \in 0 .. Cardinality(Staff) : s \in tree[j]
    BY <1>6, <1>9, <2>1, LevelsSuffice
  <2> QED
    BY <1>8, <2>2
<1> QED
  BY <1>11, <1>12

\* So do those of an active unit.
LEMMA SubUnitsClosed ==
  ASSUME OrgTyped, NEW u \in ActiveUnits
  PROVE  /\ SubUnits(u) \in SUBSET Units /\ u \in SubUnits(u)
         /\ \A s \in ActiveUnits : units[s].parent \in SubUnits(u) => s \in SubUnits(u)
<1> DEFINE Solves(level) ==
      level = [n \in Nat |-> IF n = 0 THEN {u} \intersect ActiveUnits
                             ELSE {s \in ActiveUnits : units[s].parent \in level[n - 1]}]
<1> DEFINE X == {u} \intersect ActiveUnits
<1>1. PICK levels : Levels(X, ActiveUnits, ParentOf, levels, Nat)
  BY LevelsExist
<1>2. \A L : {s \in ActiveUnits : ParentOf[s] \in L} = {s \in ActiveUnits : units[s].parent \in L}
  BY DEF ParentOf
<1>3. Solves(levels)
  <2>1. levels = [n \in Nat |-> IF n = 0 THEN X ELSE {s \in ActiveUnits : ParentOf[s] \in levels[n - 1]}]
    BY <1>1, Zenon DEF Levels
  <2> QED
    BY <1>2, <2>1
<1>4. PICK tree : tree = CHOOSE level : Solves(level)
  OBVIOUS
<1>5. Solves(tree)
  <2> HIDE DEF Solves
  <2> QED
    BY <1>3, <1>4
<1>6. Levels(X, ActiveUnits, ParentOf, tree, Nat)
  <2>1. tree = [n \in Nat |-> IF n = 0 THEN X ELSE {s \in ActiveUnits : ParentOf[s] \in tree[n - 1]}]
    BY <1>2, <1>5
  <2> QED
    BY <2>1, Zenon DEF Levels
<1>8. SubUnits(u) = UNION {tree[n] : n \in 0 .. Cardinality(Units)}
  BY <1>4 DEF SubUnits
<1>9. /\ IsFiniteSet(Units) /\ Cardinality(Units) \in Nat /\ ActiveUnits \in SUBSET Units
      /\ X \in SUBSET Units /\ X = {u}
  BY OrgAssumption, FS_CardinalityType DEF ActiveUnits, Existent
<1> HIDE DEF X
<1>10. tree[0] = {u} /\ \A n \in Nat \ {0} : tree[n] \subseteq ActiveUnits
  BY <1>5, <1>9 DEF X
<1>11. u \in SubUnits(u) /\ SubUnits(u) \in SUBSET Units
  BY <1>8, <1>9, <1>10
<1>12. ASSUME NEW s \in ActiveUnits, units[s].parent \in SubUnits(u) PROVE s \in SubUnits(u)
  <2>1. PICK i \in 0 .. Cardinality(Units) : ParentOf[s] \in tree[i]
    BY <1>8, <1>12 DEF ParentOf
  <2>2. \E j \in 0 .. Cardinality(Units) : s \in tree[j]
    <3>1. IsFiniteSet(Units) /\ ActiveUnits \in SUBSET Units /\ X \in SUBSET Units /\ s \in ActiveUnits
      BY <1>9, <1>12
    <3> QED
      BY <1>6, <2>1, <3>1, LevelsSuffice
  <2> QED
    BY <1>8, <2>2
<1> QED
  BY <1>11, <1>12
\* A request that reads.
LEMMA OrgReads ==
  ASSUME OrgInv, UNCHANGED <<staff, units, reopened>>, NEW q \in Editors, NEW next \in EditKinds, Edits(q, next),
         next.at = "unit" => next.unit \in Existent /\ next.sent.parent \in Existent \union {NoOne}
  PROVE  OrgInv'
<1>1. OrgTyped
  BY DEF OrgInv
<1>2. Employed' = Employed /\ Existent' = Existent
  BY DEF Employed, Existent
<1>3. OrgTyped'
  BY <1>1, <1>2, EditsTyped DEF OrgTyped
<1>4. ManagersThere' /\ ParentsThere'
  BY <1>2 DEF OrgInv, ManagersThere, ParentsThere
<1>5. ASSUME NEW r \in Editors PROVE EditFits(r)'
  <2>1. CASE r = q
    BY <1>1, <1>2, <2>1, EditsTyped DEF EditFits
  <2>2. CASE r # q
    BY <1>1, <1>2, <2>2, EditsTyped DEF EditFits, OrgInv
  <2> QED
    BY <2>1, <2>2
<1> QED
  BY <1>3, <1>4, <1>5 DEF OrgInv

\* A step on employees.
LEMMA StaffChanges ==
  ASSUME OrgInv, UNCHANGED <<units, reopened>>, staff' \in [Staff -> Employee \union {Vacant}], ManagersThere',
         NEW q, UNCHANGED edit \/ (q \in Editors /\ Edits(q, NoEdit))
  PROVE  OrgInv'
<1>1. OrgTyped /\ NoEdit.at = "idle"
  BY DEF OrgInv, NoEdit
<1>2. Existent' = Existent
  BY DEF Existent
<1>3. /\ edit' \in [Editors -> EditKinds]
      /\ \A r \in Editors : edit'[r] = edit[r] \/ edit'[r] = NoEdit
  BY <1>1, EditsTyped, EditsAre DEF OrgTyped
<1>4. OrgTyped' /\ ParentsThere'
  BY <1>1, <1>2, <1>3 DEF OrgTyped, OrgInv, ParentsThere
<1>5. ASSUME NEW r \in Editors PROVE EditFits(r)'
  BY <1>1, <1>2, <1>3 DEF EditFits, OrgInv
<1> QED
  BY <1>4, <1>5 DEF OrgInv

\* What WriteManager makes of the employees.
LEMMA WriteManagerStaff ==
  ASSUME OrgInv, NEW q \in Editors, WriteManager(q)
  PROVE  /\ staff' \in [Staff -> Employee \union {Vacant}] /\ Employed' = Employed
         /\ \/ UNCHANGED staff
            \/ /\ edit[q].employee \in Employed /\ edit[q].manager \in Employed \union {NoOne}
               /\ staff'[edit[q].employee].manager = edit[q].manager
               /\ \A s \in Employed : s # edit[q].employee => staff'[s] = staff[s]
<1>1. OrgTyped
  BY DEF OrgInv
<1>2. PICK e, m : e = edit[q].employee /\ m = edit[q].manager
  OBVIOUS
<1>3. staff' = IF e \in Employed /\ m \in Employed \union {NoOne} THEN [staff EXCEPT ![e].manager = m] ELSE staff
  BY <1>2, Zenon DEF WriteManager
<1>4. CASE ~(e \in Employed /\ m \in Employed \union {NoOne})
  BY <1>1, <1>3, <1>4 DEF OrgTyped, Employed
<1>5. CASE e \in Employed /\ m \in Employed \union {NoOne}
  <2>1. PICK row \in Employee : row = staff[e]
    BY <1>1, <1>5, OrgRows
  <2>2. PICK new : new = [row EXCEPT !.manager = m]
    OBVIOUS
  <2>3. new \in Employee /\ new.manager = m
    BY <1>1, <1>5, <2>2, OrgRows DEF Employee
  <2>4. staff' = [staff EXCEPT ![e] = new]
    BY <1>3, <1>5, <2>1, <2>2
  <2>5. /\ staff' \in [Staff -> Employee \union {Vacant}] /\ staff'[e] = new
        /\ \A s \in Staff : s # e => staff'[s] = staff[s]
    BY <1>1, <1>5, <2>3, <2>4, OrgRows DEF OrgTyped
  <2>6. Employed' = Employed
    BY <1>1, <1>5, <2>3, <2>5, OrgRows DEF Employed
  <2> QED
    BY <1>2, <1>5, <2>3, <2>5, <2>6 DEF Employed
<1> QED
  BY <1>4, <1>5

\* What Hire makes of them.
LEMMA HireStaff ==
  ASSUME OrgInv, NEW q \in Editors, Hire(q)
  PROVE  /\ staff' \in [Staff -> Employee \union {Vacant}]
         /\ \/ UNCHANGED staff
            \/ \E e \in Staff \ Employed : /\ edit[q].manager \in Employed \union {NoOne}
                                          /\ staff'[e].manager = edit[q].manager
                                          /\ Employed' = Employed \union {e}
                                          /\ \A s \in Employed : staff'[s] = staff[s]
<1>1. OrgTyped
  BY DEF OrgInv
<1>2. CASE edit[q].manager \notin Employed \union {NoOne}
  BY <1>1, <1>2 DEF Hire, OrgTyped
<1>3. CASE edit[q].manager \in Employed \union {NoOne}
  <2>1. PICK e \in Staff \ Employed :
          staff' = [staff EXCEPT ![e] = [manager |-> edit[q].manager, status |-> edit[q].status]]
    BY <1>3, Zenon DEF Hire
  <2>2. edit[q].manager \in Staff \union {NoOne} /\ edit[q].status \in EmployeeStatus
    BY <1>1, EditTyped DEF Hire
  <2>3. PICK new : new = [manager |-> edit[q].manager, status |-> edit[q].status]
    OBVIOUS
  <2>4. new \in Employee /\ new.manager = edit[q].manager
    BY <2>2, <2>3 DEF Employee
  <2>5. staff' = [staff EXCEPT ![e] = new]
    BY <2>1, <2>3
  <2>6. /\ staff' \in [Staff -> Employee \union {Vacant}] /\ staff'[e] = new
        /\ \A s \in Staff : s # e => staff'[s] = staff[s]
    BY <1>1, <2>4, <2>5 DEF OrgTyped
  <2>7. Employed' = Employed \union {e}
    BY <1>1, <2>4, <2>6, OrgRows DEF Employed
  <2> QED
    BY <1>3, <2>4, <2>6, <2>7 DEF Employed
<1> QED
  BY <1>2, <1>3

\* What the status and a dismissal make of them.
LEMMA StatusStaff ==
  ASSUME OrgInv, SetEmployeeStatus
  PROVE  /\ staff' \in [Staff -> Employee \union {Vacant}] /\ Employed' = Employed
         /\ \A s \in Employed : staff'[s].manager = staff[s].manager
<1>1. OrgTyped
  BY DEF OrgInv
<1>2. PICK e \in Employed, status \in EmployeeStatus : staff' = [staff EXCEPT ![e].status = status]
  BY Zenon DEF SetEmployeeStatus
<1>3. PICK row \in Employee : row = staff[e]
  BY <1>1, OrgRows
<1>4. PICK new : new = [row EXCEPT !.status = status]
  OBVIOUS
<1>5. new \in Employee /\ new.manager = row.manager
  BY <1>4 DEF Employee
<1>6. staff' = [staff EXCEPT ![e] = new]
  BY <1>2, <1>3, <1>4
<1>7. /\ staff' \in [Staff -> Employee \union {Vacant}] /\ staff'[e] = new
      /\ \A s \in Staff : s # e => staff'[s] = staff[s]
  BY <1>1, <1>5, <1>6, OrgRows DEF OrgTyped
<1>8. Employed' = Employed
  BY <1>1, <1>5, <1>7, OrgRows DEF Employed
<1>9. \A s \in Employed : staff'[s].manager = staff[s].manager
  BY <1>3, <1>5, <1>7 DEF Employed
<1> QED
  BY <1>7, <1>8, <1>9

\* Who is deleted is gone, and those who reported to him report to nobody.
LEMMA DismissStaff ==
  ASSUME OrgInv, Dismiss
  PROVE  /\ staff' \in [Staff -> Employee \union {Vacant}]
         /\ \E e \in Employed : /\ Employed' = Employed \ {e}
                               /\ \A s \in Employed \ {e} :
                                    staff'[s].manager = IF staff[s].manager = e THEN NoOne ELSE staff[s].manager
<1>1. OrgTyped
  BY DEF OrgInv
<1>2. PICK e \in Employed :
       staff' = [s \in Staff |->
         IF s = e THEN Vacant
         ELSE IF s \in Employed /\ staff[s].manager = e THEN [staff[s] EXCEPT !.manager = NoOne]
         ELSE staff[s]]
  BY Zenon DEF Dismiss
<1>3. ASSUME NEW s \in Employed
      PROVE  /\ [staff[s] EXCEPT !.manager = NoOne] \in Employee
             /\ [staff[s] EXCEPT !.manager = NoOne].manager = NoOne
  <2>1. PICK row \in Employee : row = staff[s]
    BY <1>1, OrgRows
  <2> QED
    BY <2>1 DEF Employee
<1>4. ASSUME NEW s \in Staff
      PROVE  /\ staff'[s] \in Employee \union {Vacant}
             /\ s \in Employed /\ s # e <=> staff'[s] # Vacant
             /\ s \in Employed /\ s # e =>
                  staff'[s].manager = IF staff[s].manager = e THEN NoOne ELSE staff[s].manager
  <2>1. CASE s = e
    BY <1>2, <2>1
  <2>2. CASE s # e /\ s \in Employed /\ staff[s].manager = e
    <3>1. staff'[s] = [staff[s] EXCEPT !.manager = NoOne]
      BY <1>2, <2>2
    <3>2. PICK new : new = [staff[s] EXCEPT !.manager = NoOne]
      OBVIOUS
    <3>3. new \in Employee /\ new.manager = NoOne /\ staff'[s] = new
      BY <1>3, <2>2, <3>1, <3>2
    <3> QED
      BY <1>1, <2>2, <3>3, OrgRows
  <2>3. CASE s # e /\ ~(s \in Employed /\ staff[s].manager = e)
    <3>1. staff'[s] = staff[s]
      BY <1>2, <2>3
    <3> QED
      BY <1>1, <2>3, <3>1, OrgRows DEF OrgTyped, Employed
  <2> QED
    BY <2>1, <2>2, <2>3
<1>5. staff' \in [Staff -> Employee \union {Vacant}]
  BY <1>2, <1>4
<1>6. Employed' = Employed \ {e}
  BY <1>4 DEF Employed
<1>7. \A s \in Employed \ {e} :
        staff'[s].manager = IF staff[s].manager = e THEN NoOne ELSE staff[s].manager
  BY <1>4 DEF Employed
<1> QED
  BY <1>5, <1>6, <1>7

\* Managers are there after each.
LEMMA StaffWritesInv ==
  ASSUME OrgInv, SetEmployeeStatus \/ Dismiss \/ \E q \in Editors : WriteManager(q) \/ Hire(q)
  PROVE  OrgInv'
<1>1. UNCHANGED <<units, reopened>> /\ \E q : UNCHANGED edit \/ (q \in Editors /\ Edits(q, NoEdit))
  <2>1. CASE SetEmployeeStatus \/ Dismiss
    BY <2>1 DEF SetEmployeeStatus, Dismiss
  <2>2. ASSUME NEW q \in Editors, WriteManager(q) \/ Hire(q)
        PROVE  UNCHANGED <<units, reopened>> /\ q \in Editors /\ Edits(q, NoEdit)
    BY <2>2, Zenon DEF WriteManager, Hire
  <2> QED
    BY <2>1, <2>2
<1>2. staff' \in [Staff -> Employee \union {Vacant}] /\ ManagersThere'
  <2>1. CASE SetEmployeeStatus
    BY <2>1, StatusStaff DEF OrgInv, ManagersThere
  <2>2. CASE Dismiss
    BY <2>2, DismissStaff DEF OrgInv, ManagersThere
  <2>3. ASSUME NEW q \in Editors, WriteManager(q)
        PROVE  staff' \in [Staff -> Employee \union {Vacant}] /\ ManagersThere'
    BY <2>3, WriteManagerStaff DEF OrgInv, ManagersThere
  <2>4. ASSUME NEW q \in Editors, Hire(q)
        PROVE  staff' \in [Staff -> Employee \union {Vacant}] /\ ManagersThere'
    <3>1. UNCHANGED staff => ManagersThere'
      BY DEF OrgInv, ManagersThere, Employed
    <3>2. ASSUME NEW e \in Staff \ Employed, edit[q].manager \in Employed \union {NoOne},
                 staff'[e].manager = edit[q].manager, Employed' = Employed \union {e},
                 \A s \in Employed : staff'[s] = staff[s]
          PROVE  ManagersThere'
      BY <3>2 DEF OrgInv, ManagersThere
    <3> QED
      BY <2>4, <3>1, <3>2, HireStaff
  <2> QED
    BY <2>1, <2>2, <2>3, <2>4
<1> QED
  BY <1>1, <1>2, StaffChanges

\* The checks of changes of staff write nothing but the edit.
LEMMA StaffChecksInv ==
  ASSUME OrgInv, NEW q \in Editors, CheckChange(q) \/ CheckUpdate(q) \/ CheckHire(q) \/ DropEdit(q)
  PROVE  OrgInv'
<1>1. OrgTyped /\ UNCHANGED <<staff, units, reopened>> /\ NoEdit.at = "idle" /\ NoEdit \in EditKinds
  BY EditsAre DEF OrgInv, CheckChange, CheckUpdate, CheckHire, DropEdit, NoEdit
<1>2. \E next \in EditKinds : Edits(q, next) /\ next.at # "unit"
  <2>1. CASE CheckChange(q) \/ CheckUpdate(q)
    <3>1. PICK e \in Employed, m \in Employed \union {NoOne} :
            Edits(q, [at |-> "manager", employee |-> e, manager |-> m])
      BY <2>1, Zenon DEF CheckChange, CheckUpdate
    <3>2. [at |-> "manager", employee |-> e, manager |-> m] \in EditKinds
      BY EditsAre DEF Employed
    <3> QED
      BY <3>1, <3>2
  <2>2. CASE CheckHire(q)
    <3>1. PICK m \in {NoOne} \union {s \in Employed : staff[s].status # "TERMINATED"}, status \in EmployeeStatus :
            Edits(q, [at |-> "hire", manager |-> m, status |-> status])
      BY <2>2, Zenon DEF CheckHire
    <3>2. [at |-> "hire", manager |-> m, status |-> status] \in EditKinds
      BY EditsAre DEF Employed
    <3> QED
      BY <3>1, <3>2
  <2>3. CASE DropEdit(q)
    BY <1>1, <2>3 DEF DropEdit
  <2> QED
    BY <2>1, <2>2, <2>3
<1> QED
  BY <1>1, <1>2, OrgReads
\* A step on units, none of which vanishes.
LEMMA UnitsChange ==
  ASSUME OrgInv, UNCHANGED staff, units' \in [Units -> Unit \union {Vacant}], Existent \subseteq Existent',
         ParentsThere', reopened' \subseteq Existent',
         NEW q, UNCHANGED edit \/ (q \in Editors /\ Edits(q, NoEdit))
  PROVE  OrgInv'
<1>1. OrgTyped /\ NoEdit.at = "idle"
  BY DEF OrgInv, NoEdit
<1>2. Employed' = Employed
  BY DEF Employed
<1>3. /\ edit' \in [Editors -> EditKinds]
      /\ \A r \in Editors : edit'[r] = edit[r] \/ edit'[r] = NoEdit
  BY <1>1, EditsTyped, EditsAre DEF OrgTyped
<1>4. OrgTyped' /\ ManagersThere'
  BY <1>1, <1>2, <1>3 DEF OrgTyped, OrgInv, ManagersThere
<1>5. ASSUME NEW r \in Editors PROVE EditFits(r)'
  BY <1>1, <1>3 DEF EditFits, OrgInv
<1> QED
  BY <1>4, <1>5 DEF OrgInv

\* What each makes of the units.
LEMMA AddUnitUnits ==
  ASSUME OrgInv, AddUnit
  PROVE  /\ units' \in [Units -> Unit \union {Vacant}]
         /\ \E u \in Units \ Existent : /\ units'[u].parent \in Existent \union {NoOne}
                                        /\ Existent' = Existent \union {u}
                                        /\ \A s \in Existent : units'[s] = units[s]
<1>1. OrgTyped
  BY DEF OrgInv
<1>2. PICK u \in Units \ Existent, parent \in Existent \union {NoOne}, isActive \in BOOLEAN :
        units' = [units EXCEPT ![u] = [parent |-> parent, active |-> isActive]]
  BY Zenon DEF AddUnit
<1>3. PICK new : new = [parent |-> parent, active |-> isActive]
  OBVIOUS
<1>4. new \in Unit /\ new.parent = parent
  BY <1>3 DEF Unit, Existent
<1>5. units' = [units EXCEPT ![u] = new]
  BY <1>2, <1>3
<1>6. /\ units' \in [Units -> Unit \union {Vacant}] /\ units'[u] = new
      /\ \A s \in Units : s # u => units'[s] = units[s]
  BY <1>1, <1>4, <1>5 DEF OrgTyped
<1>7. Existent' = Existent \union {u}
  BY <1>1, <1>4, <1>6, OrgRows DEF Existent
<1> QED
  BY <1>4, <1>6, <1>7 DEF Existent

\* A unit is deactivated and keeps its parent.
LEMMA DeactivateUnits ==
  ASSUME OrgInv, Deactivate
  PROVE  /\ units' \in [Units -> Unit \union {Vacant}] /\ Existent' = Existent
         /\ \A s \in Existent : units'[s].parent = units[s].parent /\ (units'[s].active => units[s].active)
<1>1. OrgTyped
  BY DEF OrgInv
<1>2. PICK u \in ActiveUnits : units' = [units EXCEPT ![u].active = FALSE]
  BY Zenon DEF Deactivate
<1>3. PICK row \in Unit : row = units[u]
  BY <1>1, OrgRows
<1>4. PICK new : new = [row EXCEPT !.active = FALSE]
  OBVIOUS
<1>5. new \in Unit /\ new.parent = row.parent /\ ~new.active
  BY <1>4 DEF Unit
<1>6. units' = [units EXCEPT ![u] = new]
  BY <1>2, <1>3, <1>4
<1>7. u \in Existent /\ u \in Units
  BY <1>1, OrgRows
<1>8. /\ units' \in [Units -> Unit \union {Vacant}] /\ units'[u] = new
      /\ \A s \in Units : s # u => units'[s] = units[s]
  BY <1>1, <1>5, <1>6, <1>7 DEF OrgTyped
<1>9. Existent' = Existent
  BY <1>1, <1>5, <1>7, <1>8, OrgRows DEF Existent
<1>10. ASSUME NEW s \in Existent PROVE units'[s].parent = units[s].parent /\ (units'[s].active => units[s].active)
  BY <1>3, <1>5, <1>8 DEF Existent
<1> QED
  BY <1>8, <1>9, <1>10

\* An update writes what differs from the row it has read.
LEMMA WriteUnitUnits ==
  ASSUME OrgInv, NEW q \in Editors, WriteUnit(q), NEW u, u = edit[q].unit
  PROVE  /\ units' \in [Units -> Unit \union {Vacant}] /\ Existent' = Existent /\ u \in Existent
         /\ \A s \in Existent : s # u => units'[s] = units[s]
         /\ units'[u].parent = IF edit[q].sent.parent = edit[q].read.parent THEN units[u].parent ELSE edit[q].sent.parent
         /\ units'[u].active = IF edit[q].sent.active = edit[q].read.active THEN units[u].active ELSE edit[q].sent.active
         /\ units'[u].parent \in Existent \union {NoOne}
         /\ reopened' = IF units'[u].active /\ ~units[u].active THEN reopened \union {u} ELSE reopened
<1>1. OrgTyped /\ u \in Existent /\ u \in Units /\ edit[q].sent.parent \in Existent \union {NoOne}
      /\ units[u].parent \in Existent \union {NoOne}
  BY OrgRows DEF OrgInv, EditFits, WriteUnit, ParentsThere
<1>2. edit[q].read \in Unit /\ edit[q].sent \in Unit
  BY <1>1, EditTyped DEF WriteUnit
<1>3. PICK read \in Unit, sent \in Unit : read = edit[q].read /\ sent = edit[q].sent
  BY <1>2
<1>4. PICK row \in Unit : row = units[u]
  BY <1>1, OrgRows
<1>5. PICK new : new = [field \in DOMAIN row |-> IF sent[field] = read[field] THEN row[field] ELSE sent[field]]
  OBVIOUS
<1>6. units' = [units EXCEPT ![u] = new]
  BY <1>3, <1>4, <1>5 DEF WriteUnit
<1>7. DOMAIN row = {"parent", "active"}
  BY DEF Unit
<1>8. /\ new.parent = IF sent.parent = read.parent THEN row.parent ELSE sent.parent
      /\ new.active = IF sent.active = read.active THEN row.active ELSE sent.active
      /\ DOMAIN new = {"parent", "active"}
  BY <1>5, <1>7
<1>9. new \in Unit
  <2>1. new.parent \in Units \union {NoOne} /\ new.active \in BOOLEAN
    BY <1>8 DEF Unit
  <2>2. new = [parent |-> new.parent, active |-> new.active]
    BY <1>5, <1>7
  <2> QED
    BY <2>1, <2>2 DEF Unit
<1>10. /\ units' \in [Units -> Unit \union {Vacant}] /\ units'[u] = new
       /\ \A s \in Units : s # u => units'[s] = units[s]
  BY <1>1, <1>6, <1>9 DEF OrgTyped
<1>11. Existent' = Existent
  BY <1>1, <1>9, <1>10, OrgRows DEF Existent
<1>12. reopened' = IF new.active /\ ~row.active THEN reopened \union {u} ELSE reopened
  <2>1. reopened' = IF (IF sent.active = read.active THEN row.active ELSE sent.active) /\ ~row.active
                    THEN reopened \union {u} ELSE reopened
    BY <1>3, <1>4 DEF WriteUnit
  <2> QED
    BY <1>8, <2>1
<1>13. new.parent \in Existent \union {NoOne}
  BY <1>1, <1>3, <1>4, <1>8
<1> QED
  BY <1>1, <1>3, <1>4, <1>8, <1>10, <1>11, <1>12, <1>13 DEF Existent

\* Adding, deactivating and rewriting units keep the invariant.
LEMMA UnitsWritesInv ==
  ASSUME OrgInv, AddUnit \/ Deactivate \/ \E q \in Editors : WriteUnit(q)
  PROVE  OrgInv'
<1>1. OrgTyped /\ UNCHANGED staff /\ reopened \subseteq Existent
  BY DEF OrgInv, AddUnit, Deactivate, WriteUnit, OrgTyped
<1>2. CASE AddUnit
  <2>1. UNCHANGED <<reopened, edit>>
    BY <1>2 DEF AddUnit
  <2>2. units' \in [Units -> Unit \union {Vacant}] /\ Existent \subseteq Existent' /\ ParentsThere'
    BY <1>2, AddUnitUnits DEF OrgInv, ParentsThere
  <2> QED
    BY <1>1, <2>1, <2>2, UnitsChange
<1>3. CASE Deactivate
  <2>1. UNCHANGED <<reopened, edit>>
    BY <1>3 DEF Deactivate
  <2>2. units' \in [Units -> Unit \union {Vacant}] /\ Existent \subseteq Existent' /\ ParentsThere'
    BY <1>3, DeactivateUnits DEF OrgInv, ParentsThere
  <2> QED
    BY <1>1, <2>1, <2>2, UnitsChange
<1>4. ASSUME NEW q \in Editors, WriteUnit(q) PROVE OrgInv'
  <2>1. Edits(q, NoEdit)
    BY <1>4, Zenon DEF WriteUnit
  <2>2. PICK u : u = edit[q].unit
    OBVIOUS
  <2>3. /\ units' \in [Units -> Unit \union {Vacant}] /\ Existent' = Existent /\ u \in Existent
        /\ \A s \in Existent : s # u => units'[s] = units[s]
        /\ units'[u].parent \in Existent \union {NoOne}
        /\ reopened' = IF units'[u].active /\ ~units[u].active THEN reopened \union {u} ELSE reopened
    BY <1>4, <2>2, WriteUnitUnits
  <2>4. ParentsThere' /\ reopened' \subseteq Existent'
    BY <1>1, <2>3 DEF OrgInv, ParentsThere
  <2> QED
    BY <1>1, <2>1, <2>3, <2>4, UnitsChange
<1> QED
  BY <1>2, <1>3, <1>4

\* The check of a change of a unit writes nothing but the edit.
LEMMA CheckUnitInv == ASSUME OrgInv, NEW q \in Editors, CheckUnit(q) PROVE OrgInv'
<1>1. OrgTyped /\ UNCHANGED <<staff, units, reopened>>
  BY DEF OrgInv, CheckUnit
<1>2. PICK u \in Existent, parent \in Existent \union {NoOne}, isActive \in BOOLEAN :
        Edits(q, [at |-> "unit", unit |-> u, read |-> units[u], sent |-> [parent |-> parent, active |-> isActive]])
  BY Zenon DEF CheckUnit
<1>3. u \in Units /\ units[u] \in Unit /\ [parent |-> parent, active |-> isActive] \in Unit
  BY <1>1, OrgRows DEF Unit, Existent
<1>4. PICK next : next = [at |-> "unit", unit |-> u, read |-> units[u], sent |-> [parent |-> parent, active |-> isActive]]
  OBVIOUS
<1>5. next \in EditKinds /\ next.unit = u /\ next.sent.parent = parent
  BY <1>3, <1>4, EditsAre
<1> QED
  BY <1>1, <1>2, <1>4, <1>5, OrgReads

\* Every step of staff and units keeps the invariant, whoever else edits.
LEMMA OrgStep == ASSUME OrgInv, [OrgNext]_orgVars PROVE OrgInv'
<1>1. CASE UNCHANGED orgVars
  <2>1. UNCHANGED <<staff, units, reopened, edit>>
    BY <1>1 DEF orgVars
  <2> QED
    BY <2>1 DEF OrgInv, OrgTyped, ManagersThere, ParentsThere, EditFits, Employed, Existent
<1>2. CASE OrgNext
  BY <1>2, StaffWritesInv, StaffChecksInv, UnitsWritesInv, CheckUnitInv DEF OrgNext, StaffNext, UnitsNext
<1> QED
  BY <1>1, <1>2

\* The invariant of staff and units holds at the start.
LEMMA OrgBegins == ASSUME OrgInit PROVE OrgInv
<1>1. Employed = {} /\ Existent = {}
  BY DEF OrgInit, Employed, Existent
<1>2. OrgTyped
  BY <1>1, EditsAre DEF OrgInit, OrgTyped
<1> QED
  BY <1>1, <1>2 DEF OrgInit, OrgInv, ManagersThere, ParentsThere, EditFits, NoEdit
-----------------------------------------------------------------------------
\* One request at a time: when one writes, everybody is idle afterwards.
LEMMA OneEdits ==
  ASSUME OrgTyped, OneEdit, NEW q \in Editors, NEW next \in EditKinds, Edits(q, next),
         edit[q] # NoEdit \/ \A r \in Editors : edit[r] = NoEdit
  PROVE  OneEdit' /\ edit'[q] = next /\ \A r \in Editors \ {q} : edit'[r] = NoEdit
BY EditsTyped DEF OneEdit

\* That nobody reports to himself, in terms of ManagerOf, and no unit is part of itself.
LEMMA ReportingRises == ReportingEnds <=> Rises(Employed, ManagerOf)
BY DEF ReportingEnds, Rises, ManagerOf

\* And no unit in use is part of itself.
LEMMA UnitsRise == UnitsEnd <=> Rises(ActiveUnits \ reopened, ParentOf)
<1>1. \A group \in SUBSET (ActiveUnits \ reopened) : \A u \in group : ParentOf[u] = units[u].parent
  BY DEF ParentOf
<1> QED
  BY <1>1 DEF UnitsEnd, Rises

\* The check of a change of manager, by either handler.
LEMMA ManagerChecked ==
  ASSUME OrgInv, StaffInv, NEW q \in Editors, CheckChange(q) \/ CheckUpdate(q), \A r \in Editors : edit[r] = NoEdit
  PROVE  StaffInv'
<1>1. OrgTyped /\ UNCHANGED staff
  BY DEF OrgInv, CheckChange, CheckUpdate
<1>2. PICK e \in Employed, m \in Employed \union {NoOne} :
        (m # NoOne => m \notin Subordinates(e)) /\ Edits(q, [at |-> "manager", employee |-> e, manager |-> m])
  BY Zenon DEF CheckChange, CheckUpdate
<1>3. PICK next : next = [at |-> "manager", employee |-> e, manager |-> m]
  OBVIOUS
<1>4. next \in EditKinds /\ next.at = "manager" /\ next.employee = e /\ next.manager = m
  BY <1>3, EditsAre DEF Employed
<1>5. Edits(q, next)
  BY <1>2, <1>3
<1>6. OneEdit' /\ edit'[q] = next /\ \A r \in Editors \ {q} : edit'[r] = NoEdit
  BY <1>1, <1>4, <1>5, OneEdits DEF StaffInv
<1>7. ReportingEnds' /\ Employed' = Employed
  BY <1>1 DEF StaffInv, ReportingEnds, Employed
<1>8. Apart(q)'
  <2>1. PICK below \in SUBSET Staff : /\ e \in below /\ below = Subordinates(e)
                                      /\ \A s \in Employed : staff[s].manager \in below => s \in below
    BY <1>1, SubordinatesClosed
  <2>2. m \notin below
    BY <1>2, <2>1, OrgAssumption
  <2> QED
    BY <1>1, <1>4, <1>6, <1>7, <2>1, <2>2 DEF Apart
<1>9. ASSUME NEW r \in Editors PROVE Apart(r)'
  BY <1>6, <1>8 DEF Apart, NoEdit
<1> QED
  BY <1>6, <1>7, <1>9 DEF StaffInv

\* A write of a manager, a hiring and what touches no request leave the tree ending.
LEMMA ManagerWritten ==
  ASSUME OrgInv, StaffInv, NEW q \in Editors, WriteManager(q) PROVE ReportingEnds'
<1>1. PICK e, m : e = edit[q].employee /\ m = edit[q].manager
  OBVIOUS
<1>2. Employed' = Employed
  BY WriteManagerStaff
<1>3. CASE UNCHANGED staff
  BY <1>2, <1>3 DEF StaffInv, ReportingEnds
<1>4. CASE /\ e \in Employed /\ staff'[e].manager = m
           /\ \A s \in Employed : s # e => staff'[s] = staff[s]
  <2>1. PICK below \in SUBSET Staff : /\ e \in below /\ m \notin below
                                      /\ \A s \in Employed : staff[s].manager \in below => s \in below
    BY <1>1 DEF StaffInv, Apart, WriteManager
  <2>2. PICK turned : turned = [s \in Employed |-> staff'[s].manager]
    OBVIOUS
  <2>3. Rises(Employed, ManagerOf)
    BY ReportingRises DEF StaffInv
  <2>4. /\ \A s \in Employed : ManagerOf[s] = staff[s].manager
        /\ \A s \in Employed : turned[s] = staff'[s].manager
    BY <2>2 DEF ManagerOf
  <2>5. Rises(Employed, turned)
    BY <1>4, <2>1, <2>3, <2>4, MovesOut
  <2>6. \A group \in (SUBSET Employed) \ {{}} : \E s \in group : staff'[s].manager \notin group
    BY <2>4, <2>5 DEF Rises
  <2> QED
    BY <1>2, <2>6 DEF ReportingEnds
<1> QED
  BY <1>1, <1>3, <1>4, WriteManagerStaff

\* Who is hired reports to somebody who was there, and nobody reports to him yet.
LEMMA HiredReports ==
  ASSUME OrgInv, StaffInv, NEW q \in Editors, Hire(q) PROVE ReportingEnds'
<1>1. CASE UNCHANGED staff
  BY <1>1 DEF StaffInv, ReportingEnds, Employed
<1>2. ASSUME NEW e \in Staff \ Employed, edit[q].manager \in Employed \union {NoOne},
             staff'[e].manager = edit[q].manager, Employed' = Employed \union {e},
             \A s \in Employed : staff'[s] = staff[s]
      PROVE  ReportingEnds'
  <2>1. PICK grown : grown = [s \in Employed \union {e} |-> staff'[s].manager]
    OBVIOUS
  <2>2. /\ \A s \in Employed : ManagerOf[s] = staff[s].manager /\ staff[s].manager \in Employed \union {NoOne}
        /\ \A s \in Employed \union {e} : grown[s] = staff'[s].manager
    BY <2>1 DEF ManagerOf, OrgInv, ManagersThere
  <2>3. e # NoOne /\ e \notin Employed
    BY OrgAssumption
  <2>4. Rises(Employed, ManagerOf)
    BY ReportingRises DEF StaffInv
  <2>5. grown[e] # e /\ \A s \in Employed : grown[s] = ManagerOf[s] /\ ManagerOf[s] # e
    BY <1>2, <2>2, <2>3
  <2>6. Rises(Employed \union {e}, grown)
    BY <2>3, <2>4, <2>5, GrowsOut
  <2>7. \A group \in (SUBSET (Employed \union {e})) \ {{}} : \E s \in group : staff'[s].manager \notin group
    BY <2>2, <2>6 DEF Rises
  <2> QED
    BY <1>2, <2>7 DEF ReportingEnds
<1> QED
  BY <1>1, <1>2, HireStaff

\* A change of status or a deletion only takes reports away.
LEMMA FewerReport ==
  ASSUME OrgInv, StaffInv, SetEmployeeStatus \/ Dismiss PROVE ReportingEnds'
<1>1. /\ Employed' \subseteq Employed
      /\ \A s \in Employed' : staff'[s].manager = staff[s].manager \/ staff'[s].manager = NoOne
  BY StatusStaff, DismissStaff
<1>2. NoOne \notin Employed
  BY OrgAssumption DEF Employed
<1> SUFFICES ASSUME NEW group \in (SUBSET Employed') \ {{}} PROVE \E s \in group : staff'[s].manager \notin group
  BY DEF ReportingEnds
<1>3. PICK s \in group : staff[s].manager \notin group
  BY <1>1 DEF StaffInv, ReportingEnds
<1> QED
  BY <1>1, <1>2, <1>3

\* One request at a time, nobody comes to report to himself.
LEMMA SerialStaffStep == ASSUME OrgInv, StaffInv, SerialStaff PROVE StaffInv'
<1>1. OrgTyped /\ NoEdit \in EditKinds /\ NoEdit.at = "idle"
  BY EditsAre DEF OrgInv, NoEdit
<1>2. ASSUME SetEmployeeStatus \/ Dismiss, \A r \in Editors : edit[r] = NoEdit PROVE StaffInv'
  <2>1. UNCHANGED edit
    BY <1>2 DEF SetEmployeeStatus, Dismiss
  <2>2. ReportingEnds'
    BY <1>2, FewerReport
  <2> QED
    BY <1>1, <1>2, <2>1, <2>2 DEF StaffInv, OneEdit, Apart
<1>3. ASSUME NEW q \in Editors, WriteManager(q) \/ Hire(q) \/ DropEdit(q) PROVE StaffInv'
  <2>1. edit[q] # NoEdit /\ Edits(q, NoEdit)
    BY <1>1, <1>3 DEF WriteManager, Hire, DropEdit
  <2>2. OneEdit' /\ \A r \in Editors : edit'[r] = NoEdit
    BY <1>1, <2>1, OneEdits DEF StaffInv
  <2>3. ReportingEnds'
    <3>1. DropEdit(q) => ReportingEnds'
      BY DEF DropEdit, StaffInv, ReportingEnds, Employed
    <3> QED
      BY <1>3, <3>1, ManagerWritten, HiredReports
  <2> QED
    BY <1>1, <2>2, <2>3 DEF StaffInv, Apart
<1>4. ASSUME NEW q \in Editors, CheckHire(q), \A r \in Editors : edit[r] = NoEdit PROVE StaffInv'
  <2>1. PICK m \in {NoOne} \union {s \in Employed : staff[s].status # "TERMINATED"}, status \in EmployeeStatus :
          Edits(q, [at |-> "hire", manager |-> m, status |-> status])
    BY <1>4, Zenon DEF CheckHire
  <2>2. PICK next : next = [at |-> "hire", manager |-> m, status |-> status]
    OBVIOUS
  <2>3. next \in EditKinds /\ next.at = "hire"
    BY <2>2, EditsAre DEF Employed
  <2>4. OneEdit' /\ edit'[q] = next /\ \A r \in Editors \ {q} : edit'[r] = NoEdit
    BY <1>1, <1>4, <2>1, <2>2, <2>3, OneEdits DEF StaffInv
  <2>5. ReportingEnds'
    BY <1>4 DEF CheckHire, StaffInv, ReportingEnds, Employed
  <2> QED
    BY <1>1, <2>3, <2>4, <2>5 DEF StaffInv, Apart
<1> QED
  BY <1>2, <1>3, <1>4, ManagerChecked DEF SerialStaff, StaffNext

-----------------------------------------------------------------------------
\* The check of an update of a unit.
LEMMA UnitChecked ==
  ASSUME OrgInv, UnitsInv, NEW q \in Editors, CheckUnit(q), \A r \in Editors : edit[r] = NoEdit
  PROVE  UnitsInv'
<1>1. OrgTyped /\ UNCHANGED <<units, reopened>> /\ NoEdit.at = "idle"
  BY DEF OrgInv, CheckUnit, NoEdit
<1>2. PICK u \in Existent, parent \in Existent \union {NoOne}, isActive \in BOOLEAN :
        /\ parent \notin {NoOne, units[u].parent} => ~IsCircular(u, parent)
        /\ Edits(q, [at |-> "unit", unit |-> u, read |-> units[u], sent |-> [parent |-> parent, active |-> isActive]])
  BY Zenon DEF CheckUnit
<1>3. u \in Units /\ units[u] \in Unit /\ [parent |-> parent, active |-> isActive] \in Unit
  BY <1>1, OrgRows DEF Unit, Existent
<1>4. PICK next : next = [at |-> "unit", unit |-> u, read |-> units[u], sent |-> [parent |-> parent, active |-> isActive]]
  OBVIOUS
<1>5. next \in EditKinds /\ next.unit = u /\ next.sent.parent = parent /\ next.read = units[u]
  BY <1>3, <1>4, EditsAre
<1>6. Edits(q, next)
  BY <1>2, <1>4
<1>7. OneEdit' /\ edit'[q] = next /\ \A r \in Editors \ {q} : edit'[r] = NoEdit
  BY <1>1, <1>5, <1>6, OneEdits DEF UnitsInv
<1>8. UnitsEnd' /\ ActiveUnits' = ActiveUnits
  BY <1>1 DEF UnitsInv, UnitsEnd, ActiveUnits, Existent
<1>9. Outside(q)'
  <2>1. ASSUME u \in ActiveUnits, parent \notin {NoOne, units[u].parent}
        PROVE  \E below \in SUBSET Units :
                 /\ u \in below /\ parent \notin below
                 /\ \A s \in ActiveUnits : units[s].parent \in below => s \in below
    BY <1>1, <1>2, <2>1, SubUnitsClosed DEF IsCircular
  <2> QED
    BY <1>1, <1>5, <1>7, <1>8, <2>1 DEF Outside
<1>10. ASSUME NEW r \in Editors PROVE Outside(r)'
  BY <1>1, <1>7, <1>9 DEF Outside
<1> QED
  BY <1>7, <1>8, <1>10 DEF UnitsInv

\* Writing it.
LEMMA UnitWritten ==
  ASSUME OrgInv, UnitsInv, NEW q \in Editors, WriteUnit(q) PROVE UnitsEnd'
<1>1. PICK u : u = edit[q].unit
  OBVIOUS
<1>2. /\ Existent' = Existent /\ u \in Existent
      /\ \A s \in Existent : s # u => units'[s] = units[s]
      /\ units'[u].parent = IF edit[q].sent.parent = edit[q].read.parent THEN units[u].parent ELSE edit[q].sent.parent
      /\ reopened' = IF units'[u].active /\ ~units[u].active THEN reopened \union {u} ELSE reopened
  BY <1>1, WriteUnitUnits
<1>3. edit[q].read = units[u]
  BY <1>1 DEF UnitsInv, Outside, WriteUnit
<1>4. units'[u].parent = edit[q].sent.parent
  BY <1>2, <1>3
<1>5. PICK S : S = ActiveUnits \ reopened
  OBVIOUS
<1>6. /\ \A s \in (ActiveUnits \ reopened)' : s \in S
      /\ u \in (ActiveUnits \ reopened)' => units[u].active
  BY <1>2, <1>5 DEF ActiveUnits
<1>7. Rises(S, ParentOf) /\ \A s \in S : ParentOf[s] = units[s].parent
  BY <1>5, UnitsRise DEF UnitsInv, ParentOf
<1>8. ASSUME NEW group \in (SUBSET S) \ {{}}, \A s \in group : s = u => units[u].active
      PROVE  \E s \in group : units'[s].parent \notin group
  <2>1. \A s \in S : s \in Existent
    BY <1>5 DEF ActiveUnits
  <2>2. CASE u \notin group \/ units'[u].parent = units[u].parent
    BY <1>2, <1>7, <2>1, <2>2 DEF Rises
  <2>3. CASE u \in group /\ units'[u].parent = NoOne
    BY <1>5, <2>3, OrgAssumption DEF ActiveUnits, Existent
  <2>4. CASE u \in group /\ units'[u].parent \notin {NoOne, units[u].parent}
    <3>1. u \in ActiveUnits /\ edit[q].sent.parent \notin {NoOne, edit[q].read.parent}
      BY <1>2, <1>3, <1>4, <1>8, <2>4 DEF ActiveUnits
    <3>2. PICK below \in SUBSET Units :
             /\ u \in below /\ edit[q].sent.parent \notin below
             /\ \A s \in ActiveUnits : units[s].parent \in below => s \in below
      BY <1>1, <3>1 DEF UnitsInv, Outside, WriteUnit
    <3>3. PICK turned : turned = [s \in S |-> units'[s].parent]
      OBVIOUS
    <3>4. \A s \in S : turned[s] = units'[s].parent /\ s \in ActiveUnits
      BY <1>5, <3>3
    <3>5. u \in S /\ turned[u] \notin below
      BY <1>4, <2>4, <3>2, <3>4
    <3>6. \A s \in S : s # u => turned[s] = ParentOf[s]
      BY <1>2, <1>7, <2>1, <3>4
    <3>7. \A s \in S : ParentOf[s] \in below => s \in below
      BY <1>7, <3>2, <3>4
    <3>8. Rises(S, turned)
      BY <1>7, <3>2, <3>5, <3>6, <3>7, MovesOut
    <3> QED
      BY <3>4, <3>8 DEF Rises
  <2> QED
    BY <2>2, <2>3, <2>4
<1> SUFFICES ASSUME NEW group \in (SUBSET (ActiveUnits \ reopened)') \ {{}}
             PROVE  \E s \in group : units'[s].parent \notin group
  BY DEF UnitsEnd
<1> QED
  BY <1>6, <1>8

\* A new unit, and one that is deactivated.
LEMMA UnitAdded == ASSUME OrgInv, UnitsInv, AddUnit PROVE UnitsEnd'
<1>1. PICK u \in Units \ Existent : /\ units'[u].parent \in Existent \union {NoOne}
                                    /\ Existent' = Existent \union {u}
                                    /\ \A s \in Existent : units'[s] = units[s]
  BY AddUnitUnits
<1>2. UNCHANGED reopened /\ u \notin Existent /\ u # NoOne
  BY OrgAssumption DEF AddUnit
<1>3. PICK S : S = ActiveUnits \ reopened
  OBVIOUS
<1>4. PICK grown : grown = [s \in S \union {u} |-> units'[s].parent]
  OBVIOUS
<1>5. /\ \A s \in S \union {u} : grown[s] = units'[s].parent
      /\ \A s \in S : s \in Existent /\ ParentOf[s] = units[s].parent
  BY <1>3, <1>4 DEF ParentOf, ActiveUnits
<1>6. \A s \in S : grown[s] = ParentOf[s] /\ ParentOf[s] # u
  BY <1>1, <1>2, <1>5 DEF OrgInv, ParentsThere
<1>7. Rises(S, ParentOf) /\ u \notin S /\ grown[u] # u
  BY <1>1, <1>2, <1>3, <1>5, UnitsRise DEF UnitsInv
<1>8. Rises(S \union {u}, grown)
  BY <1>6, <1>7, GrowsOut
<1>9. \A s \in (ActiveUnits \ reopened)' : s \in S \union {u}
  BY <1>1, <1>2, <1>3 DEF ActiveUnits
<1> SUFFICES ASSUME NEW group \in (SUBSET (ActiveUnits \ reopened)') \ {{}}
             PROVE  \E s \in group : units'[s].parent \notin group
  BY DEF UnitsEnd
<1>10. group \in (SUBSET (S \union {u})) \ {{}}
  BY <1>9
<1> QED
  BY <1>5, <1>8, <1>10 DEF Rises

\* A unit that is deactivated leaves the tree; what was under it ends sooner.
LEMMA UnitDeactivated == ASSUME OrgInv, UnitsInv, Deactivate PROVE UnitsEnd'
<1>1. /\ Existent' = Existent /\ UNCHANGED reopened
      /\ \A s \in Existent : units'[s].parent = units[s].parent /\ (units'[s].active => units[s].active)
  BY DeactivateUnits DEF Deactivate
<1>2. \A s \in (ActiveUnits \ reopened)' : s \in ActiveUnits \ reopened /\ units'[s].parent = units[s].parent
  BY <1>1 DEF ActiveUnits
<1> SUFFICES ASSUME NEW group \in (SUBSET (ActiveUnits \ reopened)') \ {{}}
             PROVE  \E s \in group : units'[s].parent \notin group
  BY DEF UnitsEnd
<1>3. group \in (SUBSET (ActiveUnits \ reopened)) \ {{}}
  BY <1>2
<1>4. PICK s \in group : units[s].parent \notin group
  BY <1>3 DEF UnitsInv, UnitsEnd
<1> QED
  BY <1>2, <1>4

\* One request at a time, no unit becomes part of itself, but for those that are reopened.
LEMMA SerialUnitsStep == ASSUME OrgInv, UnitsInv, SerialUnits PROVE UnitsInv'
<1>1. OrgTyped /\ NoEdit \in EditKinds /\ NoEdit.at = "idle"
  BY EditsAre DEF OrgInv, NoEdit
<1>2. ASSUME AddUnit \/ Deactivate, \A r \in Editors : edit[r] = NoEdit PROVE UnitsInv'
  <2>1. UNCHANGED edit
    BY <1>2 DEF AddUnit, Deactivate
  <2>2. UnitsEnd'
    BY <1>2, UnitAdded, UnitDeactivated
  <2> QED
    BY <1>1, <1>2, <2>1, <2>2 DEF UnitsInv, OneEdit, Outside
<1>3. ASSUME NEW q \in Editors, WriteUnit(q) \/ DropEdit(q) PROVE UnitsInv'
  <2>1. edit[q] # NoEdit /\ Edits(q, NoEdit)
    BY <1>1, <1>3 DEF WriteUnit, DropEdit
  <2>2. OneEdit' /\ \A r \in Editors : edit'[r] = NoEdit
    BY <1>1, <2>1, OneEdits DEF UnitsInv
  <2>3. UnitsEnd'
    <3>1. DropEdit(q) => UnitsEnd'
      BY DEF DropEdit, UnitsInv, UnitsEnd, ActiveUnits, Existent
    <3> QED
      BY <1>3, <3>1, UnitWritten
  <2> QED
    BY <1>1, <2>2, <2>3 DEF UnitsInv, Outside
<1> QED
  BY <1>2, <1>3, UnitChecked DEF SerialUnits, UnitsNext

\* Nobody edits at the start, and there is nobody and no unit.
LEMMA SerialOrgBegins == ASSUME OrgInit PROVE StaffInv /\ UnitsInv
<1>1. Employed = {} /\ ActiveUnits = {} /\ NoEdit.at = "idle"
  BY DEF OrgInit, Employed, Existent, ActiveUnits, NoEdit
<1>2. \A q \in Editors : edit[q] = NoEdit
  BY DEF OrgInit
<1> QED
  BY <1>1, <1>2 DEF StaffInv, UnitsInv, OneEdit, ReportingEnds, UnitsEnd, Apart, Outside

-----------------------------------------------------------------------------
(* The shipments of a contract *)

Shipment == [no : Int, ref : Int, status : {"Scheduled", "Cancelled"}]
Tables == [Ids -> Shipment \union {Absent}]

\* A row is a shipment exactly where the table has one.
LEMMA ShipmentRows ==
  ASSUME NEW table \in Tables, NEW s \in Ids
  PROVE  /\ Absent \notin Shipment
         /\ s \in Present(table) <=> table[s] \in Shipment
         /\ s \in Present(table) => table[s].no \in Int /\ table[s].ref \in Int
<1>1. Absent.status = "Absent"
  BY DEF Absent
<1>2. Absent \notin Shipment
  BY <1>1 DEF Shipment
<1> QED
  BY <1>2 DEF Tables, Present, Shipment

\* Of the rows that are left, the first by number is one of them.
LEMMA FirstIsOne ==
  ASSUME NEW seen \in Tables, NEW S \in SUBSET Present(seen), S # {}
  PROVE  First(seen, S) \in S
<1>1. S \subseteq Ids /\ Ids \subseteq Nat /\ IsFiniteSet(Ids) /\ \A s \in S : seen[s].no \in Int
  <2>1. MaxIds \in Nat /\ IsFiniteSet(1..MaxIds)
    BY ShipmentAssumption, FS_Interval
  <2>2. S \subseteq Ids /\ Ids \subseteq Nat /\ IsFiniteSet(Ids)
    BY <2>1 DEF Ids, Present
  <2> QED
    BY <2>2, ShipmentRows
<1> DEFINE N == {seen[s].no : s \in S}
<1>2. IsFiniteSet(N)
  <2>1. [s \in S |-> seen[s].no] \in Surjection(S, N)
    BY DEF Surjection
  <2>2. IsFiniteSet(S)
    BY <1>1, FS_Subset
  <2> QED
    BY <2>1, <2>2, FS_Surjection
<1>3. N \subseteq Int /\ N # {}
  BY <1>1
<1>4. PICK m \in N : \A n \in N : m <= n
  <2> HIDE DEF N
  <2> QED
    BY <1>2, <1>3, MinOfFinite
<1>5. {s \in S : seen[s].no = m} \in SUBSET Nat /\ {s \in S : seen[s].no = m} # {}
  BY <1>1
<1>6. PICK s \in S : seen[s].no = m /\ \A t \in S : seen[t].no = m => s <= t
  BY <1>5, LeastNumber
<1>7. \A t \in S : seen[s].no < seen[t].no \/ (seen[s].no = seen[t].no /\ s <= t)
  BY <1>1, <1>3, <1>4, <1>6
<1>8. \E q \in S : \A t \in S : seen[q].no < seen[t].no \/ (seen[q].no = seen[t].no /\ q <= t)
  BY <1>7
<1> QED
  BY <1>8, Zenon DEF First

\* An entry takes a row that no earlier entry has taken, or none.
LEMMA ChosenIsFree ==
  ASSUME NEW j, j.seen \in Tables, NEW matched, NEW n
  PROVE  Chosen(j, matched, n) \in (Present(j.seen) \ Range(matched)) \union {None}
<1> DEFINE free == Present(j.seen) \ Range(matched)
           choices == <<{s \in free : s = j.list[n].id},
                        {s \in free : j.seen[s].no = NumberAt(j.list, n)},
                        free \intersect j.referenced,
                        free>>
           Best(k) == (k = 5 \/ choices[k] # {}) /\ \A l \in 1..(k - 1) : choices[l] = {}
           best == CHOOSE k \in 1..5 : Best(k)
<1>1. \A k \in 1..4 : choices[k] \in SUBSET free
  <2>1. choices[1] \in SUBSET free /\ choices[2] \in SUBSET free /\ choices[3] \in SUBSET free /\ choices[4] \in SUBSET free
    OBVIOUS
  <2>2. \A k \in 1..4 : k = 1 \/ k = 2 \/ k = 3 \/ k = 4
    OBVIOUS
  <2> QED
    BY <2>1, <2>2, Zenon
<1> HIDE DEF choices
<1>2. \E k \in 1..5 : Best(k)
  <2>1. PICK k \in 1..5 : /\ k = 5 \/ choices[k] # {}
                          /\ \A l \in 1..5 : (l = 5 \/ choices[l] # {}) => k <= l
    <3>1. {k \in 1..5 : k = 5 \/ choices[k] # {}} \in SUBSET Nat
          /\ 5 \in {k \in 1..5 : k = 5 \/ choices[k] # {}}
      OBVIOUS
    <3>2. PICK k \in {l \in 1..5 : l = 5 \/ choices[l] # {}} :
            \A l \in {m \in 1..5 : m = 5 \/ choices[m] # {}} : k <= l
      BY <3>1, LeastNumber
    <3> QED
      BY <3>2
  <2>2. \A l \in 1..(k - 1) : l \in 1..5 /\ ~(k <= l)
    OBVIOUS
  <2> QED
    BY <2>1, <2>2
<1>3. best \in 1..5 /\ Best(best)
  BY <1>2, Zenon
<1> HIDE DEF best
<1>4. CASE best = 5
  BY <1>4 DEF Chosen, best, choices
<1>5. CASE best # 5
  <2>1. choices[best] \in SUBSET free /\ choices[best] # {}
    BY <1>1, <1>3, <1>5
  <2>2. First(j.seen, choices[best]) \in choices[best]
    BY <2>1, FirstIsOne
  <2>3. Chosen(j, matched, n) = First(j.seen, choices[best])
    BY <1>5 DEF Chosen, best, choices
  <2> QED
    BY <2>1, <2>2, <2>3
<1> QED
  BY <1>4, <1>5

\* The sequence of matches up to each entry of the list
Grows(j, f, n) == f = [k \in 0..n |-> IF k = 0 THEN <<>> ELSE Append(f[k - 1], Chosen(j, f[k - 1], k))]

\* There is such a sequence for every list: were there a shortest list without one, the one before
\* it could be continued.
LEMMA GrowsOn == ASSUME NEW j, NEW n \in Nat PROVE \E f : Grows(j, f, n)
<1> SUFFICES ASSUME \A f : ~Grows(j, f, n) PROVE FALSE
  OBVIOUS
<1>1. PICK m \in Nat : (\A f : ~Grows(j, f, m)) /\ \A k \in Nat : (\A f : ~Grows(j, f, k)) => m <= k
  <2>1. {k \in Nat : \A f : ~Grows(j, f, k)} \in SUBSET Nat /\ n \in {k \in Nat : \A f : ~Grows(j, f, k)}
    OBVIOUS
  <2>2. PICK m \in {k \in Nat : \A f : ~Grows(j, f, k)} : \A k \in {l \in Nat : \A f : ~Grows(j, f, l)} : m <= k
    BY <2>1, LeastNumber
  <2> QED
    BY <2>2
<1>2. CASE m = 0
  <2>1. PICK f : f = [k \in 0..0 |-> <<>>]
    OBVIOUS
  <2>2. f = [k \in 0..0 |-> IF k = 0 THEN <<>> ELSE Append(f[k - 1], Chosen(j, f[k - 1], k))]
    BY <2>1
  <2> QED
    BY <1>1, <1>2, <2>2 DEF Grows
<1>3. CASE m # 0
  <2>1. m - 1 \in Nat /\ ~(m <= m - 1)
    BY <1>3
  <2>2. PICK f : Grows(j, f, m - 1)
    BY <1>1, <2>1
  <2>3. PICK g : g = [k \in 0..m |-> IF k = m THEN Append(f[m - 1], Chosen(j, f[m - 1], m)) ELSE f[k]]
    OBVIOUS
  <2>4. \A k \in 0..m : g[k] = IF k = 0 THEN <<>> ELSE Append(g[k - 1], Chosen(j, g[k - 1], k))
    <3> SUFFICES ASSUME NEW k \in 0..m PROVE g[k] = IF k = 0 THEN <<>> ELSE Append(g[k - 1], Chosen(j, g[k - 1], k))
      OBVIOUS
    <3>1. CASE k = m
      BY <1>3, <2>1, <2>3, <3>1
    <3>2. CASE k # m
      <4>1. k \in 0..(m - 1) /\ g[k] = f[k]
        BY <2>3, <3>2
      <4>2. f[k] = IF k = 0 THEN <<>> ELSE Append(f[k - 1], Chosen(j, f[k - 1], k))
        BY <2>2, <4>1 DEF Grows
      <4>3. k # 0 => g[k - 1] = f[k - 1]
        BY <2>3, <3>2
      <4> QED
        BY <4>1, <4>2, <4>3
    <3> QED
      BY <3>1, <3>2
  <2>5. Grows(j, g, m)
    BY <2>3, <2>4 DEF Grows
  <2> QED
    BY <1>1, <2>5
<1> QED
  BY <1>2, <1>3

\* What the entries are matched with: rows that were read, each once.
Matches(match, seen, n) ==
  /\ match \in Seq(Present(seen) \union {None}) /\ Len(match) = n
  /\ \A i, k \in 1..n : match[i] = match[k] /\ match[i] # None => i = k

\* So it is with the match of a list: by the first entry for which it were not.
LEMMA MatchFits ==
  ASSUME NEW j, j.seen \in Tables, Len(j.list) \in Nat
  PROVE  Matches(Match(j), j.seen, Len(j.list))
<1>1. \E f : Grows(j, f, Len(j.list))
  BY GrowsOn
<1>2. PICK f : Grows(j, f, Len(j.list)) /\ Match(j) = f[Len(j.list)]
  BY <1>1, Zenon DEF Match, Grows
<1> SUFFICES ASSUME ~Matches(f[Len(j.list)], j.seen, Len(j.list)) PROVE FALSE
  BY <1>2
<1>3. PICK m \in 0..Len(j.list) : ~Matches(f[m], j.seen, m) /\ \A k \in 0..Len(j.list) : ~Matches(f[k], j.seen, k) => m <= k
  <2>1. {k \in 0..Len(j.list) : ~Matches(f[k], j.seen, k)} \in SUBSET Nat
        /\ Len(j.list) \in {k \in 0..Len(j.list) : ~Matches(f[k], j.seen, k)}
    OBVIOUS
  <2>2. PICK m \in {k \in 0..Len(j.list) : ~Matches(f[k], j.seen, k)} :
          \A k \in {l \in 0..Len(j.list) : ~Matches(f[l], j.seen, l)} : m <= k
    BY <2>1, LeastNumber
  <2> QED
    BY <2>2
<1>4. m # 0
  <2>1. f[0] = <<>>
    BY <1>2 DEF Grows
  <2>2. Matches(<<>>, j.seen, 0)
    BY DEF Matches
  <2> QED
    BY <1>3, <2>1, <2>2
<1>5. m - 1 \in 0..Len(j.list) /\ ~(m <= m - 1)
  BY <1>3, <1>4
<1>6. Matches(f[m - 1], j.seen, m - 1)
  BY <1>3, <1>5
<1>7. PICK x : x = Chosen(j, f[m - 1], m)
  OBVIOUS
<1>8. f[m] = Append(f[m - 1], x)
  BY <1>2, <1>3, <1>4, <1>7 DEF Grows
<1>9. x \in (Present(j.seen) \ Range(f[m - 1])) \union {None}
  BY <1>7, ChosenIsFree
<1>10. PICK s \in Seq(Present(j.seen) \union {None}) : s = f[m - 1]
  BY <1>6 DEF Matches
<1>11. Len(s) = m - 1 /\ \A i \in 1..(m - 1) : s[i] \in Range(s)
  BY <1>6, <1>10 DEF Matches, Range
<1>12. Append(s, x) \in Seq(Present(j.seen) \union {None}) /\ Len(Append(s, x)) = m
  BY <1>3, <1>4, <1>9, <1>10, <1>11
<1>13. \A i \in 1..m : Append(s, x)[i] = IF i = m THEN x ELSE s[i]
  BY <1>3, <1>4, <1>10, <1>11
<1>14. ASSUME NEW i \in 1..m, NEW k \in 1..m, Append(s, x)[i] = Append(s, x)[k], Append(s, x)[i] # None PROVE i = k
  <2>1. i # m => i \in 1..(m - 1)
    OBVIOUS
  <2>2. k # m => k \in 1..(m - 1)
    OBVIOUS
  <2>3. CASE i = m /\ k # m
    BY <1>9, <1>10, <1>11, <1>13, <1>14, <2>2, <2>3
  <2>4. CASE i # m /\ k = m
    BY <1>9, <1>10, <1>11, <1>13, <1>14, <2>1, <2>4
  <2>5. CASE i # m /\ k # m
    BY <1>6, <1>10, <1>13, <1>14, <2>1, <2>2, <2>5 DEF Matches
  <2> QED
    BY <2>3, <2>4, <2>5
<1> QED
  BY <1>3, <1>8, <1>10, <1>12, <1>14 DEF Matches

-----------------------------------------------------------------------------
\* What an update holds between two statements
ShipmentJobs ==
  [list : Lists \union {<<>>}, id : Ids \union {None}, no : Numbers \union {None}, core : BOOLEAN,
   seen : Tables, referenced : SUBSET Ids, negated : SUBSET Ids, match : Seq(Ids \union {None})]

ShippingTyped ==
  /\ rows \in Tables /\ lastId \in 0..MaxIds
  /\ refs \in SUBSET (Referrers \X Ids)
  /\ header \in Workers \union {None}
  /\ pc \in [Workers -> Labels] /\ job \in [Workers -> ShipmentJobs]

\* One request at a time: what it has read is still so, and its entries are matched with rows it
\* read, each once.
OneShips == \A v, w \in Workers : pc[v] # "idle" /\ pc[w] # "idle" => v = w

UpToDate(w) ==
  /\ pc[w] \in {"references", "negate", "write", "save"} => job[w].seen = rows
  /\ pc[w] \in {"read", "references", "negate", "write"} => job[w].list \in Lists
  /\ pc[w] \in {"negate", "write"} => job[w].referenced = ReferencedAmong(rows)
  /\ pc[w] = "write" => /\ job[w].negated = Present(rows)
                        /\ Matches(job[w].match, rows, Len(job[w].list))
  /\ pc[w] = "save" => job[w].id \in Present(rows)

ShippingInv == ShippingTyped /\ NumbersMatchReferences /\ OneShips /\ \A w \in Workers : UpToDate(w)

\* The list of an update: entries with an id or none, and a number or none.
LEMMA ListEntries ==
  ASSUME NEW list \in Lists
  PROVE  /\ list \in Seq(Entries) /\ DOMAIN list = 1..Len(list) /\ Len(list) \in Nat
         /\ \A i \in DOMAIN list : /\ list[i].id \in Ids \union {None}
                                  /\ NumberAt(list, i) \in Int
<1>1. PICK n \in 1..MaxLength : list \in [1..n -> Sent]
  BY DEF Lists
<1>2. n \in Nat /\ Sent \subseteq Entries
  BY ShipmentAssumption, SentAssumption
<1>3. list \in Seq(Entries) /\ Len(list) = n
  BY <1>1, <1>2
<1>4. \A i \in DOMAIN list : list[i] \in Entries /\ i \in Int
  BY <1>1, <1>2
<1> QED
  BY <1>1, <1>2, <1>3, <1>4 DEF NumberAt, Entries, Numbers

\* No job, and a job with something put in.
LEMMA JobsAre ==
  /\ NoJob \in ShipmentJobs
  /\ \A list \in Lists : [NoJob EXCEPT !.list = list] \in ShipmentJobs
  /\ \A s \in Ids, n \in Numbers \union {None}, core \in BOOLEAN, table \in Tables :
       [NoJob EXCEPT !.id = s, !.no = n, !.core = core, !.seen = table] \in ShipmentJobs
<1>1. [s \in Ids |-> Absent] \in Tables
  BY DEF Tables
<1>2. NoJob \in ShipmentJobs
  BY <1>1 DEF NoJob, ShipmentJobs
<1> QED
  BY <1>2 DEF ShipmentJobs

\* A request moves on while all others are idle.
LEMMA ShipsOn ==
  ASSUME ShippingTyped, NEW w \in Workers, NEW label \in Labels, NEW j \in ShipmentJobs, Goto(w, label, j),
         \A v \in Workers \ {w} : pc[v] = "idle"
  PROVE  /\ pc' \in [Workers -> Labels] /\ job' \in [Workers -> ShipmentJobs]
         /\ pc'[w] = label /\ job'[w] = j
         /\ \A v \in Workers \ {w} : pc'[v] = "idle"
         /\ OneShips'
BY DEF ShippingTyped, Goto, OneShips

\* One that is idle has read nothing.
LEMMA IdleIsFresh ==
  ASSUME NEW w \in Workers, pc[w] = "idle" PROVE UpToDate(w)
BY DEF UpToDate

\* A request that ends leaves the header to others.
LEMMA ShipsEnd ==
  ASSUME ShippingTyped, NEW w \in Workers, End(w), \A v \in Workers \ {w} : pc[v] = "idle"
  PROVE  /\ pc' \in [Workers -> Labels] /\ job' \in [Workers -> ShipmentJobs]
         /\ header' \in Workers \union {None}
         /\ OneShips' /\ \A v \in Workers : UpToDate(v)'
<1>1. "idle" \in Labels /\ Goto(w, "idle", NoJob) /\ header' \in Workers \union {None}
  BY DEF Labels, End, ShippingTyped
<1>2. \A v \in Workers : pc'[v] = "idle"
  BY <1>1, JobsAre, ShipsOn
<1> QED
  BY <1>1, <1>2, JobsAre, ShipsOn DEF UpToDate

\* A step that leaves the rows alone.
LEMMA RowsAreKept ==
  ASSUME ShippingInv, UNCHANGED <<rows, lastId>>, refs' \in SUBSET (Referrers \X Ids), header' \in Workers \union {None},
         pc' \in [Workers -> Labels], job' \in [Workers -> ShipmentJobs], OneShips', \A w \in Workers : UpToDate(w)'
  PROVE  ShippingInv'
<1>1. ShippingTyped'
  BY DEF ShippingInv, ShippingTyped
<1>2. NumbersMatchReferences'
  BY DEF ShippingInv, NumbersMatchReferences, Present
<1> QED
  BY <1>1, <1>2 DEF ShippingInv

\* The requests begin while all are idle.
LEMMA RequestsShip ==
  ASSUME ShippingInv, NEW w \in Workers, Request(w), \A v \in Workers : pc[v] = "idle" PROVE ShippingInv'
<1>1. ShippingTyped
  BY DEF ShippingInv
<1>2. CASE \E list \in Lists, changed \in HeaderChanges : Update(w, list, changed)
  <2>1. PICK list \in Lists, changed \in HeaderChanges : Update(w, list, changed)
    BY <1>2
  <2>2. PICK j \in ShipmentJobs : j = [NoJob EXCEPT !.list = list]
    BY JobsAre
  <2>3. j.list = list
    BY <2>2 DEF NoJob
  <2>4. Goto(w, "read", j) /\ "read" \in Labels
    BY <2>1, <2>2 DEF Update, Labels
  <2>5. UpToDate(w)'
    BY <1>1, <2>3, <2>4, ShipsOn DEF UpToDate
  <2>6. UNCHANGED <<rows, lastId, refs>> /\ header' \in Workers \union {None}
    BY <1>1, <2>1 DEF Update, ShippingTyped
  <2> QED
    BY <1>1, <2>4, <2>5, <2>6, ShipsOn, IdleIsFresh, RowsAreKept DEF UpToDate, ShippingTyped
<1>3. CASE \E s \in Ids, n \in Numbers \union {None}, core \in BOOLEAN : Edit(w, s, n, core)
  <2>1. PICK s \in Ids, n \in Numbers \union {None}, core \in BOOLEAN : Edit(w, s, n, core)
    BY <1>3
  <2>2. PICK j \in ShipmentJobs : j = [NoJob EXCEPT !.id = s, !.no = n, !.core = core, !.seen = rows]
    BY <1>1, JobsAre DEF ShippingTyped
  <2>3. j.id = s /\ j.seen = rows
    BY <2>2 DEF NoJob
  <2>4. Goto(w, "save", j) /\ "save" \in Labels /\ UNCHANGED <<rows, lastId, refs, header>> /\ s \in Present(rows)
    BY <2>1, <2>2 DEF Edit, Labels, data, Present
  <2>5. UpToDate(w)'
    BY <1>1, <2>3, <2>4, ShipsOn DEF UpToDate, Present
  <2> QED
    BY <1>1, <2>4, <2>5, ShipsOn, RowsAreKept DEF UpToDate, ShippingTyped
<1>4. CASE \E s \in Ids, r \in Referrers : Refer(w, r, s)
  <2>1. refs' \in SUBSET (Referrers \X Ids) /\ UNCHANGED <<rows, lastId, header, pc, job>>
    BY <1>1, <1>4 DEF Refer, ShippingTyped
  <2>2. OneShips' /\ \A v \in Workers : UpToDate(v)'
    BY <2>1 DEF OneShips, UpToDate, ShippingInv
  <2> QED
    BY <1>1, <2>1, <2>2, RowsAreKept DEF ShippingTyped
<1> QED
  BY <1>2, <1>3, <1>4 DEF Request

\* The reads of an update, and its matching.
LEMMA ReadsShip ==
  ASSUME ShippingInv, NEW w \in Workers, ReadShipments(w) \/ ReadReferences(w) \/ Negate(w),
         \A v \in Workers \ {w} : pc[v] = "idle"
  PROVE  ShippingInv'
<1>1. ShippingTyped /\ UpToDate(w) /\ UNCHANGED <<rows, lastId, refs, header>>
  BY DEF ShippingInv, ReadShipments, ReadReferences, Negate, data
<1>2. PICK old \in ShipmentJobs : old = job[w]
  BY <1>1 DEF ShippingTyped
<1>3. old.list \in Lists
  BY <1>1, <1>2 DEF UpToDate, ReadShipments, ReadReferences, Negate
<1>4. ReferencedAmong(rows) \in SUBSET Ids /\ Present(rows) \in SUBSET Ids
  BY DEF ReferencedAmong, Present
<1>5. \E label \in {"references", "negate", "write"}, j \in ShipmentJobs :
        /\ Goto(w, label, j) /\ j.list = old.list /\ j.seen = rows
        /\ label \in {"negate", "write"} => j.referenced = ReferencedAmong(rows)
        /\ label = "write" => j.negated = Present(rows) /\ Matches(j.match, rows, Len(j.list))
  <2>1. CASE ReadShipments(w)
    <3>1. PICK j \in ShipmentJobs : j = [old EXCEPT !.seen = rows]
      BY <1>1, <1>2 DEF ShipmentJobs, ShippingTyped
    <3>2. j.list = old.list /\ j.seen = rows /\ Goto(w, "references", j)
      BY <1>2, <2>1, <3>1 DEF ShipmentJobs, ReadShipments
    <3> QED
      BY <3>2
  <2>2. CASE ReadReferences(w)
    <3>1. old.seen = rows
      BY <1>1, <1>2, <2>2 DEF ReadReferences, UpToDate
    <3>2. PICK j \in ShipmentJobs : j = [old EXCEPT !.referenced = ReferencedAmong(rows)]
      BY <1>2, <1>4 DEF ShipmentJobs
    <3>3. j.list = old.list /\ j.seen = rows /\ j.referenced = ReferencedAmong(rows) /\ Goto(w, "negate", j)
      BY <1>2, <2>2, <3>1, <3>2 DEF ShipmentJobs, ReadReferences
    <3> QED
      BY <3>3
  <2>3. CASE Negate(w)
    <3>1. old.seen = rows /\ old.referenced = ReferencedAmong(rows)
      BY <1>1, <1>2, <2>3 DEF Negate, UpToDate
    <3>2. PICK match : match = Match(old)
      OBVIOUS
    <3>3. Matches(match, rows, Len(old.list))
      BY <1>1, <1>3, <3>1, <3>2, MatchFits, ListEntries DEF ShippingTyped
    <3>4. match \in Seq(Ids \union {None})
      BY <1>4, <3>3, SeqOfMore DEF Matches
    <3>5. PICK j \in ShipmentJobs : j = [old EXCEPT !.negated = Present(rows), !.match = match]
      BY <1>2, <1>4, <3>4 DEF ShipmentJobs
    <3>6. j = [old EXCEPT !.negated = IF Present(old.seen) = {} THEN {} ELSE Present(rows), !.match = Match(old)]
      BY <3>1, <3>2, <3>5
    <3>7. j.list = old.list /\ j.seen = rows /\ j.referenced = old.referenced /\ j.negated = Present(rows) /\ j.match = match
      BY <3>1, <3>5 DEF ShipmentJobs
    <3>8. Goto(w, "write", j)
      BY <1>2, <2>3, <3>6, Zenon DEF Negate
    <3> QED
      BY <3>1, <3>3, <3>7, <3>8
  <2> QED
    BY <2>1, <2>2, <2>3
<1>6. PICK label \in {"references", "negate", "write"}, j \in ShipmentJobs :
        /\ Goto(w, label, j) /\ j.list = old.list /\ j.seen = rows
        /\ label \in {"negate", "write"} => j.referenced = ReferencedAmong(rows)
        /\ label = "write" => j.negated = Present(rows) /\ Matches(j.match, rows, Len(j.list))
  BY <1>5
<1>7. label \in Labels
  BY DEF Labels
<1>8. pc'[w] = label /\ job'[w] = j
  BY <1>1, <1>6, <1>7, ShipsOn
<1>9. ReferencedAmong(rows)' = ReferencedAmong(rows) /\ Present(rows)' = Present(rows)
  BY <1>1 DEF ReferencedAmong, Present
<1>10. UpToDate(w)'
  BY <1>1, <1>3, <1>6, <1>8, <1>9 DEF UpToDate, Matches
<1> QED
  BY <1>1, <1>6, <1>7, <1>10, ShipsOn, RowsAreKept DEF UpToDate, ShippingTyped

\* What an edit of one shipment writes keeps number and reference in step.
LEMMA EditKeeps ==
  ASSUME ShippingInv, NEW w \in Workers, pc[w] = "save"
  PROVE  /\ job[w].id \in Present(rows)
         /\ EditedRow(job[w]) \in Shipment
         /\ EditedRow(job[w]).no \in {EditedRow(job[w]).ref, Temporary(job[w].id), Parked(job[w].id)}
<1>1. PICK j \in ShipmentJobs : j = job[w]
  BY DEF ShippingInv, ShippingTyped
<1>2. j.seen = rows /\ j.id \in Present(rows)
  BY <1>1 DEF ShippingInv, UpToDate
<1>3. PICK row \in Shipment : row = rows[j.id]
  BY <1>2, ShipmentRows DEF ShippingInv, ShippingTyped, Present
<1>4. PICK n \in Int : n = IF j.no = None THEN row.no ELSE j.no
  BY <1>3 DEF ShipmentJobs, Shipment, Numbers
<1>5. EditedRow(j) = [row EXCEPT !.no = Saved(n, row.no, @), !.ref = IF j.core \/ n # row.no THEN n ELSE @]
  BY <1>2, <1>3, <1>4 DEF EditedRow
<1>6. EditedRow(j) = [row EXCEPT !.no = n, !.ref = IF j.core \/ n # row.no THEN n ELSE row.ref]
  BY <1>5 DEF Saved, Shipment
<1>7. row.no \in {row.ref, Temporary(j.id), Parked(j.id)}
  BY <1>2, <1>3 DEF ShippingInv, NumbersMatchReferences
<1>8. /\ EditedRow(j) \in Shipment /\ EditedRow(j).no = n
      /\ EditedRow(j).ref = IF j.core \/ n # row.no THEN n ELSE row.ref
  BY <1>6 DEF Shipment
<1> QED
  BY <1>1, <1>2, <1>7, <1>8

\* An edited shipment keeps its number and reference in step, and no row goes.
LEMMA SaveShips ==
  ASSUME ShippingInv, NEW w \in Workers, Save(w), \A v \in Workers \ {w} : pc[v] = "idle"
  PROVE  ShippingInv' /\ ReferencedKept
<1>1. ShippingTyped /\ pc[w] = "save" /\ End(w) /\ UNCHANGED <<lastId, refs>>
  BY DEF Save, ShippingInv
<1>2. PICK s \in Present(rows), row \in Shipment : s = job[w].id /\ row = EditedRow(job[w])
  BY <1>1, EditKeeps
<1>3. row.no \in {row.ref, Temporary(s), Parked(s)}
  BY <1>1, <1>2, EditKeeps
<1>4. rows' = [rows EXCEPT ![s] = row]
  BY <1>2 DEF Save, Present
<1>5. rows' \in Tables /\ \A q \in Ids : rows'[q] = IF q = s THEN row ELSE rows[q]
  BY <1>1, <1>2, <1>4 DEF ShippingTyped, Tables, Present
<1>6. NumbersMatchReferences'
  BY <1>3, <1>5 DEF ShippingInv, NumbersMatchReferences, Present
<1>7. ShippingInv'
  BY <1>1, <1>5, <1>6, ShipsEnd DEF ShippingInv, ShippingTyped
<1>8. row # Absent
  BY <1>1, <1>2, ShipmentRows DEF ShippingTyped, Present
<1> QED
  BY <1>5, <1>7, <1>8 DEF ReferencedKept, Present

-----------------------------------------------------------------------------
\* What an update writes: created entries, matched entries, and what becomes of the other rows.
LEMMA WrittenRows ==
  ASSUME ShippingInv, NEW w \in Workers, pc[w] = "write", NEW j, j = job[w], ~Conflict(j), NEW s \in Ids
  PROVE  /\ \A i \in Created(j) : NewId(j, i) = s =>
              Written(j)[s] = [no |-> NumberAt(j.list, i), ref |-> NumberAt(j.list, i), status |-> "Scheduled"]
         /\ \A i \in 1..Len(j.list) : j.match[i] = s =>
              /\ Written(j)[s] \in Shipment /\ Written(j)[s].ref = NumberAt(j.list, i)
              /\ Written(j)[s].no \in {Written(j)[s].ref, Temporary(s)}
         /\ (\A i \in 1..Len(j.list) : j.match[i] # s) /\ (\A i \in Created(j) : NewId(j, i) # s) =>
              IF s \in j.referenced
              THEN /\ Written(j)[s] \in Shipment /\ Written(j)[s].status = "Cancelled"
                   /\ Written(j)[s].no \in {Temporary(s), Parked(s)}
              ELSE Written(j)[s] = Absent
<1>1. j \in ShipmentJobs /\ rows \in Tables
  BY DEF ShippingInv, ShippingTyped
<1>2. j.seen = rows /\ j.list \in Lists /\ j.referenced = ReferencedAmong(rows) /\ j.negated = Present(rows)
      /\ Matches(j.match, rows, Len(j.list))
  BY DEF ShippingInv, UpToDate
<1>3. PICK n \in Nat : n = Len(j.list) /\ DOMAIN j.list = 1..n /\ \A i \in 1..n : NumberAt(j.list, i) \in Int
  BY <1>2, ListEntries
<1>4. /\ DOMAIN j.match = 1..n
      /\ \A i \in 1..n : j.match[i] \in Present(rows) \union {None}
      /\ \A i, k \in 1..n : j.match[i] = j.match[k] /\ j.match[i] # None => i = k
  BY <1>2, <1>3 DEF Matches
<1>5. s # None /\ Temporary(s) \in Int /\ Parked(s) \in Int /\ s \in Int
  BY ShipmentAssumption DEF Ids, Temporary, Parked
<1>6. \A i, k \in Created(j) : NewId(j, i) = NewId(j, k) => i = k
  BY DEF Conflict
<1>7. \A i \in Created(j) : rows[NewId(j, i)] = Absent
  BY DEF Conflict
<1> DEFINE creates == {i \in Created(j) : NewId(j, i) = s}
<1>8. ASSUME NEW i \in creates
      PROVE  Written(j)[s] = [no |-> NumberAt(j.list, i), ref |-> NumberAt(j.list, i), status |-> "Scheduled"]
  <2>1. creates # {} /\ \A k \in creates : k = i
    BY <1>6, <1>8
  <2>2. (CHOOSE k \in creates : TRUE) = i
    BY <2>1
  <2> QED
    BY <2>1, <2>2 DEF Written
<1>9. creates = {} => \/ rows[s] = Absent /\ Written(j)[s] = Absent
                      \/ rows[s] # Absent
  <2>1. rows[s] = Absent => Negated(j)[s] = Absent
    BY DEF Negated
  <2> QED
    BY <2>1 DEF Written
<1>10. ASSUME s \in Present(rows)
       PROVE  /\ creates = {}
              /\ Negated(j)[s] \in Shipment /\ Negated(j)[s] = [rows[s] EXCEPT !.no = Temporary(s)]
              /\ rows[s] \in Shipment
  <2>1. creates = {}
    BY <1>7, <1>10 DEF Present
  <2>2. rows[s] \in Shipment
    BY <1>1, <1>10, ShipmentRows
  <2>3. Negated(j)[s] = [rows[s] EXCEPT !.no = Temporary(s)]
    BY <1>2, <1>10 DEF Negated, Present
  <2> QED
    BY <1>5, <2>1, <2>2, <2>3 DEF Shipment
<1>11. ASSUME NEW i \in 1..n, j.match[i] = s
       PROVE  /\ Written(j)[s] \in Shipment /\ Written(j)[s].ref = NumberAt(j.list, i)
              /\ Written(j)[s].no \in {Written(j)[s].ref, Temporary(s)}
  <2>1. s \in Present(rows)
    BY <1>4, <1>5, <1>11
  <2>2. PICK row \in Shipment : row = rows[s]
    BY <1>10, <2>1
  <2>3. PICK kept \in Shipment : kept = [row EXCEPT !.no = Temporary(s)]
    BY <1>5 DEF Shipment
  <2>4. Negated(j)[s] = kept /\ creates = {}
    BY <1>10, <2>1, <2>2, <2>3
  <2>5. \A k \in DOMAIN j.match : j.match[k] = s => k = i
    BY <1>4, <1>5, <1>11
  <2>6. EntryOf(j, s) = i
    BY <1>4, <1>11, <2>5 DEF EntryOf
  <2>7. s \in Range(j.match)
    BY <1>4, <1>11 DEF Range
  <2>8. kept # Absent
    BY <1>1, ShipmentRows
  <2>9. Written(j)[s] = Renumbered(kept, row, NumberAt(j.list, i))
    <3>1. Written(j)[s] = Renumbered(Negated(j)[s], j.seen[s], NumberAt(j.list, EntryOf(j, s)))
      BY <2>4, <2>7, <2>8 DEF Written, Unused
    <3> QED
      BY <1>2, <2>2, <2>4, <2>6, <3>1
  <2>10. NumberAt(j.list, i) \in Int /\ kept.no = Temporary(s) /\ kept.ref = row.ref
    BY <1>3, <2>3 DEF Shipment
  <2>11. PICK new \in Shipment : new = [kept EXCEPT !.no = Saved(NumberAt(j.list, i), row.no, kept.no),
                                                    !.ref = Saved(NumberAt(j.list, i), row.ref, kept.ref)]
    BY <2>10, <1>5 DEF Saved, Shipment
  <2>12. Written(j)[s] = new
    BY <2>9, <2>11 DEF Renumbered, Shipment
  <2>13. new.ref = NumberAt(j.list, i) /\ new.no \in {new.ref, Temporary(s)}
    BY <2>10, <2>11 DEF Saved, Shipment
  <2> QED
    BY <2>12, <2>13
<1>12. ASSUME \A i \in 1..n : j.match[i] # s, creates = {}
       PROVE  IF s \in j.referenced
              THEN /\ Written(j)[s] \in Shipment /\ Written(j)[s].status = "Cancelled"
                   /\ Written(j)[s].no \in {Temporary(s), Parked(s)}
              ELSE Written(j)[s] = Absent
  <2>1. s \notin Range(j.match)
    BY <1>4, <1>12 DEF Range
  <2>2. s \in j.referenced => s \in Present(rows)
    BY <1>2 DEF ReferencedAmong
  <2>3. CASE s \notin Present(rows)
    BY <1>9, <1>12, <2>2, <2>3 DEF Present
  <2>4. CASE s \in Present(rows)
    <3>1. PICK row \in Shipment : row = rows[s]
      BY <1>10, <2>4
    <3>2. PICK kept \in Shipment : kept = [row EXCEPT !.no = Temporary(s)]
      BY <1>5 DEF Shipment
    <3>3. Negated(j)[s] = kept /\ kept # Absent /\ kept.no = Temporary(s)
      BY <1>1, <1>10, <2>4, <3>1, <3>2, ShipmentRows DEF Shipment
    <3>4. s \in Unused(j)
      BY <1>2, <2>1, <2>4 DEF Unused
    <3>5. Written(j)[s] = WithoutEntry(j, s, kept)
      BY <1>12, <2>1, <3>3, <3>4 DEF Written
    <3>6. CASE s \in j.referenced
      <4>1. WithoutEntry(j, s, kept) = [kept EXCEPT !.no = Saved(Parked(s), row.no, kept.no), !.status = "Cancelled"]
        BY <1>2, <3>1, <3>6 DEF WithoutEntry, Shipment
      <4>2. PICK new \in Shipment : new = [kept EXCEPT !.no = Saved(Parked(s), row.no, kept.no), !.status = "Cancelled"]
        BY <1>5, <3>3 DEF Saved, Shipment
      <4>3. new.status = "Cancelled" /\ new.no \in {Temporary(s), Parked(s)}
        BY <3>3, <4>2 DEF Saved, Shipment
      <4> QED
        BY <3>5, <3>6, <4>1, <4>2, <4>3
    <3>7. CASE s \notin j.referenced
      BY <3>5, <3>7 DEF WithoutEntry
    <3> QED
      BY <3>6, <3>7
  <2> QED
    BY <2>3, <2>4
<1> QED
  BY <1>3, <1>8, <1>11, <1>12

\* An entry that has no row gets an id.
LEMMA NewIdsFit ==
  ASSUME NEW j, j.list \in Lists, lastId \in 0..MaxIds, Fits(j)
  PROVE  Issued(j) \in 0..MaxIds /\ \A i \in Created(j) : NewId(j, i) \in Ids
<1>1. PICK n \in Nat : n = Len(j.list) /\ DOMAIN j.list = 1..n
  BY ListEntries
<1> DEFINE drawn == {k \in Created(j) : j.list[k].id = None}
<1>2. IsFiniteSet(drawn) /\ Cardinality(drawn) \in Nat /\ drawn \subseteq 1..n
  <2>1. drawn \in SUBSET (1..n) /\ IsFiniteSet(1..n)
    BY <1>1, FS_Interval DEF Created
  <2> QED
    BY <2>1, FS_Subset, FS_CardinalityType
<1>3. MaxIds \in Nat
  BY ShipmentAssumption
<1>4. Issued(j) = lastId + Cardinality(drawn) /\ Issued(j) <= MaxIds
  BY DEF Issued, Fits
<1>5. ASSUME NEW i \in Created(j) PROVE NewId(j, i) \in Ids
  <2>1. i \in DOMAIN j.list /\ i \in 1..n
    BY <1>1 DEF Created
  <2>2. CASE j.list[i].id # None
    BY <2>1, <2>2, ListEntries DEF NewId
  <2>3. CASE j.list[i].id = None
    <3> DEFINE before == {k \in Created(j) : k <= i /\ j.list[k].id = None}
    <3>1. before \in SUBSET drawn /\ i \in before
      BY <1>5, <2>1, <2>3
    <3> HIDE DEF before, drawn
    <3>2. IsFiniteSet(before) /\ Cardinality(before) <= Cardinality(drawn) /\ Cardinality(before) \in Nat
      BY <1>2, <3>1, FS_Subset, FS_CardinalityType
    <3>3. Cardinality(before) # 0
      BY <3>1, <3>2, FS_EmptySet
    <3>4. NewId(j, i) = lastId + Cardinality(before)
      BY <2>3 DEF NewId, before
    <3> QED
      BY <1>2, <1>3, <1>4, <3>2, <3>3, <3>4 DEF Ids
  <2> QED
    BY <2>2, <2>3
<1> QED
  BY <1>2, <1>3, <1>4, <1>5

\* An update that commits keeps the invariant and the rows that are referred to.
LEMMA WriteShips ==
  ASSUME ShippingInv, NEW w \in Workers, Write(w), \A v \in Workers \ {w} : pc[v] = "idle"
  PROVE  ShippingInv' /\ ReferencedKept
<1>1. PICK j \in ShipmentJobs : j = job[w]
  BY DEF ShippingInv, ShippingTyped
<1>2. /\ pc[w] = "write" /\ Fits(j) /\ ~Conflict(j) /\ rows' = Written(j) /\ lastId' = Issued(j)
      /\ refs' \subseteq refs /\ End(w)
  BY <1>1 DEF Write
<1>3. j.list \in Lists /\ j.referenced = ReferencedAmong(rows) /\ Matches(j.match, rows, Len(j.list))
  BY <1>1, <1>2 DEF ShippingInv, UpToDate
<1>4. \A i \in Created(j) : NumberAt(j.list, i) \in Int
  BY <1>3, ListEntries DEF Created
<1>5. \A s \in Ids :
        /\ Written(j)[s] = Absent \/ /\ Written(j)[s] \in Shipment
                                     /\ Written(j)[s].no \in {Written(j)[s].ref, Temporary(s), Parked(s)}
        /\ s \in j.referenced => Written(j)[s] \in Shipment
  <2> SUFFICES ASSUME NEW s \in Ids
               PROVE  /\ Written(j)[s] = Absent \/ /\ Written(j)[s] \in Shipment
                                                    /\ Written(j)[s].no \in {Written(j)[s].ref, Temporary(s), Parked(s)}
                      /\ s \in j.referenced => Written(j)[s] \in Shipment
    OBVIOUS
  <2>1. CASE \E i \in Created(j) : NewId(j, i) = s
    <3>1. PICK i \in Created(j) : NewId(j, i) = s
      BY <2>1
    <3>2. PICK n \in Int : n = NumberAt(j.list, i)
      BY <1>4
    <3>3. Written(j)[s] = [no |-> n, ref |-> n, status |-> "Scheduled"]
      BY <1>1, <1>2, <3>1, <3>2, WrittenRows
    <3> QED
      BY <3>3 DEF Shipment
  <2>2. CASE \E i \in 1..Len(j.list) : j.match[i] = s
    BY <1>1, <1>2, <2>2, WrittenRows
  <2>3. CASE (\A i \in 1..Len(j.list) : j.match[i] # s) /\ (\A i \in Created(j) : NewId(j, i) # s)
    <3>1. IF s \in j.referenced
          THEN /\ Written(j)[s] \in Shipment /\ Written(j)[s].status = "Cancelled"
               /\ Written(j)[s].no \in {Temporary(s), Parked(s)}
          ELSE Written(j)[s] = Absent
      BY <1>1, <1>2, <2>3, WrittenRows
    <3> QED
      BY <3>1
  <2> QED
    BY <2>1, <2>2, <2>3
<1>6. Written(j) = [s \in Ids |-> Written(j)[s]]
  BY DEF Written
<1>7. rows' \in Tables /\ \A s \in Ids : rows'[s] = Written(j)[s]
  BY <1>2, <1>5, <1>6 DEF Tables
<1>8. NumbersMatchReferences'
  BY <1>5, <1>7 DEF NumbersMatchReferences, Present
<1>9. lastId' \in 0..MaxIds
  BY <1>2, <1>3, NewIdsFit DEF ShippingInv, ShippingTyped
<1>10. ShippingInv'
  BY <1>2, <1>7, <1>8, <1>9, ShipsEnd DEF ShippingInv, ShippingTyped
<1>11. ReferencedKept
  <2> SUFFICES ASSUME NEW s \in Present(rows), NEW r \in Referrers, <<r, s>> \in refs PROVE rows'[s] # Absent
    BY DEF ReferencedKept
  <2>1. s \in Ids /\ s \in j.referenced
    BY <1>3 DEF ReferencedAmong, Present
  <2> QED
    BY <1>5, <1>7, <2>1, ShipmentRows
<1> QED
  BY <1>10, <1>11

\* And it has written its list: each entry has a row of its own, the other rows are cancelled.
LEMMA WritesTheList ==
  ASSUME ShippingInv, NEW w \in Workers, Write(w)
  PROVE  LET list == job[w].list
         IN \E row \in Injection(DOMAIN list, Ids) :
              /\ \A i \in DOMAIN list : rows'[row[i]].ref = NumberAt(list, i)
              /\ \A s \in Present(rows') \ Range(row) :
                   rows'[s].status = "Cancelled" /\ \E r \in Referrers : <<r, s>> \in refs'
<1>1. PICK j \in ShipmentJobs : j = job[w]
  BY DEF ShippingInv, ShippingTyped
<1>2. /\ pc[w] = "write" /\ Fits(j) /\ ~Conflict(j) /\ rows' = Written(j)
      /\ refs' = {r \in refs : r[2] \notin Deleted(j)}
  BY <1>1 DEF Write
<1>3. /\ j.list \in Lists /\ j.referenced = ReferencedAmong(rows) /\ Matches(j.match, rows, Len(j.list))
      /\ lastId \in 0..MaxIds
  BY <1>1, <1>2 DEF ShippingInv, ShippingTyped, UpToDate
<1>4. PICK n \in Nat : n = Len(j.list) /\ DOMAIN j.list = 1..n
  BY <1>3, ListEntries
<1>5. /\ \A i \in 1..n : j.match[i] \in Present(rows) \union {None}
      /\ \A i, k \in 1..n : j.match[i] = j.match[k] /\ j.match[i] # None => i = k
  BY <1>3, <1>4 DEF Matches
<1>6. \A i \in 1..n : i \in Created(j) <=> j.match[i] = None
  BY <1>4 DEF Created
<1>7. \A i \in Created(j) : i \in 1..n /\ NewId(j, i) \in Ids /\ rows[NewId(j, i)] = Absent
  BY <1>2, <1>3, <1>4, NewIdsFit DEF Conflict, Created
<1>8. \A i, k \in Created(j) : NewId(j, i) = NewId(j, k) => i = k
  BY <1>2 DEF Conflict
<1>9. PICK row : row = [i \in 1..n |-> IF j.match[i] # None THEN j.match[i] ELSE NewId(j, i)]
  OBVIOUS
<1>10. None \notin Ids /\ Present(rows) \subseteq Ids
  BY ShipmentAssumption DEF Ids, Present
<1>11. \A i \in 1..n : /\ j.match[i] # None => row[i] = j.match[i] /\ row[i] \in Present(rows)
                       /\ j.match[i] = None => row[i] = NewId(j, i) /\ row[i] \in Ids \ Present(rows)
  BY <1>5, <1>6, <1>7, <1>9 DEF Present
<1>12. \A i, k \in 1..n : row[i] = row[k] => i = k
  BY <1>5, <1>6, <1>8, <1>11
<1>13. row \in Injection(1..n, Ids)
  <2>1. \A i \in 1..n : row[i] \in Ids
    BY <1>10, <1>11
  <2>2. DOMAIN row = 1..n /\ row = [i \in 1..n |-> row[i]]
    BY <1>9
  <2>3. row \in [1..n -> Ids]
    BY <2>1, <2>2
  <2> QED
    BY <1>12, <2>2, <2>3 DEF Injection, IsInjective
<1>14. ASSUME NEW i \in 1..n PROVE rows'[row[i]].ref = NumberAt(j.list, i)
  <2>1. PICK s \in Ids : s = row[i]
    BY <1>10, <1>11
  <2>2. CASE j.match[i] # None
    BY <1>1, <1>2, <1>4, <1>11, <2>1, <2>2, WrittenRows
  <2>3. CASE j.match[i] = None
    <3>1. i \in Created(j) /\ NewId(j, i) = s
      BY <1>6, <1>11, <2>1, <2>3
    <3>2. pc[w] = "write" /\ j = job[w] /\ ~Conflict(j)
      BY <1>1, <1>2
    <3>3. \A k \in Created(j) : NewId(j, k) = s =>
            Written(j)[s] = [no |-> NumberAt(j.list, k), ref |-> NumberAt(j.list, k), status |-> "Scheduled"]
      BY <3>2, WrittenRows, Zenon
    <3>4. Written(j)[s] = [no |-> NumberAt(j.list, i), ref |-> NumberAt(j.list, i), status |-> "Scheduled"]
      BY <3>1, <3>3, Zenon
    <3> QED
      BY <1>2, <2>1, <3>4
  <2> QED
    BY <2>2, <2>3
<1>15. ASSUME NEW s \in Present(rows') \ Range(row)
       PROVE  rows'[s].status = "Cancelled" /\ \E r \in Referrers : <<r, s>> \in refs'
  <2>1. s \in Ids /\ Written(j)[s] # Absent
    BY <1>2, <1>15 DEF Present
  <2>2. \A i \in 1..n : row[i] # s
    BY <1>9, <1>15 DEF Range
  <2>3. (\A i \in 1..Len(j.list) : j.match[i] # s) /\ (\A i \in Created(j) : NewId(j, i) # s)
    BY <1>4, <1>6, <1>7, <1>10, <1>11, <2>1, <2>2
  <2>4. s \in j.referenced /\ Written(j)[s].status = "Cancelled"
    BY <1>1, <1>2, <2>1, <2>3, WrittenRows
  <2>5. PICK r \in Referrers : <<r, s>> \in refs
    BY <1>3, <2>4 DEF ReferencedAmong
  <2>6. <<r, s>>[2] = s /\ s \notin Deleted(j)
    BY <2>4 DEF Deleted
  <2>7. <<r, s>> \in refs'
    BY <1>2, <2>5, <2>6
  <2> QED
    BY <1>2, <2>4, <2>7
<1>16. DOMAIN job[w].list = 1..n /\ job[w].list = j.list
  BY <1>1, <1>4
<1> QED
  BY <1>13, <1>14, <1>15, <1>16

\* A request that fails or is lost leaves the rows alone.
LEMMA ShipmentsLeft ==
  ASSUME ShippingInv, NEW w \in Workers, Throw(w) \/ Crash(w), \A v \in Workers \ {w} : pc[v] = "idle"
  PROVE  ShippingInv' /\ rows' = rows
<1>1. ShippingTyped /\ End(w) /\ UNCHANGED <<rows, lastId, refs>>
  BY DEF ShippingInv, Throw, Crash
<1>2. refs' \in SUBSET (Referrers \X Ids)
  BY <1>1 DEF ShippingTyped
<1> QED
  BY <1>1, <1>2, ShipsEnd, RowsAreKept

\* One request at a time: each step keeps what is read up to date, the rows that are referred to,
\* and the list of an update that writes.
LEMMA ShippingStep ==
  ASSUME ShippingInv, SerialShipments \/ UNCHANGED vars
  PROVE  ShippingInv' /\ ReferencedKept /\ ListIsWritten
<1>1. rows' = rows => ReferencedKept /\ ListIsWritten
  BY DEF ReferencedKept, ListIsWritten, Present
<1>2. CASE UNCHANGED vars
  <2>1. UNCHANGED <<rows, lastId, refs, header, pc, job>>
    BY <1>2 DEF vars
  <2>2. ShippingTyped' /\ OneShips' /\ \A w \in Workers : UpToDate(w)'
    BY <2>1 DEF ShippingInv, ShippingTyped, OneShips, UpToDate, ReferencedAmong, Present
  <2> QED
    BY <1>1, <2>1, <2>2, RowsAreKept DEF ShippingTyped
<1>3. CASE \E w \in Workers : (\A v \in Workers : pc[v] = "idle") /\ Request(w)
  <2>1. PICK w \in Workers : (\A v \in Workers : pc[v] = "idle") /\ Request(w)
    BY <1>3
  <2>2. rows' = rows
    BY <2>1 DEF Request, Update, Edit, Refer, data
  <2> QED
    BY <1>1, <2>1, <2>2, RequestsShip
<1>4. CASE \E w \in Workers : Proceed(w) \/ Crash(w)
  <2>1. PICK w \in Workers : Proceed(w) \/ Crash(w)
    BY <1>4
  <2>2. pc[w] # "idle"
    BY <2>1 DEF Proceed, ReadShipments, ReadReferences, Negate, Write, Save, Throw, Crash
  <2>3. \A v \in Workers \ {w} : pc[v] = "idle"
    BY <2>2 DEF ShippingInv, OneShips
  <2>4. CASE ReadShipments(w) \/ ReadReferences(w) \/ Negate(w)
    <3>1. rows' = rows
      BY <2>4 DEF ReadShipments, ReadReferences, Negate, data
    <3> QED
      BY <1>1, <2>3, <2>4, <3>1, ReadsShip
  <2>5. CASE Write(w)
    <3>1. ShippingInv' /\ ReferencedKept
      BY <2>3, <2>5, WriteShips
    <3>2. \A v \in Workers : pc[v] = "write" => v = w
      BY <2>3
    <3>3. LET list == job[w].list
          IN \E row \in Injection(DOMAIN list, Ids) :
               /\ \A i \in DOMAIN list : rows'[row[i]].ref = NumberAt(list, i)
               /\ \A s \in Present(rows') \ Range(row) :
                    rows'[s].status = "Cancelled" /\ \E r \in Referrers : <<r, s>> \in refs'
      BY <2>5, WritesTheList
    <3>4. ListIsWritten
      BY <3>2, <3>3, Zenon DEF ListIsWritten
    <3> QED
      BY <3>1, <3>4
  <2>6. CASE Save(w)
    <3>1. ShippingInv' /\ ReferencedKept
      BY <2>3, <2>6, SaveShips
    <3>2. \A v \in Workers : pc[v] # "write"
      BY <2>3, <2>6 DEF Save
    <3> QED
      BY <3>1, <3>2 DEF ListIsWritten
  <2>7. CASE Throw(w) \/ Crash(w)
    BY <1>1, <2>3, <2>7, ShipmentsLeft
  <2> QED
    BY <2>1, <2>4, <2>5, <2>6, <2>7 DEF Proceed
<1> QED
  BY <1>2, <1>3, <1>4 DEF SerialShipments, Next

\* At first no request is at work and every shipment has its number.
LEMMA ShippingBegins == ASSUME Init PROVE ShippingInv
<1>1. "idle" \in Labels /\ MaxLength \in 0..MaxIds /\ MaxIds \in Nat
  BY ShipmentAssumption DEF Labels
<1>2. lastId \in 0..MaxIds
  BY <1>1 DEF Init
<1>3. \A s \in Ids : /\ s <= lastId => rows[s] = [no |-> s, ref |-> s, status |-> "Scheduled"]
                     /\ ~(s <= lastId) => rows[s] = Absent
  BY DEF Init
<1>4. ASSUME NEW s \in Ids
      PROVE  rows[s] \in Shipment \union {Absent} /\ (rows[s] # Absent => rows[s].no = rows[s].ref)
  <2>1. s \in Int
    BY <1>1 DEF Ids
  <2>2. [no |-> s, ref |-> s, status |-> "Scheduled"] \in Shipment
    BY <2>1 DEF Shipment
  <2>3. CASE s <= lastId
    BY <1>3, <2>2, <2>3
  <2>4. CASE ~(s <= lastId)
    BY <1>3, <2>4
  <2> QED
    BY <2>3, <2>4
<1>5. rows \in Tables
  BY <1>4 DEF Init, Tables
<1>6. pc \in [Workers -> Labels] /\ job \in [Workers -> ShipmentJobs]
  BY <1>1, JobsAre DEF Init
<1>7. ShippingTyped /\ NumbersMatchReferences
  BY <1>2, <1>4, <1>5, <1>6 DEF Init, ShippingTyped, NumbersMatchReferences, Present
<1> QED
  BY <1>7 DEF Init, ShippingInv, OneShips, UpToDate

\* Rows that are typed and number and reference that agree are what the property asks for.
LEMMA ShippingKeepsRows == ASSUME ShippingInv PROVE RowsSound
<1>1. \A w \in Workers : job[w] \in ShipmentJobs
  BY DEF ShippingInv, ShippingTyped
<1>2. \A w \in Workers : job[w].negated \subseteq Ids /\ job[w].referenced \subseteq Ids
  BY <1>1 DEF ShipmentJobs
<1>3. rows \in [Ids -> [no: Int, ref: Int, status: {"Scheduled", "Cancelled"}] \union {Absent}]
  BY DEF ShippingInv, ShippingTyped, Tables, Shipment
<1>4. TypeOK
  BY <1>2, <1>3 DEF TypeOK, ShippingInv, ShippingTyped
<1> QED
  BY <1>4 DEF RowsSound, ShippingInv

-----------------------------------------------------------------------------
(* Side by side: each component behaves as it does alone, whoever is exercised. *)

\* A step takes one step of the day, one about a correction or none, one request at a time where
\* the part says so.
LEMMA RecordsDaySteps ==
  ASSUME RecordsNext
  PROVE  /\ UNCHANGED part
         /\ DayNext \/ UNCHANGED dayVars
         /\ CorrectionsNext \/ UNCHANGED correctionVars
         /\ In({"day serial"}) => SerialDay
         /\ In({"corrections serial"}) => SerialCorrections
<1>1. SerialDay \/ RacingDay => DayNext
  BY DEF SerialDay, RacingDay, DayNext
<1>2. SerialCorrections => CorrectionsNext
  BY DEF SerialCorrections, CorrectionsNext
<1> QED
  BY <1>1, <1>2 DEF RecordsNext, In, Shipping, Attending, Correcting, Quoting, Itemising, InOffice,
     Working, Organising, Reporting, AttendingRests

\* Whoever races, a closed day has the time of its check-out and an approved correction is applied
\* once; while no request comes between the reading and the writing of a job, its session, its
\* times and its breaks agree, with any number of jobs that overlap each other; and with requests
\* one at a time one correction is pending.
THEOREM RecordsDayInOrder == RecordsSpec => []DayInOrder
<1> DEFINE Inv == /\ DayInv /\ (In({"day serial"}) => SerialDayInv)
                  /\ CorrectionsInv /\ (In({"corrections serial"}) => OneAtDesk)
<1>1. RecordsInit => Inv
  BY DayBegin, CorrectionsBegin DEF RecordsInit
<1>2. Inv /\ [RecordsNext]_recordVars => Inv'
  <2>1. CASE UNCHANGED recordVars
    <3>1. UNCHANGED dayVars /\ UNCHANGED correctionVars /\ UNCHANGED part
      BY <2>1 DEF recordVars
    <3>2. UNCHANGED <<now, record, wrote, breaks, half, run, desk, corrections>>
      BY <3>1 DEF dayVars, correctionVars
    <3>3. (DayInv => DayInv') /\ (CorrectionsInv => CorrectionsInv')
      BY <3>1, DayStep, CorrectionsStep
    <3>4. SerialDayInv => SerialDayInv'
      <4>1. Sessions /\ InThePast => Sessions' /\ InThePast'
        BY <3>2 DEF Sessions, OpenHasNone, InOrder, OnBreakIsLogged, OpenBreak, InThePast
      <4>2. ASSUME NEW w \in Runs, JobSees(w) PROVE JobSees(w)'
        BY <3>2, <4>2 DEF JobSees, InSession, OldEnough
      <4> QED
        BY <4>1, <4>2 DEF SerialDayInv
    <3>5. OneAtDesk => OneAtDesk'
      BY <3>2 DEF OneAtDesk, OnePending, Pending
    <3> QED
      BY <3>1, <3>3, <3>4, <3>5 DEF In
  <2>2. CASE RecordsNext
    <3>1. Inv => DayInv' /\ CorrectionsInv'
      BY <2>2, RecordsDaySteps, DayStep, CorrectionsStep
    <3>2. Inv => (In({"day serial"})' => SerialDayInv')
      BY <2>2, RecordsDaySteps, SerialDayStep DEF In
    <3>3. Inv => (In({"corrections serial"})' => OneAtDesk')
      BY <2>2, RecordsDaySteps, SerialCorrectionsStep DEF In
    <3> QED
      BY <3>1, <3>2, <3>3
  <2> QED
    BY <2>1, <2>2
<1>3. Inv => DayInOrder
  BY DEF DayInOrder, DayInv, SerialDayInv, CorrectionsInv, OneAtDesk
<1> QED
  BY <1>1, <1>2, <1>3, PTL DEF RecordsSpec

\* A step takes one step of the quotes, of the lines or of the reports or none, one request at a
\* time where the part says so.
LEMMA RecordsLogisticsSteps ==
  ASSUME RecordsNext
  PROVE  /\ UNCHANGED part
         /\ FreightNext \/ UNCHANGED freightVars
         /\ LinesNext \/ UNCHANGED lineVars
         /\ StockNext \/ UNCHANGED stockVars
         /\ In({"sheets serial", "copies serial"}) => Acts(FirstAuthor)
<1>1. RacingQuotes \/ MovingQuotes \/ RacingGenerations => FreightNext
  BY DEF RacingQuotes, MovingQuotes, RacingGenerations, FreightNext
<1>2. FirstAuthor \in Authors
  BY StockAssumption DEF FirstAuthor
<1>3. SerialSheets \/ SerialCopies => Acts(FirstAuthor)
  BY DEF SerialSheets, SerialCopies, Acts, Begins, Turning, Drawing
<1>4. Acts(FirstAuthor) => StockNext
  BY <1>2 DEF StockNext, Acts
<1>5. RacingScopes \/ RacingSheets => StockNext
  BY DEF RacingScopes, RacingSheets, StockNext, Begins, Turning, Drawing
<1> QED
  BY <1>1, <1>3, <1>4, <1>5 DEF RecordsNext, In, Shipping, Attending, Correcting, Quoting, Itemising, InOffice,
     Working, Organising, Reporting, QuotingRests, ReportsRest

\* Whoever races, a shipment has one preferred quote and its price, one shipment is generated, a
\* quote has the lines of one edit, a cell of a stock report stands where a row meets a column of
\* its section, and a report has countries; one request at a time it has them once, and what is
\* copied of a section is complete.
THEOREM RecordsLogisticsSettled == RecordsSpec => []LogisticsSettled
<1> DEFINE Alone == AloneInv(FirstAuthor) /\ CopiedSoFar(author[FirstAuthor])
           Inv == FreightInv /\ LinesInv /\ StockInv /\ (In({"sheets serial", "copies serial"}) => Alone)
<1>1. FirstAuthor \in Authors
  BY StockAssumption DEF FirstAuthor
<1>2. RecordsInit => Inv
  BY <1>1, FreightBegins, LinesBegin, StockBegins, AloneBegins DEF RecordsInit
<1>3. Inv /\ [RecordsNext]_recordVars => Inv'
  <2>1. ASSUME UNCHANGED stockVars, Alone PROVE Alone'
    <3>1. UNCHANGED <<summaries, sections, columns, sheetRows, cells, scopes, author, cutOff, strays>>
      BY <2>1 DEF stockVars
    <3>2. StockInv'
      BY <2>1, StockStep DEF AloneInv
    <3>3. OneAtWork(FirstAuthor)' /\ ListedOnce(FirstAuthor)'
      BY <2>1, <3>1 DEF AloneInv, OneAtWork, ListedOnce
    <3>4. ColumnsOf(author[FirstAuthor].to)' = ColumnsOf(author[FirstAuthor].to)
          /\ RowsOf(author[FirstAuthor].to)' = RowsOf(author[FirstAuthor].to)
      BY <3>1 DEF ColumnsOf, RowsOf
    <3>5. CopiedSoFar(author[FirstAuthor])'
      BY <2>1, <3>1, <3>4 DEF CopiedSoFar
    <3> QED
      BY <3>2, <3>3, <3>5 DEF AloneInv
  <2>2. Alone /\ Acts(FirstAuthor) => Alone'
    BY <1>1, AloneStep, CopiedStep
  <2> HIDE DEF Alone
  <2>3. CASE UNCHANGED recordVars
    <3>1. UNCHANGED <<freightVars, lineVars, stockVars, part>>
      BY <2>3 DEF recordVars
    <3> QED
      BY <2>1, <3>1, FreightStep, LinesStep, StockStep DEF In
  <2>4. CASE RecordsNext
    BY <2>1, <2>2, <2>4, RecordsLogisticsSteps, FreightStep, LinesStep, StockStep DEF In
  <2> QED
    BY <2>3, <2>4
<1>4. Inv => LogisticsSettled
  <2>1. StockInv => CellsPlaced /\ ScopeKept
    BY DEF StockInv
  <2>2. Alone => ScopeOnce /\ CopyComplete
    BY <1>1, CopiesAreComplete DEF AloneInv, ListedOnce, ScopeOnce
  <2>3. FreightInv => OnePreferred /\ ChargedAsPreferred /\ GeneratedOnce
    BY FreightGood
  <2>4. LinesInv => HeadMatchesLines /\ LinesOfOneEdit
    BY LinesGood
  <2> HIDE DEF Alone
  <2> QED
    BY <2>1, <2>2, <2>3, <2>4 DEF LogisticsSettled, In
<1> QED
  BY <1>2, <1>3, <1>4, PTL DEF RecordsSpec

\* A step takes one step about tasks, one about employees and units or none, one request at a time
\* where the part says so.
LEMMA RecordsTreeSteps ==
  ASSUME RecordsNext
  PROVE  /\ UNCHANGED part
         /\ TasksNext \/ UNCHANGED taskVars
         /\ OrgNext \/ UNCHANGED orgVars
         /\ In({"tasks serial", "tasks moving"}) => SerialTasks \/ UNCHANGED taskVars
         /\ In({"staff serial"}) => SerialStaff \/ UNCHANGED orgVars
         /\ In({"units serial"}) => SerialUnits \/ UNCHANGED orgVars
<1>1. /\ DependingTasks \/ MovingTasks => SerialTasks
      /\ SerialTasks \/ RacingTasks => TasksNext
  BY DEF DependingTasks, MovingTasks, SerialTasks, RacingTasks, TasksNext
<1>2. SerialStaff \/ SerialUnits => OrgNext
  BY DEF SerialStaff, SerialUnits, OrgNext, StaffNext, UnitsNext
<1> QED
  BY <1>1, <1>2 DEF RecordsNext, In, Shipping, Attending, Correcting, Quoting, Itemising, InOffice,
     Working, Organising, Reporting, OfficeRests

\* Whoever races, no two first tasks share a number of the sequence but those an update made; one
\* request at a time, no two subtasks of a task that lost none share a code, no task depends on
\* itself, nobody reports to himself, and no unit is part of itself but those that an update has
\* made active again.
THEOREM RecordsTreesOrdered == RecordsSpec => []TreesOrdered
<1> DEFINE Inv == /\ TasksInv /\ (In({"tasks serial", "tasks moving"}) => SerialTasksInv)
                  /\ OrgInv /\ (In({"staff serial"}) => StaffInv)
                  /\ In({"units serial"}) => UnitsInv
<1>1. RecordsInit => Inv
  BY TasksBegin, SerialTasksBegin, OrgBegins, SerialOrgBegins DEF RecordsInit
<1>2. Inv /\ [RecordsNext]_recordVars => Inv'
  <2>1. ASSUME UNCHANGED taskVars, SerialTasksInv PROVE SerialTasksInv'
    <3>1. UNCHANGED <<lastNumber, holder, tasks, depends, request, rewritten, bereft>>
      BY <2>1 DEF taskVars
    <3>2. OneTask' /\ CodesInv'
      <4>1. \A p : Siblings(p)' = Siblings(p)
        BY <3>1 DEF Siblings, Children, Made
      <4>2. OneTask' /\ CodesUnique' /\ Lettered'
        BY <2>1, <3>1, <4>1 DEF SerialTasksInv, OneTask, CodesInv, Lettered, CodesUnique, Made
      <4>3. \A u \in Users : Counted(u)'
        BY <2>1, <3>1, <4>1 DEF SerialTasksInv, CodesInv, Counted, Made
      <4> QED
        BY <4>2, <4>3 DEF CodesInv
    <3>3. WalksInv'
      BY <2>1, <3>1 DEF SerialTasksInv, WalksInv, Acyclic, Walked, Reached, DirectDependencies
    <3> QED
      BY <3>2, <3>3 DEF SerialTasksInv
  <2>2. ASSUME UNCHANGED orgVars PROVE (StaffInv => StaffInv') /\ (UnitsInv => UnitsInv')
    <3>1. UNCHANGED <<staff, units, reopened, edit>>
      BY <2>2 DEF orgVars
    <3>2. OneEdit' = OneEdit /\ ReportingEnds' = ReportingEnds /\ UnitsEnd' = UnitsEnd
      BY <3>1 DEF OneEdit, ReportingEnds, UnitsEnd, Employed, ActiveUnits, Existent
    <3>3. \A q \in Editors : Apart(q)' = Apart(q) /\ Outside(q)' = Outside(q)
      BY <3>1 DEF Apart, Outside, Employed, ActiveUnits, Existent
    <3> QED
      BY <3>2, <3>3 DEF StaffInv, UnitsInv
  <2>3. CASE UNCHANGED recordVars
    <3>1. UNCHANGED taskVars /\ UNCHANGED orgVars /\ UNCHANGED part
      BY <2>3 DEF recordVars
    <3> QED
      BY <2>1, <2>2, <3>1, TasksStep, OrgStep DEF In
  <2>4. CASE RecordsNext
    <3>1. Inv => TasksInv' /\ OrgInv'
      BY <2>4, RecordsTreeSteps, TasksStep, OrgStep
    <3>2. Inv => (In({"tasks serial", "tasks moving"})' => SerialTasksInv')
      BY <2>1, <2>4, RecordsTreeSteps, SerialTasksStep DEF In
    <3>3. Inv => (In({"staff serial"})' => StaffInv')
      BY <2>2, <2>4, RecordsTreeSteps, SerialStaffStep DEF In
    <3>4. Inv => (In({"units serial"})' => UnitsInv')
      BY <2>2, <2>4, RecordsTreeSteps, SerialUnitsStep DEF In
    <3> QED
      BY <3>1, <3>2, <3>3, <3>4
  <2> QED
    BY <2>3, <2>4
<1>3. Inv => TreesOrdered
  BY DEF TreesOrdered, TasksInv, SerialTasksInv, CodesInv, WalksInv, StaffInv, UnitsInv, In
<1> QED
  BY <1>1, <1>2, <1>3, PTL DEF RecordsSpec

\* A step takes one step of each component or none; shipments are changed by one request at a time.
LEMMA RecordsSteps ==
  ASSUME RecordsNext
  PROVE  /\ SerialShipments \/ UNCHANGED vars
         /\ FreightNext \/ UNCHANGED freightVars
         /\ LinesNext \/ UNCHANGED lineVars
         /\ DayNext \/ UNCHANGED dayVars
         /\ CorrectionsNext \/ UNCHANGED correctionVars
         /\ TasksNext \/ UNCHANGED taskVars
         /\ OrgNext \/ UNCHANGED orgVars
         /\ StockNext \/ UNCHANGED stockVars
<1>1. SerialShipments \/ UNCHANGED vars
  BY DEF RecordsNext, Shipping, Attending, Correcting, Quoting, Itemising, InOffice, Working, Organising,
     Reporting, ShippingRests
<1> QED
  BY <1>1, RecordsDaySteps, RecordsLogisticsSteps, RecordsTreeSteps

\* Whoever races, every row, every time and everything a request holds is of its type; and while no
\* shipment of a contract is changed by two requests at once, its number and reference agree.
THEOREM RecordsRowsSound == RecordsSpec => []AllRowsSound
<1> DEFINE Inv == /\ ShippingInv /\ FreightInv /\ LinesInv /\ DayInv /\ DayBounds
                  /\ CorrectionsInv /\ TasksInv /\ OrgInv /\ StockInv
<1>1. RecordsInit => Inv
  BY ShippingBegins, FreightBegins, LinesBegin, DayBegin, DayStartsOnClock, CorrectionsBegin, TasksBegin,
     OrgBegins, StockBegins DEF RecordsInit
<1>2. Inv /\ [RecordsNext]_recordVars => Inv'
  <2>1. RecordsNext \/ UNCHANGED recordVars =>
          /\ SerialShipments \/ UNCHANGED vars
          /\ [FreightNext]_freightVars /\ [LinesNext]_lineVars /\ [DayNext]_dayVars
          /\ [CorrectionsNext]_correctionVars /\ [TasksNext]_taskVars /\ [OrgNext]_orgVars /\ [StockNext]_stockVars
    BY RecordsSteps DEF recordVars
  <2> QED
    BY <2>1, ShippingStep, FreightStep, LinesStep, DayStep, DayOnClock, CorrectionsStep, TasksStep, OrgStep, StockStep
<1>3. Inv => AllRowsSound
  <2>1. CorrectionsInv => CorrectionsTypeOK
    BY PaperTyped DEF CorrectionsInv, CorrectionsTyped, CorrectionsTypeOK
  <2>2. TasksInv => TasksTypeOK
    BY TaskRows, RequestTyped DEF TasksInv, TasksTyped, TasksTypeOK
  <2>3. OrgInv => OrgTypeOK
    BY EditTyped DEF OrgInv, OrgTyped, OrgTypeOK
  <2> QED
    BY <2>1, <2>2, <2>3, ShippingKeepsRows, FreightGood, LinesGood, DayTypesHold, StockTypesHold DEF AllRowsSound
<1> QED
  BY <1>1, <1>2, <1>3, PTL DEF RecordsSpec

\* One request at a time: an update of shipments writes its list and keeps the rows that are
\* referred to.
THEOREM RecordsWritten == RecordsSpec => WrittenAsMeant
<1> DEFINE Meant == In({"shipments"}) => ReferencedKept /\ ListIsWritten
<1>1. RecordsInit => ShippingInv
  BY ShippingBegins DEF RecordsInit
<1>2. ShippingInv /\ [RecordsNext]_recordVars => ShippingInv' /\ (RecordsNext => Meant)
  <2>1. CASE UNCHANGED recordVars /\ ~RecordsNext
    <3>1. UNCHANGED <<vars, part>>
      BY <2>1 DEF recordVars
    <3> QED
      BY <2>1, <3>1, ShippingStep DEF In
  <2>2. CASE RecordsNext
    BY <2>2, RecordsSteps, ShippingStep DEF In
  <2> QED
    BY <2>1, <2>2
<1>3. ShippingInv /\ [RecordsNext]_recordVars => [Meant]_recordVars
  BY <1>2
<1>4. ShippingInv /\ [RecordsNext]_recordVars => ShippingInv'
  BY <1>2
<1> QED
  BY <1>1, <1>3, <1>4, PTL DEF RecordsSpec, WrittenAsMeant
=============================================================================
