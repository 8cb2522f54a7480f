------------------------------- MODULE EnquiryDesk -------------------------------
(***************************************************************************)
(* Enquiries of one partner: what each says of the partner's turnover, its *)
(* bid and currency, its closure and its price history; and the lists that *)
(* are replaced as a whole: the partner's reports, of which one is the     *)
(* latest, and the loading points and destinations of an enquiry.          *)
(*                                                                         *)
(* create locks the partner.  An update validates and compares with the    *)
(* enquiry as it was loaded before its transaction, and Sequelize writes   *)
(* the columns that differ from it (a number always differs from the       *)
(* string that a DECIMAL is loaded as).  A list is replaced by one statement   *)
(* that takes the standing rows away and one that inserts the new ones;    *)
(* the first sees the rows committed before it began, waits for those      *)
(* another transaction is taking away, and never sees what that inserts.   *)
(*                                                                         *)
(* Left out: the other columns, offers (like bids), references             *)
(* (BusinessReference), removal, notifications and moving an enquiry to    *)
(* another partner.  A client may name the time an enquiry was closed,     *)
(* whatever its status, and enter what it likes in the activity log.       *)
(***************************************************************************)
EXTENDS Naturals, FiniteSets

CONSTANTS Traders,     \* requests that may overlap
          EnquiryIds,
          Turnovers,   \* 0 and others
          Prices,
          Copies,      \* bound on the lists that can stand in one place
          Blank,       \* NULL
          Kept         \* a field the DTO leaves out

ASSUME EnquiryAssumption ==
  /\ Turnovers \subseteq Nat /\ Blank \notin Turnovers \union Prices
  /\ Kept \notin Turnovers \union Prices \union {Blank} /\ Kept \notin BOOLEAN /\ Kept \notin {"PENDING", "CLOSED"}

VARIABLES turnover,    \* partners.annualTurnover
          enquiries,   \* their rows
          priceLog,    \* per enquiry, the bid its last entry in the activity log names
          stands,      \* the lists whose rows stand, per place
          trade,       \* per request: its next statement and what it has read
          edited,      \* history: has the partner's turnover been entered elsewhere?
          unlogged,    \* history: enquiries whose change never reached the log
          filed,       \* history: has a report been filed?
          dated,       \* history: enquiries dated by a client since their status was last set
          annotated    \* history: enquiries whose log a client wrote since their price last was

enquiryVars == <<turnover, enquiries, priceLog, stands, trade, edited, unlogged, filed,
               dated, annotated>>

Places == {"reports", "loading points", "destinations"}
Bids == Prices \union {Blank}
Submissions == Turnovers \union {Blank}
Enquiry == [status : {"NEW", "PENDING", "CLOSED"}, closed : BOOLEAN,  \* closed: closedAt is set
            bid : Bids, currency : BOOLEAN, snapshot : Submissions]
Unentered == [status |-> "unentered"]
OnFile == {e \in EnquiryIds : enquiries[e] # Unentered}

AtDesk == [at |-> "idle"]
Deals(t, next) == trade' = [trade EXCEPT ![t] = next]
Leaves(t) == Deals(t, AtDesk)

\* The partner's row is locked by the request that creates an enquiry.
PartnerFree == \A t \in Traders : trade[t].at # "insert"

\* validateCommercials: an amount needs a currency.
Priced(bid, currency) == bid # Blank => currency

-----------------------------------------------------------------------------
\* EnquiriesService.create.

\* (mutant) The partner is read without a lock.
ReadPartner(t) ==
  /\ trade[t] = AtDesk
  /\ \E e \in EnquiryIds \ OnFile, bid \in Bids, currency \in BOOLEAN, submitted \in Submissions,
        closed \in BOOLEAN :
       /\ Priced(bid, currency)
       /\ \A u \in Traders : trade[u].at = "insert" => trade[u].about # e
       /\ Deals(t, [at |-> "insert", about |-> e, bid |-> bid, currency |-> currency,
                    submitted |-> submitted, closed |-> closed, master |-> turnover])
  /\ UNCHANGED <<turnover, enquiries, priceLog, stands, edited, unlogged, filed, dated, annotated>>

LockPartner(t) ==
  /\ trade[t] = AtDesk /\ PartnerFree
  /\ \E e \in EnquiryIds \ OnFile, bid \in Bids, currency \in BOOLEAN, submitted \in Submissions,
        closed \in BOOLEAN :
       /\ Priced(bid, currency)
       /\ Deals(t, [at |-> "insert", about |-> e, bid |-> bid, currency |-> currency,
                    submitted |-> submitted, closed |-> closed, master |-> turnover])
  /\ UNCHANGED <<turnover, enquiries, priceLog, stands, edited, unlogged, filed, dated, annotated>>

InsertEnquiry(t) ==
  /\ trade[t].at = "insert"
  /\ LET d == trade[t]
         known == d.master # Blank /\ d.master > 0
     IN /\ turnover' = IF ~known /\ d.submitted # Blank THEN d.submitted ELSE turnover
        /\ enquiries' = [enquiries EXCEPT ![d.about] =
             [status |-> "NEW", closed |-> d.closed, bid |-> d.bid, currency |-> d.currency,
              snapshot |-> IF known THEN d.master ELSE d.submitted]]
        /\ dated' = IF d.closed THEN dated \union {d.about} ELSE dated
        /\ Deals(t, [at |-> "log", about |-> d.about, bid |-> d.bid])
  /\ UNCHANGED <<priceLog, stands, edited, unlogged, filed, annotated>>

\* logEnquiryCreated and logPriceChange, after the commit.
LogPrice(t) ==
  /\ trade[t].at = "log"
  /\ priceLog' = [priceLog EXCEPT ![trade[t].about] = trade[t].bid]
  /\ annotated' = annotated \ {trade[t].about}
  /\ Leaves(t)
  /\ UNCHANGED <<turnover, enquiries, stands, edited, unlogged, filed, dated>>

\* EnquiriesService.createActivity: an entry of any kind, with any bid.
PostActivity ==
  /\ \E e \in OnFile, bid \in Bids :
       /\ priceLog' = [priceLog EXCEPT ![e] = bid]
       /\ annotated' = annotated \union {e}
  /\ UNCHANGED <<turnover, enquiries, stands, trade, edited, unlogged, filed, dated>>

-----------------------------------------------------------------------------
\* EnquiriesService.update.

LoadEnquiry(t) ==
  /\ trade[t] = AtDesk
  /\ \E e \in OnFile, status \in {Kept, "PENDING", "CLOSED"}, bid \in Bids \union {Kept},
        currency \in BOOLEAN \union {Kept}, closed \in BOOLEAN \union {Kept} :
       /\ LET merged(dto, own) == IF dto = Kept THEN own ELSE dto
          IN Priced(merged(bid, enquiries[e].bid), merged(currency, enquiries[e].currency))
       /\ Deals(t, [at |-> "save", about |-> e, row |-> enquiries[e],
                    status |-> status, bid |-> bid, currency |-> currency, closed |-> closed])
  /\ UNCHANGED <<turnover, enquiries, priceLog, stands, edited, unlogged, filed, dated, annotated>>

\* A column is written when it is asked for and differs from the loaded one, an amount also
\* when it is the same.
Column(asked, loaded, current) == IF asked \in {Kept, loaded} THEN current ELSE asked
Amount(asked, loaded, current) ==
  IF asked = Kept \/ (asked = Blank /\ loaded = Blank) THEN current ELSE asked

\* A closure is dated anew and any other status clears the date; without a status a client may
\* set another date or clear it.
Closure(d, current) ==
  CASE d.status = "CLOSED" \/ (d.status = Kept /\ d.closed = TRUE) -> TRUE
    [] d.status = Kept /\ d.closed = Kept -> current
    [] OTHER -> Column(FALSE, d.row.closed, current)

SaveEnquiry(t) ==
  /\ trade[t].at = "save"
  /\ LET d == trade[t]
         now == enquiries[d.about]
     IN /\ enquiries' = [enquiries EXCEPT ![d.about] =
             [status |-> Column(d.status, d.row.status, now.status),
              closed |-> Closure(d, now.closed),
              bid |-> Amount(d.bid, d.row.bid, now.bid),
              currency |-> Column(d.currency, d.row.currency, now.currency),
              snapshot |-> now.snapshot]]
        /\ dated' = IF d.status # Kept THEN dated \ {d.about}
                    ELSE IF d.closed # Kept THEN dated \union {d.about} ELSE dated
        /\ IF d.bid \in {Kept, d.row.bid} THEN Leaves(t)
           ELSE Deals(t, [at |-> "log", about |-> d.about, bid |-> d.bid])
  /\ UNCHANGED <<turnover, priceLog, stands, edited, unlogged, filed, annotated>>

\* BusinessTransactionService.syncEnquiryStatus, for a follow-up: one transaction that holds the row.
SyncStatus ==
  /\ \E e \in OnFile, status \in {"PENDING", "CLOSED"} :
       /\ enquiries' = [enquiries EXCEPT ![e].status = status, ![e].closed = (status = "CLOSED")]
       /\ dated' = dated \ {e}
  /\ UNCHANGED <<turnover, priceLog, stands, trade, edited, unlogged, filed, annotated>>

-----------------------------------------------------------------------------
\* PartnerService.update: the partner is loaded, then saved.

LoadPartner(t) ==
  /\ trade[t] = AtDesk
  /\ \E asked \in Submissions : Deals(t, [at |-> "partner", asked |-> asked, read |-> turnover])
  /\ UNCHANGED <<turnover, enquiries, priceLog, stands, edited, unlogged, filed, dated, annotated>>

SavePartner(t) ==
  /\ trade[t].at = "partner" /\ PartnerFree
  /\ turnover' = Amount(trade[t].asked, trade[t].read, turnover)
  /\ edited' = TRUE
  /\ Leaves(t)
  /\ UNCHANGED <<enquiries, priceLog, stands, unlogged, filed, dated, annotated>>

-----------------------------------------------------------------------------
\* Lists replaced as a whole: PartnerDnbReportService.create, updateLoadingPoints and
\* updateDestinations.

\* What the request's first statement sees: the rows committed when it begins.
BeginList(t) ==
  /\ trade[t] = AtDesk
  /\ \E place \in Places, empty \in BOOLEAN, asked \in Turnovers \union {Kept} :
       /\ place = "reports" => ~empty
       /\ place # "reports" => asked = Kept
       /\ Deals(t, [at |-> "take", place |-> place, seen |-> stands[place], empty |-> empty,
                    asked |-> asked])
  /\ UNCHANGED <<turnover, enquiries, priceLog, stands, edited, unlogged, filed, dated, annotated>>

RowsTaken(place) == UNION {trade[t].taken : t \in {u \in Traders : trade[u].at = "put" /\ trade[u].place = place}}

\* It waits for rows that another request is taking, and then finds those gone.
TakeList(t) ==
  /\ trade[t].at = "take"
  /\ trade[t].seen \intersect RowsTaken(trade[t].place) = {}
  /\ Deals(t, [at |-> "put", place |-> trade[t].place, taken |-> trade[t].seen \intersect stands[trade[t].place],
               empty |-> trade[t].empty, asked |-> trade[t].asked])
  /\ UNCHANGED <<turnover, enquiries, priceLog, stands, edited, unlogged, filed, dated, annotated>>

Spare(place) == Copies \ stands[place]

\* The new rows, with the turnover a report may name, and the commit.  A report refers to the
\* partner's row.
PutList(t) ==
  /\ trade[t].at = "put"
  /\ LET d == trade[t]
         left == stands[d.place] \ d.taken
     IN /\ IF d.empty THEN stands' = [stands EXCEPT ![d.place] = left]
           ELSE \E copy \in Spare(d.place) : stands' = [stands EXCEPT ![d.place] = left \union {copy}]
        /\ d.place = "reports" => PartnerFree
        /\ turnover' = Amount(d.asked, Blank, turnover)
        /\ edited' = (edited \/ d.asked # Kept)
        /\ filed' = (filed \/ d.place = "reports")
  /\ Leaves(t)
  /\ UNCHANGED <<enquiries, priceLog, unlogged, dated, annotated>>

\* An error or a stopped process: the transaction is undone, what came after it is lost.
BreakOff(t) ==
  /\ trade[t] # AtDesk
  /\ unlogged' = IF trade[t].at = "log" THEN unlogged \union {trade[t].about} ELSE unlogged
  /\ Leaves(t)
  /\ UNCHANGED <<turnover, enquiries, priceLog, stands, edited, filed, dated, annotated>>

-----------------------------------------------------------------------------
Approach(t) == LockPartner(t) \/ LoadEnquiry(t) \/ LoadPartner(t) \/ BeginList(t)
Deal(t) == InsertEnquiry(t) \/ LogPrice(t) \/ SaveEnquiry(t) \/ SavePartner(t) \/ TakeList(t) \/ PutList(t)

EnquiriesInit ==
  /\ turnover = Blank
  /\ enquiries = [e \in EnquiryIds |-> Unentered]
  /\ priceLog = [e \in EnquiryIds |-> Blank]
  /\ stands = [p \in Places |-> {}]
  /\ trade = [t \in Traders |-> AtDesk]
  /\ edited = FALSE /\ unlogged = {} /\ filed = FALSE /\ dated = {} /\ annotated = {}

EnquiriesNext == SyncStatus \/ PostActivity \/ \E t \in Traders : Approach(t) \/ Deal(t) \/ BreakOff(t)

EnquiriesSpec == EnquiriesInit /\ [][EnquiriesNext]_enquiryVars

-----------------------------------------------------------------------------
(* Properties *)

EnquiriesTypeOK ==
  /\ turnover \in Submissions
  /\ enquiries \in [EnquiryIds -> Enquiry \union {Unentered}]
  /\ priceLog \in [EnquiryIds -> Bids]
  /\ stands \in [Places -> SUBSET Copies]
  /\ \A t \in Traders : trade[t].at \in {"idle", "insert", "log", "save", "partner", "take", "put"}

\* While nobody else enters the partner's turnover, all the enquiries created for it agree: the
\* first turnover submitted is the partner's, and every later enquiry carries it.
TurnoverSettled ==
  ~edited => \A e \in OnFile : enquiries[e].snapshot # Blank /\ enquiries[e].snapshot > 0
                                 => enquiries[e].snapshot = turnover

\* Whoever races, a partner for whom a report was filed has a latest one.
ReportKept == filed => stands["reports"] # {}

\* Serially at most one report is the latest, and the points of an enquiry are one list.
OneStands == \A p \in Places : Cardinality(stands[p]) <= 1

\* Serially an enquiry is dated closed exactly when it is closed, unless a client has written or
\* cleared that date since the status was last set; and its bid has a currency.
ClosedIsDated == \A e \in OnFile \ dated : enquiries[e].closed <=> enquiries[e].status = "CLOSED"
BidHasCurrency == \A e \in OnFile : Priced(enquiries[e].bid, enquiries[e].currency)

\* Serially the price history ends with the price, unless an entry was lost or a client has
\* written in the log since.
HistoryIsCurrent ==
  \A e \in OnFile \ (unlogged \union annotated) :
    (\A t \in Traders : trade[t] = AtDesk) => priceLog[e] = enquiries[e].bid
=============================================================================
