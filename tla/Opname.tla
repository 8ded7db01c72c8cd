------------------------------- MODULE Opname -------------------------------
(***************************************************************************)
(* Stock counting sessions (opname) of inventory.ts while stock goes on    *)
(* moving.  A person looks at the shelf, later the count command confirms  *)
(* the quantity against the movement ledger, and posting books the         *)
(* variance.  The trigger mark_counting_opname_recount marks the lines a   *)
(* movement disturbs.                                                      *)
(*                                                                         *)
(* A movement is any transaction that inserts into stock_movements (sale,  *)
(* receipt, return, adjustment): insert and commit are separate steps, and *)
(* in between it holds the opname rows its trigger marked.  Goods change   *)
(* hands when their movement commits.  The ledger and its running total    *)
(* stock_balances are abstracted to the quantity "book".                   *)
(***************************************************************************)
EXTENDS Integers, FiniteSets

CONSTANTS
  Sessions,     \* opname sessions
  Products,     \* tracked products
  NoProduct,    \* of an idle transaction
  Scope,        \* Scope[s]: the products session s counts
  Workers,      \* movement transactions that may be open at the same time
  Deltas,       \* base quantities of a movement
  Surplus,      \* what the shelf may hold beyond the book at the start
  MaxMoves,     \* bound on committed movements
  MaxVersion    \* bound on the version of a session

ASSUME OpnameAssumption ==
  /\ NoProduct \notin Products
  /\ Scope \in [Sessions -> (SUBSET Products) \ {{}}]
  /\ Deltas \subseteq Int \ {0}
  /\ Surplus \subseteq Nat
  /\ MaxMoves \in Nat /\ MaxVersion \in Nat

VARIABLES
  shelf,     \* the goods that are there
  book,      \* sum of the committed movements
  session,   \* inventory.opname_sessions
  item,      \* inventory.opname_items
  sheet,     \* quantities written down and not yet sent
  count,     \* the open count command of a session
  screen,    \* the version the person who posts will name, and its variances
  posted,    \* variances booked by a session
  move,      \* the open movement of each worker
  moves      \* number of committed movements

vars == <<shelf, book, session, item, sheet, count, screen, posted, move, moves>>

Lines == {l \in Sessions \X Products : l[2] \in Scope[l[1]]}
YesNo == {"YES", "NO"}

Session == [status : {"NONE", "DRAFT", "COUNTING", "REVIEW", "POSTED"},
            version : 0 .. MaxVersion]
Item == [counted : YesNo, physical : Nat, system : Int, recount : YesNo, clean : YesNo]
Sheet == [taken : YesNo, physical : Nat, book : Int]
Count == [product : Products \cup {NoProduct}, recount : YesNo, system : Int]
Move == [product : Products \cup {NoProduct}, delta : Int, marked : SUBSET Sessions]

TypeOK ==
  /\ shelf \in [Products -> Nat] /\ book \in [Products -> Int]
  /\ session \in [Sessions -> Session]
  /\ item \in [Lines -> Item]
  /\ sheet \in [Lines -> Sheet]
  /\ count \in [Sessions -> Count]
  /\ screen \in [Sessions -> [version : 0 .. MaxVersion, shown : [Products -> Int]]]
  /\ posted \in [Sessions -> [Products -> Int]]
  /\ move \in [Workers -> Move]
  /\ moves \in 0 .. MaxMoves

NoItem  == [counted |-> "NO", physical |-> 0, system |-> 0, recount |-> "NO", clean |-> "YES"]
NoSheet == [taken |-> "NO", physical |-> 0, book |-> 0]
NoCount == [product |-> NoProduct, recount |-> "NO", system |-> 0]
NoMove  == [product |-> NoProduct, delta |-> 0, marked |-> {}]
Zero    == [p \in Products |-> 0]

Init ==
  /\ book = Zero
  /\ shelf \in [Products -> Surplus]
  /\ session = [s \in Sessions |-> [status |-> "NONE", version |-> 0]]
  /\ item = [l \in Lines |-> NoItem]
  /\ sheet = [l \in Lines |-> NoSheet]
  /\ count = [s \in Sessions |-> NoCount]
  /\ screen = [s \in Sessions |-> [version |-> 0, shown |-> Zero]]
  /\ posted = [s \in Sessions |-> Zero]
  /\ move = [x \in Workers |-> NoMove]
  /\ moves = 0

-----------------------------------------------------------------------------
(* Movements.                                                              *)

(* The lines a movement of p marks: those of a counting session that have  *)
(* not been counted.                                                       *)
Marks(p) == {s \in Sessions :
  <<s, p>> \in Lines /\ session[s].status = "COUNTING" /\ item[<<s, p>>].counted = "NO"}

(* No open movement holds the opname row of line s, p.                     *)
RowFree(s, p) == \A x \in Workers : move[x].product = p => s \notin move[x].marked

InsertMovement(x, p, delta) ==
  /\ move[x].product = NoProduct /\ moves < MaxMoves
  /\ \A s \in Marks(p) : RowFree(s, p)
  /\ move' = [move EXCEPT ![x] = [product |-> p, delta |-> delta, marked |-> Marks(p)]]
  /\ UNCHANGED <<shelf, book, session, item, sheet, count, screen, posted, moves>>

(* Nobody hands out goods that are not there; the book has no such bound.  *)
CommitMovement(x) ==
  LET m == move[x] IN
  /\ m.product # NoProduct /\ moves < MaxMoves
  /\ shelf[m.product] + m.delta >= 0
  /\ book' = [book EXCEPT ![m.product] = @ + m.delta]
  /\ shelf' = [shelf EXCEPT ![m.product] = @ + m.delta]
  /\ item' = [l \in Lines |->
       IF l[1] \in m.marked /\ l[2] = m.product THEN [item[l] EXCEPT !.recount = "YES"]
       ELSE item[l]]
  /\ move' = [move EXCEPT ![x] = NoMove]
  /\ moves' = moves + 1
  /\ UNCHANGED <<session, sheet, count, screen, posted>>

RollbackMovement(x) ==
  /\ move[x].product # NoProduct
  /\ move' = [move EXCEPT ![x] = NoMove]
  /\ UNCHANGED <<shelf, book, session, item, sheet, count, screen, posted, moves>>

-----------------------------------------------------------------------------
(* The commands of a session lock its row; count[s] is the one that holds  *)
(* it over several steps.                                                  *)
SessionFree(s) == count[s].product = NoProduct

CreateOpname(s) ==
  /\ session[s].status = "NONE" /\ MaxVersion >= 1
  /\ session' = [session EXCEPT ![s] = [status |-> "DRAFT", version |-> 1]]
  /\ UNCHANGED <<shelf, book, item, sheet, count, screen, posted, move, moves>>

(* Faulty: a posted session can still be counted.                          *)
CountableAnyTime(s) == session[s].status # "NONE"

Countable(s) == session[s].status \in {"DRAFT", "COUNTING", "REVIEW"}

(* Somebody counts the goods on the shelf; counted_at is now.  A sheet     *)
(* that is being sent is not written on.                                   *)
TakeSheet(s, p) ==
  /\ Countable(s) /\ count[s].product # p
  /\ sheet' = [sheet EXCEPT ![<<s, p>>] =
       [taken |-> "YES", physical |-> shelf[p], book |-> book[p]]]
  /\ UNCHANGED <<shelf, book, session, item, count, screen, posted, move, moves>>

(* countOpnameCommand: the session is locked and the statement that        *)
(* updates the line sums the movements it sees.  A command of another      *)
(* version than the session's is refused and sent again.                   *)
ReadSystemQty(s, p, recount) ==
  /\ SessionFree(s) /\ Countable(s) /\ session[s].version < MaxVersion
  /\ sheet[<<s, p>>].taken = "YES"
  /\ count' = [count EXCEPT ![s] = [product |-> p, recount |-> recount, system |-> book[p]]]
  /\ UNCHANGED <<shelf, book, session, item, sheet, screen, posted, move, moves>>

(* Faulty: the difference is sent in place of the quantity.                *)
PhysicalDifference(l) == sheet[l].physical - book[l[2]]

(* readOpnameCountItem: what was counted, not negative.                    *)
PhysicalQty(l) == sheet[l].physical

(* It waits for the row, keeps what it summed and writes.  Only an         *)
(* explicit recount removes the mark.  clean records that no movement      *)
(* entered the book between the look at the shelf and the sum.             *)
ConfirmCount(s) ==
  LET c == count[s]
      l == <<s, c.product>> IN
  /\ c.product # NoProduct
  /\ RowFree(s, c.product)
  /\ item' = [item EXCEPT ![l] =
       [counted |-> "YES", physical |-> PhysicalQty(l), system |-> c.system,
        recount |-> IF c.recount = "YES" THEN "NO" ELSE item[l].recount,
        clean |-> IF sheet[l].book = c.system THEN "YES" ELSE "NO"]]
  /\ session' = [session EXCEPT ![s] = [status |-> "COUNTING", version |-> @.version + 1]]
  /\ sheet' = [sheet EXCEPT ![l] = NoSheet]
  /\ count' = [count EXCEPT ![s] = NoCount]
  /\ UNCHANGED <<shelf, book, screen, posted, move, moves>>

RollbackCount(s) ==
  /\ count[s].product # NoProduct
  /\ count' = [count EXCEPT ![s] = NoCount]
  /\ UNCHANGED <<shelf, book, session, item, sheet, screen, posted, move, moves>>

ReviewOpname(s) ==
  /\ SessionFree(s) /\ session[s].status = "COUNTING" /\ session[s].version < MaxVersion
  /\ \A p \in Scope[s] : item[<<s, p>>].counted = "YES"
  /\ session' = [session EXCEPT ![s] = [status |-> "REVIEW", version |-> @.version + 1]]
  /\ UNCHANGED <<shelf, book, item, sheet, count, screen, posted, move, moves>>

-----------------------------------------------------------------------------
(* Faulty: the variance is taken against the current quantity.             *)
VarianceNow(s, p) == IF p \in Scope[s] THEN item[<<s, p>>].physical - book[p] ELSE 0

(* variance_qty                                                            *)
Variance(s, p) ==
  IF p \in Scope[s] THEN item[<<s, p>>].physical - item[<<s, p>>].system ELSE 0

Variances(s) == [p \in Products |-> Variance(s, p)]

(* The person who posts learns the version, from the result of the review, *)
(* and will enter it in the form; shown are the variances it stands for.   *)
ShowSession(s) ==
  /\ session[s].status = "REVIEW" /\ screen[s].version # session[s].version
  /\ screen' = [screen EXCEPT ![s] =
       [version |-> session[s].version, shown |-> Variances(s)]]
  /\ UNCHANGED <<shelf, book, session, item, sheet, count, posted, move, moves>>

(* Faulty: the version entered is not compared.                            *)
VersionShownAny(s) == screen[s].version # 0

VersionShown(s) == screen[s].version = session[s].version

(* postOpnameCommand.  Its movements fire the trigger as well and mark     *)
(* lines of other counting sessions.                                       *)
PostOpname(s) ==
  LET changed == {p \in Scope[s] : Variance(s, p) # 0} IN
  /\ SessionFree(s) /\ session[s].status = "REVIEW" /\ session[s].version < MaxVersion
  /\ VersionShown(s)
  /\ \A p \in Scope[s] : item[<<s, p>>].recount = "NO" /\ RowFree(s, p)
  /\ \A p \in changed : \A q \in Marks(p) : RowFree(q, p)
  /\ book' = [p \in Products |-> book[p] + Variance(s, p)]
  /\ posted' = [posted EXCEPT ![s] = Variances(s)]
  /\ item' = [l \in Lines |->
       IF l[2] \in changed /\ l[1] \in Marks(l[2]) THEN [item[l] EXCEPT !.recount = "YES"]
       ELSE item[l]]
  /\ session' = [session EXCEPT ![s] = [status |-> "POSTED", version |-> @.version + 1]]
  /\ UNCHANGED <<shelf, sheet, count, screen, move, moves>>

-----------------------------------------------------------------------------
Next ==
  \/ \E x \in Workers :
       \/ \E p \in Products, delta \in Deltas : InsertMovement(x, p, delta)
       \/ CommitMovement(x) \/ RollbackMovement(x)
  \/ \E s \in Sessions :
       \/ CreateOpname(s)
       \/ \E p \in Scope[s] :
            TakeSheet(s, p) \/ \E recount \in YesNo : ReadSystemQty(s, p, recount)
       \/ ConfirmCount(s) \/ RollbackCount(s)
       \/ ReviewOpname(s) \/ ShowSession(s) \/ PostOpname(s)

Spec == Init /\ [][Next]_vars

-----------------------------------------------------------------------------
(* Correctness.                                                            *)

(* Products counted by no other session.                                   *)
Own(s) == {p \in Scope[s] : \A q \in Sessions \ {s} : p \notin Scope[q]}

(* A posted count puts the book right whatever moved after it: with counts *)
(* that nothing entered before they were confirmed, the book holds what is *)
(* on the shelf, since the variance is relative to the count's snapshot.   *)
PostedMatchesShelf == \A s \in Sessions : session[s].status = "POSTED" =>
  \A p \in Own(s) : item[<<s, p>>].clean = "YES" => book[p] = shelf[p]

(* What is booked are the variances of the reviewed version that the       *)
(* person named, even when somebody counts again or reviews in between.    *)
PostedAsShown == \A s \in Sessions :
  session[s].status = "POSTED" => posted[s] = screen[s].shown

(* A posted session is a closed fact: neither a late count nor the trigger *)
(* of a movement changes it or its lines.                                  *)
PostedIsFinal ==
  [][\A s \in Sessions : session[s].status = "POSTED" =>
       /\ session'[s] = session[s] /\ posted'[s] = posted[s]
       /\ \A p \in Scope[s] : item'[<<s, p>>] = item[<<s, p>>]]_vars

=============================================================================
