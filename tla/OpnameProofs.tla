---------------------------- MODULE OpnameProofs ----------------------------
(***************************************************************************)
(* Theorems about Opname: a posted count is final, books the version its   *)
(* person named and makes the book agree with the shelf, for any number of *)
(* sessions, products and movements.                                       *)
(***************************************************************************)
EXTENDS Opname, TLAPS

(* A command that is counting holds a sheet of its session, which cannot   *)
(* be posted meanwhile.                                                    *)
CountOK == \A s \in Sessions : count[s].product # NoProduct =>
  /\ count[s].product \in Scope[s]
  /\ sheet[<<s, count[s].product>>].taken = "YES"
  /\ session[s].status \in {"DRAFT", "COUNTING", "REVIEW"}
  /\ session[s].version < MaxVersion

(* An open movement holds lines of its product, in sessions not posted.    *)
MoveOK == \A x \in Workers : \A s \in move[x].marked :
  session[s].status # "POSTED" /\ move[x].product \in Scope[s]

(* A session goes to review when every line is counted.                    *)
ReviewedOK == \A s \in Sessions : session[s].status \in {"REVIEW", "POSTED"} =>
  \A p \in Scope[s] : item[<<s, p>>].counted = "YES"

(* Until a session is posted, its sheets and its clean counts show the     *)
(* difference between shelf and book as it is now.                         *)
SheetOK == \A s \in Sessions : session[s].status # "POSTED" =>
  \A p \in Own(s) : sheet[<<s, p>>].taken = "YES" =>
    sheet[<<s, p>>].physical - sheet[<<s, p>>].book = shelf[p] - book[p]

ItemOK == \A s \in Sessions : session[s].status # "POSTED" =>
  \A p \in Own(s) : item[<<s, p>>].counted = "YES" /\ item[<<s, p>>].clean = "YES" =>
    item[<<s, p>>].physical - item[<<s, p>>].system = shelf[p] - book[p]

(* The version the person knows is not a future one ...                    *)
VersionOK == \A s \in Sessions :
  /\ screen[s].version <= session[s].version
  /\ session[s].status = "NONE" => screen[s].version = 0

(* ... and if it is the current one its variances are the current ones.    *)
ShownOK == \A s \in Sessions :
  session[s].status = "REVIEW" /\ screen[s].version = session[s].version =>
    screen[s].shown = Variances(s)

IInv ==
  /\ TypeOK /\ CountOK /\ MoveOK /\ ReviewedOK
  /\ SheetOK /\ ItemOK /\ PostedMatchesShelf
  /\ VersionOK /\ ShownOK /\ PostedAsShown

-----------------------------------------------------------------------------
(* A product in the scope of a session is a line of it.                    *)
LEMMA ScopeLines ==
  ASSUME NEW s \in Sessions, NEW p \in Scope[s]
  PROVE  p \in Products /\ <<s, p>> \in Lines
<1>1. p \in Products
  BY OpnameAssumption
<1>2. <<s, p>> \in Sessions \X Products
  BY <1>1
<1>3. QED
  BY <1>1, <1>2 DEF Lines

(* What a step does to the lines it marks.                                 *)
LEMMA MarkedItem ==
  ASSUME NEW i \in Item
  PROVE  /\ [i EXCEPT !.recount = "YES"] \in Item
         /\ [i EXCEPT !.recount = "YES"].counted = i.counted
         /\ [i EXCEPT !.recount = "YES"].physical = i.physical
         /\ [i EXCEPT !.recount = "YES"].system = i.system
         /\ [i EXCEPT !.recount = "YES"].clean = i.clean
BY DEF Item, YesNo

(* Variances are integers.                                                 *)
LEMMA VarianceType ==
  ASSUME TypeOK, NEW s \in Sessions
  PROVE  \A p \in Products : Variance(s, p) \in Int
<1> SUFFICES ASSUME NEW p \in Products PROVE Variance(s, p) \in Int
  OBVIOUS
<1>1. CASE p \in Scope[s]
  <2>1. item[<<s, p>>] \in Item
    BY <1>1, ScopeLines DEF TypeOK
  <2>2. QED
    BY <1>1, <2>1 DEF Variance, Item
<1>2. CASE p \notin Scope[s]
  BY <1>2 DEF Variance
<1>3. QED
  BY <1>1, <1>2

(* Every step keeps the types.                                             *)
LEMMA TypeStep ==
  ASSUME TypeOK, CountOK, [Next]_vars
  PROVE  TypeOK'
<1> USE OpnameAssumption
<1>1. ASSUME NEW x \in Workers, NEW p \in Products, NEW delta \in Deltas,
             InsertMovement(x, p, delta)
      PROVE  TypeOK'
  <2>1. [product |-> p, delta |-> delta, marked |-> Marks(p)] \in Move
    BY DEF Move, Marks
  <2>2. move' \in [Workers -> Move]
    BY <1>1, <2>1 DEF InsertMovement, TypeOK
  <2>3. QED
    BY <1>1, <2>2 DEF InsertMovement, TypeOK
<1>2. ASSUME NEW x \in Workers, CommitMovement(x)
      PROVE  TypeOK'
  <2>1. move[x] \in Move /\ NoMove \in Move
    BY DEF TypeOK, Move, NoMove
  <2>2. move[x].product \in Products /\ move[x].delta \in Int
    BY <1>2, <2>1 DEF CommitMovement, Move
  <2>3. move' \in [Workers -> Move] /\ moves' \in 0 .. MaxMoves
    BY <1>2, <2>1 DEF CommitMovement, TypeOK
  <2>4. book' \in [Products -> Int]
    BY <1>2, <2>2 DEF CommitMovement, TypeOK
  <2>5. shelf' \in [Products -> Nat]
    <3>1. shelf[move[x].product] + move[x].delta \in Nat
      BY <1>2, <2>2 DEF CommitMovement, TypeOK
    <3>2. QED
      BY <1>2, <2>2, <3>1 DEF CommitMovement, TypeOK
  <2>6. item' \in [Lines -> Item]
    <3>1. \A l \in Lines : item[l] \in Item /\ [item[l] EXCEPT !.recount = "YES"] \in Item
      BY MarkedItem DEF TypeOK
    <3>2. QED
      BY <1>2, <3>1 DEF CommitMovement
  <2>7. QED
    BY <1>2, <2>3, <2>4, <2>5, <2>6 DEF CommitMovement, TypeOK
<1>3. ASSUME NEW x \in Workers, RollbackMovement(x)
      PROVE  TypeOK'
  <2>1. NoMove \in Move
    BY DEF Move, NoMove
  <2>2. QED
    BY <1>3, <2>1 DEF RollbackMovement, TypeOK
<1>4. ASSUME NEW s \in Sessions, CreateOpname(s)
      PROVE  TypeOK'
  <2>1. [status |-> "DRAFT", version |-> 1] \in Session
    BY <1>4 DEF CreateOpname, Session
  <2>2. QED
    BY <1>4, <2>1 DEF CreateOpname, TypeOK
<1>5. ASSUME NEW s \in Sessions, NEW p \in Scope[s], TakeSheet(s, p)
      PROVE  TypeOK'
  <2>1. p \in Products
    BY ScopeLines
  <2>2. [taken |-> "YES", physical |-> shelf[p], book |-> book[p]] \in Sheet
    BY <2>1 DEF Sheet, YesNo, TypeOK
  <2>3. sheet' \in [Lines -> Sheet]
    BY <1>5, <2>2 DEF TakeSheet, TypeOK
  <2>4. QED
    BY <1>5, <2>3 DEF TakeSheet, TypeOK
<1>6. ASSUME NEW s \in Sessions, NEW p \in Scope[s], NEW recount \in YesNo,
             ReadSystemQty(s, p, recount)
      PROVE  TypeOK'
  <2>1. p \in Products
    BY ScopeLines
  <2>2. [product |-> p, recount |-> recount, system |-> book[p]] \in Count
    BY <2>1 DEF Count, TypeOK
  <2>3. count' \in [Sessions -> Count]
    BY <1>6, <2>2 DEF ReadSystemQty, TypeOK
  <2>4. QED
    BY <1>6, <2>3 DEF ReadSystemQty, TypeOK
<1>7. ASSUME NEW s \in Sessions, ConfirmCount(s)
      PROVE  TypeOK'
  <2> DEFINE l == <<s, count[s].product>>
             new == [counted |-> "YES", physical |-> PhysicalQty(l),
                     system |-> count[s].system,
                     recount |-> IF count[s].recount = "YES" THEN "NO" ELSE item[l].recount,
                     clean |-> IF sheet[l].book = count[s].system THEN "YES" ELSE "NO"]
             row == [status |-> "COUNTING", version |-> session[s].version + 1]
  <2>1. count[s].product \in Scope[s] /\ session[s].version < MaxVersion
    BY <1>7 DEF ConfirmCount, CountOK
  <2>2. l \in Lines
    BY <2>1, ScopeLines
  <2>3. row \in Session
    BY <2>1 DEF TypeOK, Session
  <2>4. new \in Item
    <3>1. item[l] \in Item /\ sheet[l] \in Sheet /\ count[s] \in Count
      BY <2>2 DEF TypeOK
    <3>2. QED
      BY <3>1 DEF Item, Sheet, Count, YesNo, PhysicalQty
  <2>5. NoSheet \in Sheet /\ NoCount \in Count
    BY DEF NoSheet, NoCount, Sheet, Count, YesNo
  <2>6. /\ session' = [session EXCEPT ![s] = row]
        /\ item' = [item EXCEPT ![l] = new]
        /\ sheet' = [sheet EXCEPT ![l] = NoSheet]
        /\ count' = [count EXCEPT ![s] = NoCount]
        /\ UNCHANGED <<shelf, book, screen, posted, move, moves>>
    BY <1>7 DEF ConfirmCount
  <2> HIDE DEF new, row, l
  <2>7. QED
    BY <2>3, <2>4, <2>5, <2>6 DEF TypeOK
<1>8. ASSUME NEW s \in Sessions, RollbackCount(s)
      PROVE  TypeOK'
  <2>1. NoCount \in Count
    BY DEF Count, NoCount, YesNo
  <2>2. QED
    BY <1>8, <2>1 DEF RollbackCount, TypeOK
<1>9. ASSUME NEW s \in Sessions, ReviewOpname(s)
      PROVE  TypeOK'
  <2>1. session[s] \in Session
    BY DEF TypeOK
  <2>2. [status |-> "REVIEW", version |-> session[s].version + 1] \in Session
    BY <1>9, <2>1 DEF ReviewOpname, Session
  <2>3. session' \in [Sessions -> Session]
    BY <1>9, <2>2 DEF ReviewOpname, TypeOK
  <2>4. QED
    BY <1>9, <2>3 DEF ReviewOpname, TypeOK
<1>10. ASSUME NEW s \in Sessions, ShowSession(s)
       PROVE  TypeOK'
  <2>1. session[s].version \in 0 .. MaxVersion
    BY DEF TypeOK, Session
  <2>2. Variances(s) \in [Products -> Int]
    BY VarianceType DEF Variances
  <2>3. [version |-> session[s].version, shown |-> Variances(s)]
          \in [version : 0 .. MaxVersion, shown : [Products -> Int]]
    BY <2>1, <2>2
  <2>4. QED
    BY <1>10, <2>3 DEF ShowSession, TypeOK
<1>11. ASSUME NEW s \in Sessions, PostOpname(s)
       PROVE  TypeOK'
  <2>1. session[s] \in Session
    BY DEF TypeOK
  <2>2. [status |-> "POSTED", version |-> session[s].version + 1] \in Session
    BY <1>11, <2>1 DEF PostOpname, Session
  <2>3. session' \in [Sessions -> Session]
    BY <1>11, <2>2 DEF PostOpname, TypeOK
  <2>4. book' \in [Products -> Int]
    BY <1>11, VarianceType DEF PostOpname, TypeOK
  <2>5. Variances(s) \in [Products -> Int]
    BY VarianceType DEF Variances
  <2>6. posted' \in [Sessions -> [Products -> Int]]
    BY <1>11, <2>5 DEF PostOpname, TypeOK
  <2>7. item' \in [Lines -> Item]
    <3>1. \A l \in Lines : item[l] \in Item /\ [item[l] EXCEPT !.recount = "YES"] \in Item
      BY MarkedItem DEF TypeOK
    <3>2. QED
      BY <1>11, <3>1 DEF PostOpname
  <2>8. QED
    BY <1>11, <2>3, <2>4, <2>6, <2>7 DEF PostOpname, TypeOK
<1>12. CASE UNCHANGED vars
  BY <1>12 DEF vars, TypeOK
<1>13. QED
  BY <1>1, <1>2, <1>3, <1>4, <1>5, <1>6, <1>7, <1>8, <1>9, <1>10, <1>11, <1>12 DEF Next

(* Marking a line changes nothing else of it, and it is all that movements *)
(* and postings do to lines.                                               *)
LEMMA CountsKept ==
  ASSUME TypeOK,
         \/ \E x \in Workers : CommitMovement(x)
         \/ \E s \in Sessions : PostOpname(s)
  PROVE  \A l \in Lines :
           /\ item'[l].counted = item[l].counted
           /\ item'[l].physical = item[l].physical
           /\ item'[l].system = item[l].system
           /\ item'[l].clean = item[l].clean
<1>1. \A l \in Lines : item[l] \in Item
  BY DEF TypeOK
<1>2. \A l \in Lines : item'[l] \in {item[l], [item[l] EXCEPT !.recount = "YES"]}
  <2>1. CASE \E x \in Workers : CommitMovement(x)
    BY <2>1 DEF CommitMovement
  <2>2. CASE \E s \in Sessions : PostOpname(s)
    BY <2>2 DEF PostOpname
  <2>3. QED
    BY <2>1, <2>2
<1>3. QED
  BY <1>1, <1>2, MarkedItem

(* A counting command keeps its sheet and its session.                     *)
LEMMA CountStep ==
  ASSUME TypeOK, CountOK, [Next]_vars
  PROVE  CountOK'
<1> USE OpnameAssumption
<1>1. ASSUME NEW x \in Workers, NEW p \in Products, NEW delta \in Deltas,
             InsertMovement(x, p, delta)
      PROVE  CountOK'
  BY <1>1 DEF InsertMovement, CountOK, TypeOK, SessionFree, Countable
<1>2. ASSUME NEW x \in Workers, CommitMovement(x)
      PROVE  CountOK'
  BY <1>2 DEF CommitMovement, CountOK, TypeOK, SessionFree, Countable
<1>3. ASSUME NEW x \in Workers, RollbackMovement(x)
      PROVE  CountOK'
  BY <1>3 DEF RollbackMovement, CountOK, TypeOK, SessionFree, Countable
<1>4. ASSUME NEW s \in Sessions, CreateOpname(s)
      PROVE  CountOK'
  BY <1>4 DEF CreateOpname, CountOK, TypeOK, SessionFree, Countable
<1>5. ASSUME NEW s \in Sessions, NEW p \in Scope[s], TakeSheet(s, p)
      PROVE  CountOK'
  BY <1>5 DEF TakeSheet, CountOK, TypeOK, SessionFree, Countable
<1>6. ASSUME NEW s \in Sessions, NEW p \in Scope[s], NEW recount \in YesNo,
             ReadSystemQty(s, p, recount)
      PROVE  CountOK'
  BY <1>6 DEF ReadSystemQty, CountOK, TypeOK, SessionFree, Countable
<1>7. ASSUME NEW s \in Sessions, ConfirmCount(s)
      PROVE  CountOK'
  BY <1>7 DEF ConfirmCount, CountOK, TypeOK, NoCount
<1>8. ASSUME NEW s \in Sessions, RollbackCount(s)
      PROVE  CountOK'
  BY <1>8 DEF RollbackCount, CountOK, TypeOK, NoCount
<1>9. ASSUME NEW s \in Sessions, ReviewOpname(s)
      PROVE  CountOK'
  BY <1>9 DEF ReviewOpname, CountOK, TypeOK, SessionFree, Countable
<1>10. ASSUME NEW s \in Sessions, ShowSession(s)
       PROVE  CountOK'
  BY <1>10 DEF ShowSession, CountOK, TypeOK, SessionFree, Countable
<1>11. ASSUME NEW s \in Sessions, PostOpname(s)
       PROVE  CountOK'
  BY <1>11 DEF PostOpname, CountOK, TypeOK, SessionFree, Countable
<1>12. CASE UNCHANGED vars
  BY <1>12 DEF vars, CountOK, TypeOK, SessionFree, Countable
<1>13. QED
  BY <1>1, <1>2, <1>3, <1>4, <1>5, <1>6, <1>7, <1>8, <1>9, <1>10, <1>11, <1>12 DEF Next

(* No session is posted while a movement holds a line of it.              *)
LEMMA MoveStep ==
  ASSUME TypeOK, CountOK, MoveOK, [Next]_vars
  PROVE  MoveOK'
<1> USE OpnameAssumption
<1>1. ASSUME NEW x \in Workers, NEW p \in Products, NEW delta \in Deltas,
             InsertMovement(x, p, delta)
      PROVE  MoveOK'
  BY <1>1 DEF InsertMovement, MoveOK, TypeOK, NoMove, Marks, Lines, RowFree
<1>2. ASSUME NEW x \in Workers, CommitMovement(x)
      PROVE  MoveOK'
  BY <1>2 DEF CommitMovement, MoveOK, TypeOK, NoMove, Marks, Lines, RowFree
<1>3. ASSUME NEW x \in Workers, RollbackMovement(x)
      PROVE  MoveOK'
  BY <1>3 DEF RollbackMovement, MoveOK, TypeOK, NoMove, Marks, Lines, RowFree
<1>4. ASSUME NEW s \in Sessions, CreateOpname(s)
      PROVE  MoveOK'
  BY <1>4 DEF CreateOpname, MoveOK, TypeOK, NoMove, Marks, Lines, RowFree
<1>5. ASSUME NEW s \in Sessions, NEW p \in Scope[s], TakeSheet(s, p)
      PROVE  MoveOK'
  BY <1>5 DEF TakeSheet, MoveOK, TypeOK, NoMove, Marks, Lines, RowFree
<1>6. ASSUME NEW s \in Sessions, NEW p \in Scope[s], NEW recount \in YesNo,
             ReadSystemQty(s, p, recount)
      PROVE  MoveOK'
  BY <1>6 DEF ReadSystemQty, MoveOK, TypeOK, NoMove, Marks, Lines, RowFree
<1>7. ASSUME NEW s \in Sessions, ConfirmCount(s)
      PROVE  MoveOK'
  BY <1>7 DEF ConfirmCount, MoveOK, TypeOK, NoMove, Marks, Lines, RowFree
<1>8. ASSUME NEW s \in Sessions, RollbackCount(s)
      PROVE  MoveOK'
  BY <1>8 DEF RollbackCount, MoveOK, TypeOK, NoMove, Marks, Lines, RowFree
<1>9. ASSUME NEW s \in Sessions, ReviewOpname(s)
      PROVE  MoveOK'
  BY <1>9 DEF ReviewOpname, MoveOK, TypeOK, NoMove, Marks, Lines, RowFree
<1>10. ASSUME NEW s \in Sessions, ShowSession(s)
       PROVE  MoveOK'
  BY <1>10 DEF ShowSession, MoveOK, TypeOK, NoMove, Marks, Lines, RowFree
<1>11. ASSUME NEW s \in Sessions, PostOpname(s)
       PROVE  MoveOK'
  <2> SUFFICES ASSUME NEW x \in Workers, NEW q \in move[x].marked
               PROVE  session'[q].status # "POSTED" /\ move[x].product \in Scope[q]
    BY <1>11 DEF PostOpname, MoveOK
  <2>1. session[q].status # "POSTED" /\ move[x].product \in Scope[q]
    BY DEF MoveOK
  <2>2. q # s
    BY <1>11, <2>1 DEF PostOpname, RowFree
  <2>3. QED
    BY <1>11, <2>1, <2>2 DEF PostOpname, TypeOK
<1>12. CASE UNCHANGED vars
  BY <1>12 DEF vars, MoveOK, TypeOK, NoMove, Marks, Lines, RowFree
<1>13. QED
  BY <1>1, <1>2, <1>3, <1>4, <1>5, <1>6, <1>7, <1>8, <1>9, <1>10, <1>11, <1>12 DEF Next

(* Counts are not taken back.                                              *)
LEMMA ReviewedStep ==
  ASSUME TypeOK, CountOK, ReviewedOK, [Next]_vars
  PROVE  ReviewedOK'
<1> USE OpnameAssumption
<1>1. ASSUME NEW x \in Workers, NEW p \in Products, NEW delta \in Deltas,
             InsertMovement(x, p, delta)
      PROVE  ReviewedOK'
  BY <1>1 DEF InsertMovement, ReviewedOK, TypeOK
<1>2. ASSUME NEW x \in Workers, CommitMovement(x)
      PROVE  ReviewedOK'
  <2>1. \A q \in Sessions : \A p \in Scope[q] : item'[<<q, p>>].counted = item[<<q, p>>].counted
    BY <1>2, CountsKept, ScopeLines
  <2>2. QED
    BY <1>2, <2>1 DEF CommitMovement, ReviewedOK
<1>3. ASSUME NEW x \in Workers, RollbackMovement(x)
      PROVE  ReviewedOK'
  BY <1>3 DEF RollbackMovement, ReviewedOK, TypeOK
<1>4. ASSUME NEW s \in Sessions, CreateOpname(s)
      PROVE  ReviewedOK'
  BY <1>4 DEF CreateOpname, ReviewedOK, TypeOK
<1>5. ASSUME NEW s \in Sessions, NEW p \in Scope[s], TakeSheet(s, p)
      PROVE  ReviewedOK'
  BY <1>5 DEF TakeSheet, ReviewedOK, TypeOK
<1>6. ASSUME NEW s \in Sessions, NEW p \in Scope[s], NEW recount \in YesNo,
             ReadSystemQty(s, p, recount)
      PROVE  ReviewedOK'
  BY <1>6 DEF ReadSystemQty, ReviewedOK, TypeOK
<1>7. ASSUME NEW s \in Sessions, ConfirmCount(s)
      PROVE  ReviewedOK'
  BY <1>7 DEF ConfirmCount, ReviewedOK, TypeOK
<1>8. ASSUME NEW s \in Sessions, RollbackCount(s)
      PROVE  ReviewedOK'
  BY <1>8 DEF RollbackCount, ReviewedOK, TypeOK
<1>9. ASSUME NEW s \in Sessions, ReviewOpname(s)
      PROVE  ReviewedOK'
  BY <1>9 DEF ReviewOpname, ReviewedOK, TypeOK
<1>10. ASSUME NEW s \in Sessions, ShowSession(s)
       PROVE  ReviewedOK'
  BY <1>10 DEF ShowSession, ReviewedOK, TypeOK
<1>11. ASSUME NEW s \in Sessions, PostOpname(s)
       PROVE  ReviewedOK'
  <2>1. \A q \in Sessions : \A p \in Scope[q] : item'[<<q, p>>].counted = item[<<q, p>>].counted
    BY <1>11, CountsKept, ScopeLines
  <2>2. \A q \in Sessions : session'[q].status \in {"REVIEW", "POSTED"} =>
          session[q].status \in {"REVIEW", "POSTED"}
    BY <1>11 DEF PostOpname, TypeOK
  <2>3. QED
    BY <2>1, <2>2 DEF ReviewedOK
<1>12. CASE UNCHANGED vars
  BY <1>12 DEF vars, ReviewedOK, TypeOK
<1>13. QED
  BY <1>1, <1>2, <1>3, <1>4, <1>5, <1>6, <1>7, <1>8, <1>9, <1>10, <1>11, <1>12 DEF Next

(* A product of one session only is a line of that session and of no       *)
(* other, so that only this session books a variance of it.                *)
LEMMA OwnLines ==
  ASSUME NEW s \in Sessions, NEW p \in Own(s)
  PROVE  /\ p \in Scope[s] /\ p \in Products /\ <<s, p>> \in Lines
         /\ \A q \in Sessions \ {s} : p \notin Scope[q]
BY ScopeLines DEF Own

(* A movement takes as much from the shelf as from the book.               *)
LEMMA MovementBalanced ==
  ASSUME TypeOK, NEW x \in Workers, CommitMovement(x)
  PROVE  \A p \in Products : shelf'[p] - book'[p] = shelf[p] - book[p]
<1>1. move[x] \in Move
  BY DEF TypeOK
<1>2. move[x].product \in Products /\ move[x].delta \in Int
  BY <1>1, OpnameAssumption DEF CommitMovement, Move
<1>3. QED
  BY <1>2 DEF CommitMovement, TypeOK

(* Marks do not change a variance.                                         *)
LEMMA SameVariance ==
  ASSUME TypeOK,
         \/ \E x \in Workers : CommitMovement(x)
         \/ \E s \in Sessions : PostOpname(s),
         NEW q \in Sessions
  PROVE  Variances(q)' = Variances(q)
<1>1. \A p \in Scope[q] : /\ item'[<<q, p>>].physical = item[<<q, p>>].physical
                          /\ item'[<<q, p>>].system = item[<<q, p>>].system
  BY CountsKept, ScopeLines
<1>2. \A p \in Products : Variance(q, p)' = Variance(q, p)
  BY <1>1 DEF Variance
<1>3. QED
  BY <1>2 DEF Variances

(* Variances depend on the lines alone.                                    *)
LEMMA SameItems ==
  ASSUME item' = item
  PROVE  \A q \in Sessions : Variances(q)' = Variances(q)
BY DEF Variances, Variance

(* A posting adds the variance of the lines of its session.                *)
LEMMA PostingBooks ==
  ASSUME TypeOK, NEW s \in Sessions, PostOpname(s), NEW q \in Sessions, NEW p \in Own(q)
  PROVE  /\ shelf' = shelf
         /\ q # s => book'[p] = book[p]
         /\ q = s => book'[p] = book[p] + (item[<<s, p>>].physical - item[<<s, p>>].system)
<1>1. /\ p \in Products
      /\ q = s => p \in Scope[s]
      /\ q # s => p \notin Scope[s]
  BY OwnLines
<1>2. book'[p] = book[p] + Variance(s, p) /\ shelf' = shelf
  BY <1>1 DEF PostOpname
<1>3. book[p] \in Int
  BY <1>1 DEF TypeOK
<1>4. QED
  BY <1>1, <1>2, <1>3 DEF Variance

(* A sheet stays in line with shelf and book while goods move.             *)
LEMMA SheetStep ==
  ASSUME TypeOK, CountOK, SheetOK, [Next]_vars
  PROVE  SheetOK'
<1>1. ASSUME NEW x \in Workers, NEW p \in Products, NEW delta \in Deltas,
             InsertMovement(x, p, delta)
      PROVE  SheetOK'
  BY <1>1 DEF InsertMovement, SheetOK, Own, TypeOK
<1>2. ASSUME NEW x \in Workers, CommitMovement(x)
      PROVE  SheetOK'
  BY <1>2, MovementBalanced, OwnLines DEF CommitMovement, SheetOK, Own
<1>3. ASSUME NEW x \in Workers, RollbackMovement(x)
      PROVE  SheetOK'
  BY <1>3 DEF RollbackMovement, SheetOK, Own, TypeOK
<1>4. ASSUME NEW s \in Sessions, CreateOpname(s)
      PROVE  SheetOK'
  BY <1>4 DEF CreateOpname, SheetOK, Own, TypeOK
<1>5. ASSUME NEW s \in Sessions, NEW p \in Scope[s], TakeSheet(s, p)
      PROVE  SheetOK'
  <2> SUFFICES ASSUME NEW q \in Sessions, session[q].status # "POSTED", NEW r \in Own(q),
                      sheet'[<<q, r>>].taken = "YES"
               PROVE  sheet'[<<q, r>>].physical - sheet'[<<q, r>>].book = shelf[r] - book[r]
    BY <1>5 DEF TakeSheet, SheetOK, Own
  <2>1. <<q, r>> \in Lines /\ <<s, p>> \in Lines
    BY OwnLines, ScopeLines
  <2>2. CASE <<q, r>> = <<s, p>>
    BY <1>5, <2>1, <2>2 DEF TakeSheet, TypeOK
  <2>3. CASE <<q, r>> # <<s, p>>
    <3>1. sheet'[<<q, r>>] = sheet[<<q, r>>]
      BY <1>5, <2>1, <2>3 DEF TakeSheet, TypeOK
    <3>2. QED
      BY <3>1 DEF SheetOK
  <2>4. QED
    BY <2>2, <2>3
<1>6. ASSUME NEW s \in Sessions, NEW p \in Scope[s], NEW recount \in YesNo,
             ReadSystemQty(s, p, recount)
      PROVE  SheetOK'
  BY <1>6 DEF ReadSystemQty, SheetOK, Own, TypeOK
<1>7. ASSUME NEW s \in Sessions, ConfirmCount(s)
      PROVE  SheetOK'
  <2> SUFFICES ASSUME NEW q \in Sessions, session'[q].status # "POSTED", NEW r \in Own(q),
                      sheet'[<<q, r>>].taken = "YES"
               PROVE  sheet'[<<q, r>>].physical - sheet'[<<q, r>>].book = shelf[r] - book[r]
    BY <1>7 DEF ConfirmCount, SheetOK, Own
  <2>1. <<q, r>> \in Lines
    BY OwnLines
  <2>2. <<q, r>> # <<s, count[s].product>> /\ sheet'[<<q, r>>] = sheet[<<q, r>>]
    BY <1>7, <2>1 DEF ConfirmCount, TypeOK, NoSheet
  <2>3. session[q].status # "POSTED"
    BY <1>7 DEF ConfirmCount, CountOK, TypeOK
  <2>4. QED
    BY <2>2, <2>3 DEF SheetOK
<1>8. ASSUME NEW s \in Sessions, RollbackCount(s)
      PROVE  SheetOK'
  BY <1>8 DEF RollbackCount, SheetOK, Own, TypeOK
<1>9. ASSUME NEW s \in Sessions, ReviewOpname(s)
      PROVE  SheetOK'
  BY <1>9 DEF ReviewOpname, SheetOK, Own, TypeOK
<1>10. ASSUME NEW s \in Sessions, ShowSession(s)
       PROVE  SheetOK'
  BY <1>10 DEF ShowSession, SheetOK, Own, TypeOK
<1>11. ASSUME NEW s \in Sessions, PostOpname(s)
       PROVE  SheetOK'
  <2> SUFFICES ASSUME NEW q \in Sessions, session'[q].status # "POSTED", NEW r \in Own(q),
                      sheet[<<q, r>>].taken = "YES"
               PROVE  sheet[<<q, r>>].physical - sheet[<<q, r>>].book = shelf'[r] - book'[r]
    BY <1>11 DEF PostOpname, SheetOK, Own
  <2>1. q # s /\ session[q].status # "POSTED"
    BY <1>11 DEF PostOpname, TypeOK
  <2>2. shelf'[r] = shelf[r] /\ book'[r] = book[r]
    BY <1>11, <2>1, PostingBooks
  <2>3. QED
    BY <2>1, <2>2 DEF SheetOK
<1>12. CASE UNCHANGED vars
  BY <1>12 DEF vars, SheetOK, Own, TypeOK
<1>13. QED
  BY <1>1, <1>2, <1>3, <1>4, <1>5, <1>6, <1>7, <1>8, <1>9, <1>10, <1>11, <1>12 DEF Next

(* So does a clean count.                                                  *)
LEMMA ItemStep ==
  ASSUME TypeOK, CountOK, SheetOK, ItemOK, [Next]_vars
  PROVE  ItemOK'
<1>1. ASSUME NEW x \in Workers, NEW p \in Products, NEW delta \in Deltas,
             InsertMovement(x, p, delta)
      PROVE  ItemOK'
  BY <1>1 DEF InsertMovement, ItemOK, Own, TypeOK
<1>2. ASSUME NEW x \in Workers, CommitMovement(x)
      PROVE  ItemOK'
  <2> SUFFICES ASSUME NEW q \in Sessions, session[q].status # "POSTED", NEW r \in Own(q),
                      item'[<<q, r>>].counted = "YES", item'[<<q, r>>].clean = "YES"
               PROVE  item'[<<q, r>>].physical - item'[<<q, r>>].system = shelf'[r] - book'[r]
    BY <1>2 DEF CommitMovement, ItemOK, Own
  <2>1. <<q, r>> \in Lines /\ r \in Products
    BY OwnLines
  <2>2. QED
    BY <1>2, <2>1, CountsKept, MovementBalanced DEF ItemOK
<1>3. ASSUME NEW x \in Workers, RollbackMovement(x)
      PROVE  ItemOK'
  BY <1>3 DEF RollbackMovement, ItemOK, Own, TypeOK
<1>4. ASSUME NEW s \in Sessions, CreateOpname(s)
      PROVE  ItemOK'
  BY <1>4 DEF CreateOpname, ItemOK, Own, TypeOK
<1>5. ASSUME NEW s \in Sessions, NEW p \in Scope[s], TakeSheet(s, p)
      PROVE  ItemOK'
  BY <1>5 DEF TakeSheet, ItemOK, Own, TypeOK
<1>6. ASSUME NEW s \in Sessions, NEW p \in Scope[s], NEW recount \in YesNo,
             ReadSystemQty(s, p, recount)
      PROVE  ItemOK'
  BY <1>6 DEF ReadSystemQty, ItemOK, Own, TypeOK
<1>7. ASSUME NEW s \in Sessions, ConfirmCount(s)
      PROVE  ItemOK'
  <2> SUFFICES ASSUME NEW q \in Sessions, session'[q].status # "POSTED", NEW r \in Own(q),
                      item'[<<q, r>>].counted = "YES", item'[<<q, r>>].clean = "YES"
               PROVE  item'[<<q, r>>].physical - item'[<<q, r>>].system = shelf[r] - book[r]
    BY <1>7 DEF ConfirmCount, ItemOK, Own
  <2>1. <<q, r>> \in Lines
    BY OwnLines
  <2>2. session[q].status # "POSTED"
    BY <1>7 DEF ConfirmCount, CountOK, TypeOK
  <2>3. CASE <<q, r>> = <<s, count[s].product>>
    <3>1. q = s /\ r = count[s].product
      BY <2>3
    <3>2. sheet[<<q, r>>].taken = "YES"
      BY <1>7, <3>1 DEF ConfirmCount, CountOK
    <3>3. /\ item'[<<q, r>>].physical = sheet[<<q, r>>].physical
          /\ item'[<<q, r>>].system = count[s].system
          /\ item'[<<q, r>>].clean = IF sheet[<<q, r>>].book = count[s].system THEN "YES" ELSE "NO"
      BY <1>7, <2>1, <3>1 DEF ConfirmCount, TypeOK, PhysicalQty
    <3>4. QED
      BY <2>2, <3>2, <3>3 DEF SheetOK
  <2>4. CASE <<q, r>> # <<s, count[s].product>>
    <3>1. item'[<<q, r>>] = item[<<q, r>>]
      BY <1>7, <2>1, <2>4 DEF ConfirmCount, TypeOK
    <3>2. QED
      BY <2>2, <3>1 DEF ItemOK
  <2>5. QED
    BY <2>3, <2>4
<1>8. ASSUME NEW s \in Sessions, RollbackCount(s)
      PROVE  ItemOK'
  BY <1>8 DEF RollbackCount, ItemOK, Own, TypeOK
<1>9. ASSUME NEW s \in Sessions, ReviewOpname(s)
      PROVE  ItemOK'
  BY <1>9 DEF ReviewOpname, ItemOK, Own, TypeOK
<1>10. ASSUME NEW s \in Sessions, ShowSession(s)
       PROVE  ItemOK'
  BY <1>10 DEF ShowSession, ItemOK, Own, TypeOK
<1>11. ASSUME NEW s \in Sessions, PostOpname(s)
       PROVE  ItemOK'
  <2> SUFFICES ASSUME NEW q \in Sessions, session'[q].status # "POSTED", NEW r \in Own(q),
                      item'[<<q, r>>].counted = "YES", item'[<<q, r>>].clean = "YES"
               PROVE  item'[<<q, r>>].physical - item'[<<q, r>>].system = shelf'[r] - book'[r]
    BY DEF ItemOK, Own
  <2>1. q # s /\ session[q].status # "POSTED"
    BY <1>11 DEF PostOpname, TypeOK
  <2>2. <<q, r>> \in Lines
    BY OwnLines
  <2>3. shelf'[r] = shelf[r] /\ book'[r] = book[r]
    BY <1>11, <2>1, PostingBooks
  <2>4. QED
    BY <1>11, <2>1, <2>2, <2>3, CountsKept DEF ItemOK
<1>12. CASE UNCHANGED vars
  BY <1>12 DEF vars, ItemOK, Own, TypeOK
<1>13. QED
  BY <1>1, <1>2, <1>3, <1>4, <1>5, <1>6, <1>7, <1>8, <1>9, <1>10, <1>11, <1>12 DEF Next

(* Posting a clean count closes the difference, and it stays closed.       *)
LEMMA BookStep ==
  ASSUME TypeOK, CountOK, ReviewedOK, ItemOK, PostedMatchesShelf, [Next]_vars
  PROVE  PostedMatchesShelf'
<1>1. ASSUME NEW x \in Workers, NEW p \in Products, NEW delta \in Deltas,
             InsertMovement(x, p, delta)
      PROVE  PostedMatchesShelf'
  BY <1>1 DEF InsertMovement, PostedMatchesShelf, Own, TypeOK
<1>2. ASSUME NEW x \in Workers, CommitMovement(x)
      PROVE  PostedMatchesShelf'
  <2> SUFFICES ASSUME NEW q \in Sessions, session'[q].status = "POSTED", NEW r \in Own(q),
                      item'[<<q, r>>].clean = "YES"
               PROVE  book'[r] = shelf'[r]
    BY DEF PostedMatchesShelf, Own
  <2>1. <<q, r>> \in Lines /\ r \in Products
    BY OwnLines
  <2>2. book[r] = shelf[r]
    BY <1>2, <2>1, CountsKept DEF PostedMatchesShelf, CommitMovement
  <2>3. shelf'[r] - book'[r] = shelf[r] - book[r]
    BY <1>2, <2>1, MovementBalanced
  <2>4. TypeOK'
    BY <1>2, TypeStep DEF Next
  <2>5. /\ book[r] \in Int /\ shelf[r] \in Int
        /\ book'[r] \in Int /\ shelf'[r] \in Int
    BY <2>1, <2>4 DEF TypeOK
  <2>6. QED
    BY <2>2, <2>3, <2>5
<1>3. ASSUME NEW x \in Workers, RollbackMovement(x)
      PROVE  PostedMatchesShelf'
  BY <1>3 DEF RollbackMovement, PostedMatchesShelf, Own, TypeOK
<1>4. ASSUME NEW s \in Sessions, CreateOpname(s)
      PROVE  PostedMatchesShelf'
  BY <1>4 DEF CreateOpname, PostedMatchesShelf, Own, TypeOK
<1>5. ASSUME NEW s \in Sessions, NEW p \in Scope[s], TakeSheet(s, p)
      PROVE  PostedMatchesShelf'
  BY <1>5 DEF TakeSheet, PostedMatchesShelf, Own, TypeOK
<1>6. ASSUME NEW s \in Sessions, NEW p \in Scope[s], NEW recount \in YesNo,
             ReadSystemQty(s, p, recount)
      PROVE  PostedMatchesShelf'
  BY <1>6 DEF ReadSystemQty, PostedMatchesShelf, Own, TypeOK
<1>7. ASSUME NEW s \in Sessions, ConfirmCount(s)
      PROVE  PostedMatchesShelf'
  <2> SUFFICES ASSUME NEW q \in Sessions, session'[q].status = "POSTED", NEW r \in Own(q),
                      item'[<<q, r>>].clean = "YES"
               PROVE  book'[r] = shelf'[r]
    BY DEF PostedMatchesShelf, Own
  <2>1. <<q, r>> \in Lines /\ r \in Products
    BY OwnLines
  <2>2. q # s /\ session[q].status = "POSTED"
    BY <1>7 DEF ConfirmCount, TypeOK
  <2>3. item'[<<q, r>>] = item[<<q, r>>]
    BY <1>7, <2>1, <2>2 DEF ConfirmCount, TypeOK
  <2>4. QED
    BY <1>7, <2>2, <2>3 DEF ConfirmCount, PostedMatchesShelf
<1>8. ASSUME NEW s \in Sessions, RollbackCount(s)
      PROVE  PostedMatchesShelf'
  BY <1>8 DEF RollbackCount, PostedMatchesShelf, Own, TypeOK
<1>9. ASSUME NEW s \in Sessions, ReviewOpname(s)
      PROVE  PostedMatchesShelf'
  BY <1>9 DEF ReviewOpname, PostedMatchesShelf, Own, TypeOK
<1>10. ASSUME NEW s \in Sessions, ShowSession(s)
       PROVE  PostedMatchesShelf'
  BY <1>10 DEF ShowSession, PostedMatchesShelf, Own, TypeOK
<1>11. ASSUME NEW s \in Sessions, PostOpname(s)
       PROVE  PostedMatchesShelf'
  <2> SUFFICES ASSUME NEW q \in Sessions, session'[q].status = "POSTED", NEW r \in Own(q),
                      item'[<<q, r>>].clean = "YES"
               PROVE  book'[r] = shelf'[r]
    BY DEF PostedMatchesShelf, Own
  <2>1. <<q, r>> \in Lines /\ r \in Products
    BY OwnLines
  <2>2. item[<<q, r>>].clean = "YES"
    BY <1>11, <2>1, CountsKept
  <2>3. CASE q = s
    <3>1. session[s].status = "REVIEW" /\ r \in Scope[s]
      BY <1>11, <2>3, OwnLines DEF PostOpname
    <3>2. item[<<s, r>>].counted = "YES"
      BY <3>1 DEF ReviewedOK
    <3>3. item[<<s, r>>].physical - item[<<s, r>>].system = shelf[r] - book[r]
      BY <2>2, <2>3, <3>1, <3>2 DEF ItemOK
    <3>4. book'[r] = book[r] + (item[<<s, r>>].physical - item[<<s, r>>].system) /\ shelf' = shelf
      BY <1>11, <2>3, PostingBooks
    <3>5. book[r] \in Int /\ shelf[r] \in Int
      BY <2>1 DEF TypeOK
    <3>6. QED
      BY <3>3, <3>4, <3>5
  <2>4. CASE q # s
    <3>1. session[q].status = "POSTED"
      BY <1>11, <2>4 DEF PostOpname, TypeOK
    <3>2. book[r] = shelf[r]
      BY <2>2, <3>1 DEF PostedMatchesShelf
    <3>3. QED
      BY <1>11, <2>4, <3>2, PostingBooks
  <2>5. QED
    BY <2>3, <2>4
<1>12. CASE UNCHANGED vars
  BY <1>12 DEF vars, PostedMatchesShelf, Own, TypeOK
<1>13. QED
  BY <1>1, <1>2, <1>3, <1>4, <1>5, <1>6, <1>7, <1>8, <1>9, <1>10, <1>11, <1>12 DEF Next

(* Every change of a session raises its version.                           *)
LEMMA VersionStep ==
  ASSUME TypeOK, CountOK, VersionOK, [Next]_vars
  PROVE  VersionOK'
<1>1. ASSUME NEW x \in Workers, NEW p \in Products, NEW delta \in Deltas,
             InsertMovement(x, p, delta)
      PROVE  VersionOK'
  BY <1>1 DEF InsertMovement, VersionOK, TypeOK, Session
<1>2. ASSUME NEW x \in Workers, CommitMovement(x)
      PROVE  VersionOK'
  BY <1>2 DEF CommitMovement, VersionOK, TypeOK, Session
<1>3. ASSUME NEW x \in Workers, RollbackMovement(x)
      PROVE  VersionOK'
  BY <1>3 DEF RollbackMovement, VersionOK, TypeOK, Session
<1>4. ASSUME NEW s \in Sessions, CreateOpname(s)
      PROVE  VersionOK'
  BY <1>4 DEF CreateOpname, VersionOK, TypeOK, Session
<1>5. ASSUME NEW s \in Sessions, NEW p \in Scope[s], TakeSheet(s, p)
      PROVE  VersionOK'
  BY <1>5 DEF TakeSheet, VersionOK, TypeOK, Session
<1>6. ASSUME NEW s \in Sessions, NEW p \in Scope[s], NEW recount \in YesNo,
             ReadSystemQty(s, p, recount)
      PROVE  VersionOK'
  BY <1>6 DEF ReadSystemQty, VersionOK, TypeOK, Session
<1>7. ASSUME NEW s \in Sessions, ConfirmCount(s)
      PROVE  VersionOK'
  BY <1>7 DEF ConfirmCount, VersionOK, TypeOK, Session
<1>8. ASSUME NEW s \in Sessions, RollbackCount(s)
      PROVE  VersionOK'
  BY <1>8 DEF RollbackCount, VersionOK, TypeOK, Session
<1>9. ASSUME NEW s \in Sessions, ReviewOpname(s)
      PROVE  VersionOK'
  BY <1>9 DEF ReviewOpname, VersionOK, TypeOK, Session
<1>10. ASSUME NEW s \in Sessions, ShowSession(s)
       PROVE  VersionOK'
  BY <1>10 DEF ShowSession, VersionOK, TypeOK, Session
<1>11. ASSUME NEW s \in Sessions, PostOpname(s)
       PROVE  VersionOK'
  BY <1>11 DEF PostOpname, VersionOK, TypeOK, Session
<1>12. CASE UNCHANGED vars
  BY <1>12 DEF vars, VersionOK, TypeOK, Session
<1>13. QED
  BY <1>1, <1>2, <1>3, <1>4, <1>5, <1>6, <1>7, <1>8, <1>9, <1>10, <1>11, <1>12 DEF Next

(* The version a person knows goes stale with every change of the counts.  *)
LEMMA ShownStep ==
  ASSUME TypeOK, CountOK, VersionOK, ShownOK, [Next]_vars
  PROVE  ShownOK'
<1>1. ASSUME NEW x \in Workers, NEW p \in Products, NEW delta \in Deltas,
             InsertMovement(x, p, delta)
      PROVE  ShownOK'
  <2>1. session' = session /\ screen' = screen /\ item' = item
    BY <1>1 DEF InsertMovement
  <2>2. QED
    BY <2>1, SameItems DEF ShownOK
<1>2. ASSUME NEW x \in Workers, CommitMovement(x)
      PROVE  ShownOK'
  <2>1. session' = session /\ screen' = screen
    BY <1>2 DEF CommitMovement
  <2>2. QED
    BY <1>2, <2>1, SameVariance DEF ShownOK
<1>3. ASSUME NEW x \in Workers, RollbackMovement(x)
      PROVE  ShownOK'
  <2>1. session' = session /\ screen' = screen /\ item' = item
    BY <1>3 DEF RollbackMovement
  <2>2. QED
    BY <2>1, SameItems DEF ShownOK
<1>4. ASSUME NEW s \in Sessions, CreateOpname(s)
      PROVE  ShownOK'
  <2>1. session'[s].status = "DRAFT"
    BY <1>4 DEF CreateOpname, TypeOK
  <2>2. \A q \in Sessions \ {s} : session'[q] = session[q]
    BY <1>4 DEF CreateOpname, TypeOK
  <2>3. screen' = screen /\ item' = item
    BY <1>4 DEF CreateOpname
  <2>4. QED
    BY <2>1, <2>2, <2>3, SameItems DEF ShownOK
<1>5. ASSUME NEW s \in Sessions, NEW p \in Scope[s], TakeSheet(s, p)
      PROVE  ShownOK'
  <2>1. session' = session /\ screen' = screen /\ item' = item
    BY <1>5 DEF TakeSheet
  <2>2. QED
    BY <2>1, SameItems DEF ShownOK
<1>6. ASSUME NEW s \in Sessions, NEW p \in Scope[s], NEW recount \in YesNo,
             ReadSystemQty(s, p, recount)
      PROVE  ShownOK'
  <2>1. session' = session /\ screen' = screen /\ item' = item
    BY <1>6 DEF ReadSystemQty
  <2>2. QED
    BY <2>1, SameItems DEF ShownOK
<1>7. ASSUME NEW s \in Sessions, ConfirmCount(s)
      PROVE  ShownOK'
  <2>1. session'[s].status = "COUNTING" /\ screen' = screen
    BY <1>7 DEF ConfirmCount, TypeOK
  <2>2. ASSUME NEW q \in Sessions \ {s}
        PROVE  session'[q] = session[q] /\ Variances(q)' = Variances(q)
    <3>1. session'[q] = session[q]
      BY <1>7 DEF ConfirmCount, TypeOK
    <3>2. \A p \in Scope[q] : item'[<<q, p>>] = item[<<q, p>>]
      BY <1>7, ScopeLines DEF ConfirmCount, TypeOK
    <3>3. \A p \in Products : Variance(q, p)' = Variance(q, p)
      BY <3>2 DEF Variance
    <3>4. QED
      BY <3>1, <3>3 DEF Variances
  <2>3. QED
    BY <2>1, <2>2 DEF ShownOK
<1>8. ASSUME NEW s \in Sessions, RollbackCount(s)
      PROVE  ShownOK'
  <2>1. session' = session /\ screen' = screen /\ item' = item
    BY <1>8 DEF RollbackCount
  <2>2. QED
    BY <2>1, SameItems DEF ShownOK
<1>9. ASSUME NEW s \in Sessions, ReviewOpname(s)
      PROVE  ShownOK'
  <2>1. session'[s].version = session[s].version + 1
    BY <1>9 DEF ReviewOpname, TypeOK
  <2>2. session[s].version \in Nat /\ screen[s].version \in Nat
    BY DEF TypeOK, Session
  <2>3. screen[s].version # session'[s].version
    BY <2>1, <2>2 DEF VersionOK
  <2>4. \A q \in Sessions \ {s} : session'[q] = session[q]
    BY <1>9 DEF ReviewOpname, TypeOK
  <2>5. screen' = screen /\ item' = item
    BY <1>9 DEF ReviewOpname
  <2>6. QED
    BY <2>3, <2>4, <2>5, SameItems DEF ShownOK
<1>10. ASSUME NEW s \in Sessions, ShowSession(s)
       PROVE  ShownOK'
  <2>1. \A q \in Sessions : q # s => screen'[q] = screen[q]
    BY <1>10 DEF ShowSession, TypeOK
  <2>2. screen'[s].shown = Variances(s)
    BY <1>10 DEF ShowSession, TypeOK
  <2>3. session' = session /\ item' = item
    BY <1>10 DEF ShowSession
  <2>4. QED
    BY <2>1, <2>2, <2>3, SameItems DEF ShownOK
<1>11. ASSUME NEW s \in Sessions, PostOpname(s)
       PROVE  ShownOK'
  <2>1. session'[s].status = "POSTED" /\ screen' = screen
    BY <1>11 DEF PostOpname, TypeOK
  <2>2. \A q \in Sessions \ {s} : session'[q] = session[q]
    BY <1>11 DEF PostOpname, TypeOK
  <2>3. \A q \in Sessions : Variances(q)' = Variances(q)
    BY <1>11, SameVariance
  <2>4. QED
    BY <2>1, <2>2, <2>3 DEF ShownOK
<1>12. CASE UNCHANGED vars
  BY <1>12 DEF vars, ShownOK, Variances, Variance
<1>13. QED
  BY <1>1, <1>2, <1>3, <1>4, <1>5, <1>6, <1>7, <1>8, <1>9, <1>10, <1>11, <1>12 DEF Next

(* A posting names the current version, whose variances were shown.        *)
LEMMA BookedStep ==
  ASSUME TypeOK, CountOK, ShownOK, PostedAsShown, [Next]_vars
  PROVE  PostedAsShown'
<1>1. ASSUME NEW x \in Workers, NEW p \in Products, NEW delta \in Deltas,
             InsertMovement(x, p, delta)
      PROVE  PostedAsShown'
  BY <1>1 DEF InsertMovement, PostedAsShown, TypeOK
<1>2. ASSUME NEW x \in Workers, CommitMovement(x)
      PROVE  PostedAsShown'
  BY <1>2 DEF CommitMovement, PostedAsShown, TypeOK
<1>3. ASSUME NEW x \in Workers, RollbackMovement(x)
      PROVE  PostedAsShown'
  BY <1>3 DEF RollbackMovement, PostedAsShown, TypeOK
<1>4. ASSUME NEW s \in Sessions, CreateOpname(s)
      PROVE  PostedAsShown'
  BY <1>4 DEF CreateOpname, PostedAsShown, TypeOK
<1>5. ASSUME NEW s \in Sessions, NEW p \in Scope[s], TakeSheet(s, p)
      PROVE  PostedAsShown'
  BY <1>5 DEF TakeSheet, PostedAsShown, TypeOK
<1>6. ASSUME NEW s \in Sessions, NEW p \in Scope[s], NEW recount \in YesNo,
             ReadSystemQty(s, p, recount)
      PROVE  PostedAsShown'
  BY <1>6 DEF ReadSystemQty, PostedAsShown, TypeOK
<1>7. ASSUME NEW s \in Sessions, ConfirmCount(s)
      PROVE  PostedAsShown'
  BY <1>7 DEF ConfirmCount, PostedAsShown, TypeOK
<1>8. ASSUME NEW s \in Sessions, RollbackCount(s)
      PROVE  PostedAsShown'
  BY <1>8 DEF RollbackCount, PostedAsShown, TypeOK
<1>9. ASSUME NEW s \in Sessions, ReviewOpname(s)
      PROVE  PostedAsShown'
  BY <1>9 DEF ReviewOpname, PostedAsShown, TypeOK
<1>10. ASSUME NEW s \in Sessions, ShowSession(s)
       PROVE  PostedAsShown'
  BY <1>10 DEF ShowSession, PostedAsShown, TypeOK
<1>11. ASSUME NEW s \in Sessions, PostOpname(s)
       PROVE  PostedAsShown'
  <2>1. posted'[s] = Variances(s)
    BY <1>11 DEF PostOpname, TypeOK
  <2>2. session[s].status = "REVIEW" /\ screen[s].version = session[s].version
    BY <1>11 DEF PostOpname, VersionShown
  <2>3. screen[s].shown = Variances(s)
    BY <2>2 DEF ShownOK
  <2>4. \A q \in Sessions \ {s} : session'[q] = session[q] /\ posted'[q] = posted[q]
    BY <1>11 DEF PostOpname, TypeOK
  <2>5. screen' = screen
    BY <1>11 DEF PostOpname
  <2>6. QED
    BY <2>1, <2>3, <2>4, <2>5 DEF PostedAsShown
<1>12. CASE UNCHANGED vars
  BY <1>12 DEF vars, PostedAsShown, TypeOK
<1>13. QED
  BY <1>1, <1>2, <1>3, <1>4, <1>5, <1>6, <1>7, <1>8, <1>9, <1>10, <1>11, <1>12 DEF Next

(* Nothing touches a posted session.                                       *)
Final == \A s \in Sessions : session[s].status = "POSTED" =>
  /\ session'[s] = session[s] /\ posted'[s] = posted[s]
  /\ \A p \in Scope[s] : item'[<<s, p>>] = item[<<s, p>>]

(* In particular no late count and no mark of a movement.                  *)
LEMMA FinalStep ==
  ASSUME TypeOK, CountOK, MoveOK, [Next]_vars
  PROVE  Final
<1>1. ASSUME NEW x \in Workers, NEW p \in Products, NEW delta \in Deltas,
             InsertMovement(x, p, delta)
      PROVE  Final
  BY <1>1 DEF InsertMovement, Final, TypeOK
<1>2. ASSUME NEW x \in Workers, CommitMovement(x)
      PROVE  Final
  <2> SUFFICES ASSUME NEW q \in Sessions, session[q].status = "POSTED", NEW p \in Scope[q]
               PROVE  item'[<<q, p>>] = item[<<q, p>>]
    BY <1>2 DEF CommitMovement, Final
  <2>1. q \notin move[x].marked
    BY DEF MoveOK
  <2>2. QED
    BY <1>2, <2>1, ScopeLines DEF CommitMovement
<1>3. ASSUME NEW x \in Workers, RollbackMovement(x)
      PROVE  Final
  BY <1>3 DEF RollbackMovement, Final, TypeOK
<1>4. ASSUME NEW s \in Sessions, CreateOpname(s)
      PROVE  Final
  BY <1>4 DEF CreateOpname, Final, TypeOK
<1>5. ASSUME NEW s \in Sessions, NEW p \in Scope[s], TakeSheet(s, p)
      PROVE  Final
  BY <1>5 DEF TakeSheet, Final, TypeOK
<1>6. ASSUME NEW s \in Sessions, NEW p \in Scope[s], NEW recount \in YesNo,
             ReadSystemQty(s, p, recount)
      PROVE  Final
  BY <1>6 DEF ReadSystemQty, Final, TypeOK
<1>7. ASSUME NEW s \in Sessions, ConfirmCount(s)
      PROVE  Final
  <2> SUFFICES ASSUME NEW q \in Sessions, session[q].status = "POSTED"
               PROVE  /\ session'[q] = session[q]
                      /\ \A p \in Scope[q] : item'[<<q, p>>] = item[<<q, p>>]
    BY <1>7 DEF ConfirmCount, Final
  <2>1. q # s
    BY <1>7 DEF ConfirmCount, CountOK
  <2>2. QED
    BY <1>7, <2>1, ScopeLines DEF ConfirmCount, TypeOK
<1>8. ASSUME NEW s \in Sessions, RollbackCount(s)
      PROVE  Final
  BY <1>8 DEF RollbackCount, Final, TypeOK
<1>9. ASSUME NEW s \in Sessions, ReviewOpname(s)
      PROVE  Final
  BY <1>9 DEF ReviewOpname, Final, TypeOK
<1>10. ASSUME NEW s \in Sessions, ShowSession(s)
       PROVE  Final
  BY <1>10 DEF ShowSession, Final, TypeOK
<1>11. ASSUME NEW s \in Sessions, PostOpname(s)
       PROVE  Final
  <2> SUFFICES ASSUME NEW q \in Sessions, session[q].status = "POSTED"
               PROVE  /\ session'[q] = session[q] /\ posted'[q] = posted[q]
                      /\ \A p \in Scope[q] : item'[<<q, p>>] = item[<<q, p>>]
    BY DEF Final
  <2>1. q # s
    BY <1>11 DEF PostOpname
  <2>2. \A p \in Products : q \notin Marks(p)
    BY DEF Marks
  <2>3. QED
    BY <1>11, <2>1, <2>2, ScopeLines DEF PostOpname, TypeOK
<1>12. CASE UNCHANGED vars
  BY <1>12 DEF vars, Final, TypeOK
<1>13. QED
  BY <1>1, <1>2, <1>3, <1>4, <1>5, <1>6, <1>7, <1>8, <1>9, <1>10, <1>11, <1>12 DEF Next

-----------------------------------------------------------------------------
(* The initial states satisfy the invariant.                               *)
LEMMA InitIInv == Init => IInv
<1> SUFFICES ASSUME Init PROVE IInv
  OBVIOUS
<1> USE OpnameAssumption
<1>1. TypeOK
  <2>1. [status |-> "NONE", version |-> 0] \in Session
    BY DEF Session
  <2>2. NoItem \in Item /\ NoSheet \in Sheet /\ NoCount \in Count /\ NoMove \in Move
    BY DEF NoItem, Item, NoSheet, Sheet, NoCount, Count, NoMove, Move, YesNo
  <2>3. Zero \in [Products -> Int]
    BY DEF Zero
  <2>4. [version |-> 0, shown |-> Zero] \in [version : 0 .. MaxVersion, shown : [Products -> Int]]
    BY <2>3
  <2>5. shelf \in [Products -> Nat]
    BY DEF Init
  <2>6. QED
    BY <2>1, <2>2, <2>3, <2>4, <2>5 DEF Init, TypeOK
<1>2. CountOK /\ MoveOK
  BY DEF Init, CountOK, MoveOK, NoCount, NoMove
<1>3. ReviewedOK /\ PostedMatchesShelf /\ ShownOK /\ PostedAsShown
  BY DEF Init, ReviewedOK, PostedMatchesShelf, ShownOK, PostedAsShown
<1>4. SheetOK
  BY OwnLines DEF Init, SheetOK, NoSheet
<1>5. ItemOK
  BY OwnLines DEF Init, ItemOK, NoItem
<1>6. VersionOK
  BY DEF Init, VersionOK
<1>7. QED
  BY <1>1, <1>2, <1>3, <1>4, <1>5, <1>6 DEF IInv

(* The inductive invariant.                                                *)
THEOREM Invariance == Spec => []IInv
<1>1. IInv /\ [Next]_vars => IInv'
  <2> SUFFICES ASSUME IInv, [Next]_vars PROVE IInv'
    OBVIOUS
  <2> USE DEF IInv
  <2>1. TypeOK' /\ CountOK' /\ MoveOK' /\ ReviewedOK'
    BY TypeStep, CountStep, MoveStep, ReviewedStep
  <2>2. SheetOK' /\ ItemOK' /\ PostedMatchesShelf'
    BY SheetStep, ItemStep, BookStep
  <2>3. VersionOK' /\ ShownOK' /\ PostedAsShown'
    BY VersionStep, ShownStep, BookedStep
  <2>4. QED
    BY <2>1, <2>2, <2>3
<1>2. QED
  BY InitIInv, <1>1, PTL DEF Spec

(* Opname keeps its types; in particular a physical count is never         *)
(* negative and the version stays within its bound.                        *)
THEOREM TypeCorrect == Spec => []TypeOK
<1>1. IInv => TypeOK
  BY DEF IInv
<1>2. QED
  BY Invariance, <1>1, PTL

(* After a posting the book holds what is on the shelf, for the products   *)
(* that one session counts and whose counts nothing disturbed: movements   *)
(* before, during and after the count do not matter.                       *)
THEOREM BookRight == Spec => []PostedMatchesShelf
<1>1. IInv => PostedMatchesShelf
  BY DEF IInv
<1>2. QED
  BY Invariance, <1>1, PTL

(* A posting books the variances of the version its person named.          *)
THEOREM BookedAsReviewed == Spec => []PostedAsShown
<1>1. IInv => PostedAsShown
  BY DEF IInv
<1>2. QED
  BY Invariance, <1>1, PTL

(* A posted session, its lines and what it booked never change again.      *)
THEOREM PostedFinal == Spec => PostedIsFinal
<1>1. IInv /\ [Next]_vars =>
        [\A s \in Sessions : session[s].status = "POSTED" =>
           /\ session'[s] = session[s] /\ posted'[s] = posted[s]
           /\ \A p \in Scope[s] : item'[<<s, p>>] = item[<<s, p>>]]_vars
  BY FinalStep DEF IInv, Final
<1>2. QED
  BY Invariance, <1>1, PTL DEF Spec, PostedIsFinal
=============================================================================
