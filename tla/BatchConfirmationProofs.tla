------------------------ MODULE BatchConfirmationProofs ------------------------
(***************************************************************************)
(* Theorems about BatchConfirmation, for any runs, nodes, batches and      *)
(* requests and any number of failures and crashes: a receipt can be       *)
(* believed and carried out, and what a client accepted is not rewritten.  *)
(*                                                                         *)
(* The invariant ties the handler inside confirmationMu to the receipts    *)
(* (what it still has to do are places of pending members), the leases to  *)
(* the runs that hold them, and each pending member to what its client may *)
(* count on: a fan-out that looks at it now, a run with work left that     *)
(* holds its node, or a result whose continuation is still to come.        *)
(***************************************************************************)
EXTENDS BatchConfirmation, Functions, SequenceTheorems, TLAPS

MemberRow == [finding : Finding, run : Run, digest : {"plan", "other"}, state : MemberState]
Receipt == [batch : Batch, key : Key, members : Seq(MemberRow)]
Handler ==
  [op : {"none", "confirm", "fanout"}, at : {"none", "member", "lease", "mark"},
   run : Run \union {NoRun}, todo : SUBSET (Nat \X Nat), tail : Run \union {NoRun}]

\* Every variable has its type.
Shape ==
  /\ run \in [Run -> RunState]
  /\ lease \in [Node -> Run \union {NoRun}]
  /\ receipts \in Seq(Receipt)
  /\ server \in {"up", "resuming", "down"}
  /\ mu \in Handler
  /\ contained \subseteq Run /\ unacked \subseteq Run /\ waiting \subseteq unacked
  /\ begun \subseteq Run /\ named \in 0 .. MaxByName
  /\ faults \in Nat /\ crashes \in Nat /\ faults + crashes <= MaxTrouble

\* The handler inside confirmationMu: a confirmation by name has nothing else to
\* do, a fan-out goes through pending members, works on the first of them, and
\* has queued its run before it records it; a Server that is down has none.
HandlerFits ==
  /\ mu.op = "none" => mu = Idle
  /\ mu.op = "confirm" => mu.run \in Run /\ mu.at = "lease" /\ mu.todo = {} /\ mu.tail = NoRun
  /\ mu.op = "fanout" =>
       /\ mu.at # "none"
       /\ mu.todo \subseteq ListPending
       /\ mu.tail # NoRun => mu.tail \in waiting
       /\ mu.at \in {"lease", "mark"} => \E p \in First : mu.run = Member(p).run
       /\ mu.at = "mark" => mu.run \in begun
  /\ server = "down" => mu = Idle

\* What is known of a run: a confirmed one was queued, one whose result is in is
\* over, one that may still be carried out after a cancellation is canceled.
RunsFit ==
  /\ \A r \in Run : run[r] \in operationRunWasConfirmed => r \in begun
  /\ \A r \in unacked : Ended(r)
  /\ \A r \in contained : run[r] = "canceled_before_apply"

\* A node is held by a run of its own, and, as long as nothing failed, by one
\* that is over only until its continuation gives it back.
LeasesFit ==
  \A n \in Node : lease[n] # NoRun =>
    /\ NodeOf[lease[n]] = n
    /\ faults = 0 /\ Ended(lease[n]) => lease[n] \in unacked \ waiting

\* A run with work left holds the node of the member's run.
Waits(p) == Busy(Member(p).run) /\ ~Ended(lease[NodeOf[Member(p).run]])

\* A pending member whose run nobody started is looked at in this fan-out, or
\* waits for a run with work left, or a fan-out is still to come.
Promised ==
  faults = 0 /\ server # "down" =>
    \A p \in ListPending :
      \/ run[Member(p).run] # "awaiting_confirmation"
      \/ p \in mu.todo
      \/ Waits(p)
      \/ unacked \ {mu.tail} # {}

ReceiptsFit == OneReceiptPerRun /\ AcceptedAsShown /\ ReceiptTruth

BInv == Shape /\ ReceiptsFit /\ HandlerFits /\ RunsFit /\ LeasesFit /\ Promised

-----------------------------------------------------------------------------
(* Receipts and places in them.                                            *)

LEMMA ReceiptRows ==
  ASSUME Shape
  PROVE  /\ Len(receipts) \in Nat /\ DOMAIN receipts = 1 .. Len(receipts)
         /\ \A n \in DOMAIN receipts :
              /\ receipts[n] \in Receipt
              /\ Len(receipts[n].members) \in Nat
              /\ DOMAIN receipts[n].members = 1 .. Len(receipts[n].members)
              /\ \A i \in DOMAIN receipts[n].members : receipts[n].members[i] \in MemberRow
<1>1. Len(receipts) \in Nat /\ DOMAIN receipts = 1 .. Len(receipts)
  BY LenProperties DEF Shape
<1>2. ASSUME NEW n \in DOMAIN receipts
      PROVE  /\ receipts[n] \in Receipt
             /\ Len(receipts[n].members) \in Nat
             /\ DOMAIN receipts[n].members = 1 .. Len(receipts[n].members)
             /\ \A i \in DOMAIN receipts[n].members : receipts[n].members[i] \in MemberRow
  <2>1. receipts[n] \in Receipt
    BY <1>1, <1>2, ElementOfSeq DEF Shape
  <2>2. receipts[n].members \in Seq(MemberRow)
    BY <2>1 DEF Receipt
  <2>3. /\ Len(receipts[n].members) \in Nat
        /\ DOMAIN receipts[n].members = 1 .. Len(receipts[n].members)
    BY <2>2, LenProperties
  <2>4. \A i \in DOMAIN receipts[n].members : receipts[n].members[i] \in MemberRow
    BY <2>2, <2>3, ElementOfSeq
  <2> QED
    BY <2>1, <2>3, <2>4
<1> QED
  BY <1>1, <1>2

LEMMA PlaceIs ==
  ASSUME NEW p
  PROVE  p \in Place <=> \E n \in DOMAIN receipts :
                           \E i \in DOMAIN receipts[n].members : p = <<n, i>>
BY DEF Place

LEMMA PendingIs ==
  ASSUME NEW p
  PROVE  p \in ListPending <=> p \in Place /\ Pending(p)
BY DEF ListPending, PendingOf, Place

LEMMA PlaceRow ==
  ASSUME Shape, NEW p \in Place
  PROVE  /\ p \in Nat \X Nat
         /\ p = <<p[1], p[2]>>
         /\ p[1] \in DOMAIN receipts /\ p[2] \in DOMAIN receipts[p[1]].members
         /\ Member(p) \in MemberRow
         /\ Member(p).run \in Run
<1>0. PICK n \in DOMAIN receipts : \E i \in DOMAIN receipts[n].members : p = <<n, i>>
  BY PlaceIs
<1>1. PICK i \in DOMAIN receipts[n].members : p = <<n, i>>
  BY <1>0
<1>2. n \in Nat /\ i \in Nat /\ receipts[n].members[i] \in MemberRow
  BY <1>1, ReceiptRows
<1>3. Member(p) = receipts[n].members[i]
  BY <1>1 DEF Member
<1>4. Member(p).run \in Run
  BY <1>2, <1>3 DEF MemberRow
<1> QED
  BY <1>1, <1>2, <1>3, <1>4

LEMMA FirstPlace ==
  ASSUME Shape, HandlerFits, NEW p \in First
  PROVE  p \in ListPending /\ p \in Place /\ Pending(p) /\ p \in mu.todo
<1>1. p \in mu.todo
  BY DEF First
<1>2. mu.op = "fanout"
  BY <1>1 DEF HandlerFits, Shape, Handler, Idle
<1>3. p \in ListPending
  BY <1>1, <1>2 DEF HandlerFits
<1> QED
  BY <1>1, <1>3, PendingIs

\* The members still to go through have one first place.
LEMMA OneFirst ==
  ASSUME Shape, HandlerFits, NEW p \in First, NEW q \in First
  PROVE  p = q
<1>1. p \in Place /\ q \in Place
  BY FirstPlace
<1>2. p \in Nat \X Nat /\ q \in Nat \X Nat /\ p = <<p[1], p[2]>> /\ q = <<q[1], q[2]>>
  BY <1>1, PlaceRow
<1>3. Before(p, q) /\ Before(q, p)
  BY DEF First
<1>4. p[1] \in Nat /\ p[2] \in Nat /\ q[1] \in Nat /\ q[2] \in Nat
  BY <1>2
<1>5. p[1] = q[1] /\ p[2] = q[2]
  BY <1>3, <1>4 DEF Before
<1> QED
  BY <1>2, <1>5

LEMMA PlacesFrame ==
  ASSUME receipts' = receipts
  PROVE  /\ Place' = Place /\ ListPending' = ListPending
         /\ \A p : Member(p)' = Member(p)
BY DEF Place, ListPending, PendingOf, Pending, Member

LEMMA PendingPairs ==
  ASSUME Shape
  PROVE  ListPending \subseteq Nat \X Nat
BY PendingIs, PlaceRow

-----------------------------------------------------------------------------
(* What a step does to the receipts.                                       *)

\* A canceled run stays canceled, and a run that was queued was queued.
RunsOnly ==
  /\ \A r \in Run : run[r] = "canceled_before_apply" => run'[r] = "canceled_before_apply"
  /\ begun \subseteq begun'

LEMMA ReceiptsUntouched ==
  ASSUME Shape, ReceiptsFit, receipts' = receipts, RunsOnly
  PROVE  ReceiptsFit'
<1>0. OneReceiptPerRun'
  BY DEF ReceiptsFit, OneReceiptPerRun
<1>1. AcceptedAsShown'
  BY DEF ReceiptsFit, AcceptedAsShown
<1>2. ReceiptTruth'
  <2>1. \A n \in DOMAIN receipts : \A i \in DOMAIN receipts[n].members :
          receipts[n].members[i].run \in Run
    BY ReceiptRows DEF MemberRow
  <2> QED
    BY <2>1 DEF ReceiptsFit, ReceiptTruth, RunsOnly
<1> QED
  BY <1>0, <1>1, <1>2 DEF ReceiptsFit

\* A row of a receipt is written: nothing but the state of one member changes.
LEMMA MarkEffect ==
  ASSUME Shape, NEW p \in Place, NEW s \in MemberState, Mark(p, s)
  PROVE  /\ receipts' \in Seq(Receipt) /\ Len(receipts') = Len(receipts)
         /\ DOMAIN receipts' = DOMAIN receipts
         /\ \A n \in DOMAIN receipts :
              /\ receipts'[n].batch = receipts[n].batch /\ receipts'[n].key = receipts[n].key
              /\ DOMAIN receipts'[n].members = DOMAIN receipts[n].members
              /\ \A i \in DOMAIN receipts[n].members :
                   /\ receipts'[n].members[i].finding = receipts[n].members[i].finding
                   /\ receipts'[n].members[i].run = receipts[n].members[i].run
                   /\ receipts'[n].members[i].digest = receipts[n].members[i].digest
                   /\ receipts'[n].members[i].state =
                        IF <<n, i>> = p THEN s ELSE receipts[n].members[i].state
                   /\ <<n, i>> # p => receipts'[n].members[i] = receipts[n].members[i]
<1>0. PICK k \in DOMAIN receipts : \E j \in DOMAIN receipts[k].members : p = <<k, j>>
  BY PlaceIs
<1>1. PICK j \in DOMAIN receipts[k].members : p = <<k, j>>
  BY <1>0
<1>2. PICK x : x = receipts[k]
  OBVIOUS
<1>3. x \in Receipt /\ x.members \in Seq(MemberRow) /\ j \in 1 .. Len(x.members)
  BY <1>1, <1>2, ReceiptRows DEF Receipt
<1>4. x.members[j] \in MemberRow
  BY <1>3, ElementOfSeq
<1>5. PICK m : m = [x.members[j] EXCEPT !.state = s]
  OBVIOUS
<1>6. /\ m \in MemberRow
      /\ m.finding = x.members[j].finding /\ m.run = x.members[j].run
      /\ m.digest = x.members[j].digest /\ m.state = s
  BY <1>4, <1>5 DEF MemberRow
<1>7. PICK ms : ms = [x.members EXCEPT ![j] = m]
  OBVIOUS
<1>8. /\ ms \in Seq(MemberRow) /\ Len(ms) = Len(x.members)
      /\ \A i \in 1 .. Len(x.members) : ms[i] = IF i = j THEN m ELSE x.members[i]
  BY <1>3, <1>6, <1>7, ExceptSeq
<1>9. DOMAIN ms = DOMAIN x.members /\ DOMAIN x.members = 1 .. Len(x.members)
  BY <1>3, <1>8, LenProperties
<1>10. PICK y : y = [x EXCEPT !.members = ms]
  OBVIOUS
<1>11. y \in Receipt /\ y.batch = x.batch /\ y.key = x.key /\ y.members = ms
  BY <1>3, <1>8, <1>10 DEF Receipt
<1>12. receipts' = [receipts EXCEPT ![k] = y]
  BY <1>1, <1>2, <1>5, <1>7, <1>10 DEF Mark
<1>13. k \in 1 .. Len(receipts) /\ receipts \in Seq(Receipt)
  BY <1>1, ReceiptRows DEF Shape
<1>14. /\ receipts' \in Seq(Receipt) /\ Len(receipts') = Len(receipts)
       /\ \A n \in 1 .. Len(receipts) : receipts'[n] = IF n = k THEN y ELSE receipts[n]
  BY <1>11, <1>12, <1>13, ExceptSeq
<1>15. DOMAIN receipts' = DOMAIN receipts /\ DOMAIN receipts = 1 .. Len(receipts)
  BY <1>13, <1>14, LenProperties
<1>16. ASSUME NEW n \in DOMAIN receipts
       PROVE  /\ receipts'[n].batch = receipts[n].batch /\ receipts'[n].key = receipts[n].key
              /\ DOMAIN receipts'[n].members = DOMAIN receipts[n].members
              /\ \A i \in DOMAIN receipts[n].members :
                   /\ receipts'[n].members[i].finding = receipts[n].members[i].finding
                   /\ receipts'[n].members[i].run = receipts[n].members[i].run
                   /\ receipts'[n].members[i].digest = receipts[n].members[i].digest
                   /\ receipts'[n].members[i].state =
                        IF <<n, i>> = p THEN s ELSE receipts[n].members[i].state
                   /\ <<n, i>> # p => receipts'[n].members[i] = receipts[n].members[i]
  <2>1. CASE n # k
    <3>1. receipts'[n] = receipts[n] /\ \A i : <<n, i>> # p
      BY <1>1, <1>14, <1>15, <2>1
    <3> QED
      BY <3>1
  <2>2. CASE n = k
    <3>1. receipts'[n] = y /\ receipts[n] = x
      BY <1>2, <1>14, <1>15, <2>2
    <3>2. receipts'[n].batch = x.batch /\ receipts'[n].key = x.key /\ receipts'[n].members = ms
      BY <1>11, <3>1
    <3>3. ASSUME NEW i \in DOMAIN x.members
          PROVE  /\ ms[i].finding = x.members[i].finding
                 /\ ms[i].run = x.members[i].run
                 /\ ms[i].digest = x.members[i].digest
                 /\ ms[i].state = IF <<n, i>> = p THEN s ELSE x.members[i].state
                 /\ <<n, i>> # p => ms[i] = x.members[i]
      <4>1. ms[i] = IF i = j THEN m ELSE x.members[i]
        BY <1>8, <1>9
      <4>2. <<n, i>> = p <=> i = j
        BY <1>1, <2>2
      <4>3. CASE i = j
        BY <1>6, <4>1, <4>2, <4>3
      <4>4. CASE i # j
        BY <4>1, <4>2, <4>4
      <4> QED
        BY <4>3, <4>4
    <3> QED
      BY <1>9, <3>1, <3>2, <3>3
  <2> QED
    BY <2>1, <2>2
<1> QED
  BY <1>14, <1>15, <1>16


LEMMA ReceiptsMarked ==
  ASSUME Shape, ReceiptsFit, NEW p \in Place, NEW s \in {"confirmed", "suppressed_canceled"},
         Mark(p, s), run' = run, begun' = begun,
         s = "confirmed" => Member(p).run \in begun,
         s = "suppressed_canceled" => run[Member(p).run] = "canceled_before_apply"
  PROVE  /\ ReceiptsFit'
         /\ receipts' \in Seq(Receipt)
         /\ ListPending' = ListPending \ {p}
         /\ \A q \in Place : Member(q)'.run = Member(q).run
<1> s \in MemberState
  BY DEF MemberState
<1>1. /\ receipts' \in Seq(Receipt)
      /\ DOMAIN receipts' = DOMAIN receipts
      /\ \A n \in DOMAIN receipts :
           /\ receipts'[n].key = receipts[n].key
           /\ DOMAIN receipts'[n].members = DOMAIN receipts[n].members
           /\ \A i \in DOMAIN receipts[n].members :
                /\ receipts'[n].members[i].finding = receipts[n].members[i].finding
                /\ receipts'[n].members[i].run = receipts[n].members[i].run
                /\ receipts'[n].members[i].digest = receipts[n].members[i].digest
                /\ receipts'[n].members[i].state =
                     IF <<n, i>> = p THEN s ELSE receipts[n].members[i].state
  BY MarkEffect
<1>2. OneReceiptPerRun'
  <2>1. ASSUME NEW n \in DOMAIN receipts
        PROVE  RunsOf(receipts'[n]) = RunsOf(receipts[n])
    BY <1>1 DEF RunsOf
  <2>2. \A n, k \in DOMAIN receipts :
          n # k => /\ RunsOf(receipts[n]) \cap RunsOf(receipts[k]) = {}
                   /\ receipts[n].key # receipts[k].key
    BY DEF ReceiptsFit, OneReceiptPerRun
  <2>3. \A n, k \in DOMAIN receipts' :
          n # k => /\ RunsOf(receipts'[n]) \cap RunsOf(receipts'[k]) = {}
                   /\ receipts'[n].key # receipts'[k].key
    BY <1>1, <2>1, <2>2
  <2> QED
    BY <2>3 DEF OneReceiptPerRun
<1>3. AcceptedAsShown'
  BY <1>1 DEF ReceiptsFit, AcceptedAsShown
<1>4. ReceiptTruth'
  <2>1. ASSUME NEW n \in DOMAIN receipts, NEW i \in DOMAIN receipts[n].members
        PROVE  LET m == receipts'[n].members[i]
               IN /\ m.state = "confirmed" => m.run \in begun
                  /\ m.state = "suppressed_canceled" => run[m.run] = "canceled_before_apply"
    <3>1. CASE <<n, i>> = p
      <4>1. Member(p).run = receipts'[n].members[i].run /\ receipts'[n].members[i].state = s
        BY <1>1, <3>1 DEF Member
      <4> QED
        BY <4>1
    <3>2. CASE <<n, i>> # p
      BY <1>1, <3>2 DEF ReceiptsFit, ReceiptTruth
    <3> QED
      BY <3>1, <3>2
  <2> QED
    BY <1>1, <2>1 DEF ReceiptTruth
<1>5. Place' = Place
  BY <1>1 DEF Place
<1>6. ASSUME NEW q \in Place
      PROVE  /\ Member(q)'.run = Member(q).run
             /\ Member(q)'.state = IF q = p THEN s ELSE Member(q).state
  <2>1. q[1] \in DOMAIN receipts /\ q[2] \in DOMAIN receipts[q[1]].members /\ q = <<q[1], q[2]>>
    BY PlaceRow
  <2> QED
    BY <1>1, <2>1 DEF Member
<1>7. ListPending' = ListPending \ {p}
  <2>1. ASSUME NEW q
        PROVE  q \in ListPending' <=> q \in ListPending \ {p}
    <3>1. q \in ListPending' <=> q \in Place' /\ Pending(q)'
      BY DEF ListPending, PendingOf, Place
    <3> QED
      BY <1>5, <1>6, <3>1, PendingIs DEF Pending
  <2> QED
    BY <2>1
<1> QED
  BY <1>1, <1>2, <1>3, <1>4, <1>6, <1>7 DEF ReceiptsFit

\* The places of a receipt that was just accepted.
NewPlaces(q) == {Len(receipts) + 1} \X DOMAIN q.members

LEMMA ReceiptsGrown ==
  ASSUME Shape, ReceiptsFit, NEW q \in Request, preflightOperationBatch(q), Insertable(q),
         receipts' = Append(receipts, NormalReceipt(q)), run' = run, begun' = begun
  PROVE  /\ ReceiptsFit'
         /\ receipts' \in Seq(Receipt)
         /\ ListPending' = ListPending \union NewPlaces(q)
         /\ NewPlaces(q) \subseteq Nat \X Nat
         /\ \A p \in ListPending : Member(p)' = Member(p)
<1>1. PICK z : z = NormalReceipt(q)
  OBVIOUS
<1>2. q \in [batch : Batch, key : Key, members : Seq(Requested)]
  BY RequestAssumption
<1>3. q.batch \in Batch /\ q.key \in Key /\ q.members \in Seq(Requested)
  BY <1>2
<1>4. PICK len : len = Len(q.members)
  OBVIOUS
<1>5. len \in Nat /\ DOMAIN q.members = 1 .. len
      /\ \A i \in 1 .. len : q.members[i] \in Requested
  BY <1>3, <1>4, LenProperties, ElementOfSeq
<1>6. /\ z.batch = q.batch /\ z.key = q.key
      /\ DOMAIN z.members = DOMAIN q.members
      /\ \A i \in DOMAIN q.members :
           z.members[i] = [finding |-> q.members[i].finding, run |-> q.members[i].run,
                           digest |-> q.members[i].digest, state |-> "pending"]
  BY <1>1 DEF NormalReceipt
<1>61. ASSUME NEW i \in DOMAIN q.members
       PROVE  /\ z.members[i].finding = q.members[i].finding
              /\ z.members[i].run = q.members[i].run
              /\ z.members[i].digest = q.members[i].digest
              /\ z.members[i].state = "pending"
              /\ z.members[i] = [finding |-> z.members[i].finding, run |-> z.members[i].run,
                                 digest |-> z.members[i].digest, state |-> z.members[i].state]
  <2>1. z.members[i] = [finding |-> q.members[i].finding, run |-> q.members[i].run,
                        digest |-> q.members[i].digest, state |-> "pending"]
    BY <1>6
  <2> QED
    BY <2>1
<1>7. z \in Receipt
  <2>1. ASSUME NEW i \in 1 .. len
        PROVE  z.members[i] \in MemberRow
    <3>1. q.members[i] \in Requested /\ i \in DOMAIN q.members
      BY <1>5
    <3>2. /\ q.members[i].finding \in Finding /\ q.members[i].run \in Run
          /\ q.members[i].digest \in {"plan", "other"}
      BY <3>1 DEF Requested
    <3> QED
      <4>1. PICK m : m = z.members[i]
        OBVIOUS
      <4>2. /\ m = [finding |-> m.finding, run |-> m.run, digest |-> m.digest, state |-> m.state]
            /\ m.finding \in Finding /\ m.run \in Run /\ m.digest \in {"plan", "other"}
            /\ m.state = "pending"
        BY <1>61, <3>1, <3>2, <4>1
      <4>3. m \in MemberRow
        BY <4>2 DEF MemberRow, MemberState
      <4> QED
        BY <4>1, <4>3
  <2>2. z.members = [i \in 1 .. len |-> z.members[i]]
    BY <1>1, <1>5 DEF NormalReceipt
  <2>3. z.members \in [1 .. len -> MemberRow]
    BY <2>1, <2>2
  <2>4. z.members \in Seq(MemberRow)
    BY <1>5, <2>3, SeqDef
  <2>5. z = [batch |-> z.batch, key |-> z.key, members |-> z.members]
    BY <1>1 DEF NormalReceipt
  <2> QED
    BY <1>3, <1>6, <2>4, <2>5 DEF Receipt
<1>8. PICK top : top = Len(receipts) + 1
  OBVIOUS
<1>9. /\ receipts' \in Seq(Receipt) /\ Len(receipts') = top
      /\ \A n \in 1 .. Len(receipts) : receipts'[n] = receipts[n]
      /\ receipts'[top] = z
  BY <1>1, <1>7, <1>8, AppendProperties DEF Shape
<1>10. /\ Len(receipts) \in Nat /\ top \in Nat
       /\ DOMAIN receipts = 1 .. Len(receipts) /\ DOMAIN receipts' = 1 .. top
  BY <1>8, <1>9, ReceiptRows, LenProperties
<1>11. /\ DOMAIN receipts' = DOMAIN receipts \union {top} /\ top \notin DOMAIN receipts
       /\ \A n \in DOMAIN receipts : receipts'[n] = receipts[n]
  BY <1>8, <1>9, <1>10
<1>12. OneReceiptPerRun'
  <2>1. \A n \in DOMAIN receipts :
          RunsOf(receipts[n]) \cap RunsOf(q) = {} /\ receipts[n].key # q.key
    BY DEF Insertable, GetByKey
  <2>2. RunsOf(z) = RunsOf(q)
    BY <1>6, <1>61 DEF RunsOf
  <2>3. \A n \in DOMAIN receipts :
          RunsOf(receipts[n]) \cap RunsOf(z) = {} /\ receipts[n].key # z.key
    BY <1>6, <2>1, <2>2
  <2>4. \A n, k \in DOMAIN receipts :
          n # k => /\ RunsOf(receipts[n]) \cap RunsOf(receipts[k]) = {}
                   /\ receipts[n].key # receipts[k].key
    BY DEF ReceiptsFit, OneReceiptPerRun
  <2>5. ASSUME NEW n \in DOMAIN receipts', NEW k \in DOMAIN receipts', n # k
        PROVE  /\ RunsOf(receipts'[n]) \cap RunsOf(receipts'[k]) = {}
               /\ receipts'[n].key # receipts'[k].key
    <3>1. CASE n \in DOMAIN receipts /\ k \in DOMAIN receipts
      BY <1>11, <2>4, <2>5, <3>1
    <3>2. CASE n = top /\ k \in DOMAIN receipts
      BY <1>9, <1>11, <2>3, <3>2
    <3>3. CASE n \in DOMAIN receipts /\ k = top
      BY <1>9, <1>11, <2>3, <3>3
    <3> QED
      BY <1>11, <2>5, <3>1, <3>2, <3>3
  <2> QED
    BY <2>5 DEF OneReceiptPerRun
<1>13. AcceptedAsShown'
  <2>1. ASSUME NEW n \in DOMAIN receipts', NEW i \in DOMAIN receipts'[n].members
        PROVE  LET m == receipts'[n].members[i]
               IN m.digest = "plan" /\ m.finding = FindingOf[m.run] /\ m.finding \in Actionable
    <3>1. CASE n \in DOMAIN receipts
      BY <1>11, <3>1 DEF ReceiptsFit, AcceptedAsShown
    <3>2. CASE n = top
      <4>1. i \in DOMAIN q.members /\ receipts'[n].members[i] = z.members[i]
        BY <1>6, <1>9, <2>1, <3>2
      <4>2. /\ q.members[i].digest = "plan" /\ q.members[i].finding \in Actionable
            /\ q.members[i].finding = FindingOf[q.members[i].run]
        BY <4>1 DEF preflightOperationBatch
      <4> QED
        BY <1>61, <4>1, <4>2
    <3> QED
      BY <1>11, <3>1, <3>2
  <2> QED
    BY <2>1 DEF AcceptedAsShown
<1>14. ReceiptTruth'
  <2>1. ASSUME NEW n \in DOMAIN receipts', NEW i \in DOMAIN receipts'[n].members
        PROVE  LET m == receipts'[n].members[i]
               IN /\ m.state = "confirmed" => m.run \in begun
                  /\ m.state = "suppressed_canceled" => run[m.run] = "canceled_before_apply"
    <3>1. CASE n \in DOMAIN receipts
      BY <1>11, <3>1 DEF ReceiptsFit, ReceiptTruth
    <3>2. CASE n = top
      <4>1. i \in DOMAIN q.members /\ receipts'[n].members[i] = z.members[i]
        BY <1>6, <1>9, <2>1, <3>2
      <4> QED
        BY <1>61, <4>1
    <3> QED
      BY <1>11, <3>1, <3>2
  <2> QED
    BY <2>1 DEF ReceiptTruth
<1>15. ASSUME NEW p
       PROVE  p \in ListPending' <=> p \in ListPending \union NewPlaces(q)
  <2>1. p \in ListPending' <=> p \in Place' /\ Pending(p)'
    BY DEF ListPending, PendingOf, Place
  <2>2. p \in Place' <=> p \in Place \union NewPlaces(q)
    <3>1. p \in Place' <=> \E n \in DOMAIN receipts' :
                             \E i \in DOMAIN receipts'[n].members : p = <<n, i>>
      BY DEF Place
    <3>2. p \in NewPlaces(q) <=> \E i \in DOMAIN receipts'[top].members : p = <<top, i>>
      BY <1>6, <1>8, <1>9 DEF NewPlaces
    <3>3. p \in Place <=> \E n \in DOMAIN receipts :
                            \E i \in DOMAIN receipts'[n].members : p = <<n, i>>
      BY <1>11, PlaceIs
    <3> QED
      BY <1>11, <3>1, <3>2, <3>3
  <2>3. p \in Place => Member(p)' = Member(p)
    BY <1>11, PlaceRow DEF Member
  <2>4. p \in NewPlaces(q) => Pending(p)'
    <3> SUFFICES ASSUME p \in NewPlaces(q)
                 PROVE  Pending(p)'
      OBVIOUS
    <3>1. p[1] = top /\ p[2] \in DOMAIN q.members
      BY <1>8 DEF NewPlaces
    <3>2. Member(p)' = z.members[p[2]]
      BY <1>9, <3>1 DEF Member
    <3> QED
      BY <1>61, <3>1, <3>2 DEF Pending
  <2> QED
    BY <2>1, <2>2, <2>3, <2>4, PendingIs DEF Pending
<1>16. NewPlaces(q) \subseteq Nat \X Nat
  BY <1>5, <1>8, <1>10 DEF NewPlaces
<1>17. \A p \in ListPending : Member(p)' = Member(p)
  BY <1>11, PlaceRow, PendingIs DEF Member
<1> QED
  BY <1>9, <1>12, <1>13, <1>14, <1>15, <1>16, <1>17 DEF ReceiptsFit


-----------------------------------------------------------------------------
(* Parts of the invariant that a step leaves alone.                        *)

LEMMA Handlers ==
  ASSUME NEW t \in Run \union {NoRun}, NEW places \in SUBSET (Nat \X Nat)
  PROVE  /\ Idle \in Handler /\ FanOut(places, t) \in Handler
         /\ \A r \in Run : Confirming(r) \in Handler
BY DEF Handler, Idle, FanOut, Confirming

LEMMA HandlerParts ==
  ASSUME Shape
  PROVE  /\ mu.op \in {"none", "confirm", "fanout"}
         /\ mu.at \in {"none", "member", "lease", "mark"}
         /\ mu.run \in Run \union {NoRun} /\ mu.tail \in Run \union {NoRun}
         /\ mu.todo \subseteq Nat \X Nat
BY DEF Shape, Handler

LEMMA SkipEffect ==
  ASSUME Shape, NEW p, Skip(p)
  PROVE  /\ mu' \in Handler
         /\ mu'.op = mu.op /\ mu'.tail = mu.tail /\ mu'.at = "member"
         /\ mu'.todo = mu.todo \ {p}
BY DEF Shape, Skip, Handler

LEMMA Spent ==
  ASSUME Shape, Fault
  PROVE  /\ faults' \in Nat /\ faults' # 0 /\ crashes' \in Nat
         /\ faults' + crashes' <= MaxTrouble
BY BoundsAssumption DEF Shape, Fault, FaultLeft

LEMMA RunsFrame ==
  ASSUME RunsFit, UNCHANGED <<run, begun, unacked, contained>>
  PROVE  RunsFit'
BY DEF RunsFit, Ended

LEMMA LeasesFrame ==
  ASSUME LeasesFit, UNCHANGED <<run, lease, agents, waiting>>, faults' = 0 => faults = 0
  PROVE  LeasesFit'
BY DEF LeasesFit, Ended, agents

\* What may be said of leases once something failed.
LEMMA LeasesAfterFault ==
  ASSUME LeasesFit, UNCHANGED lease, faults' # 0
  PROVE  LeasesFit'
BY DEF LeasesFit

\* A pending member has a member's place, and a run.
LEMMA PendingRun ==
  ASSUME Shape, NEW p \in ListPending
  PROVE  p \in Place /\ Member(p).run \in Run /\ NodeOf[Member(p).run] \in Node
BY PendingIs, PlaceRow, NodeOfAssumption

LEMMA TailWaits ==
  ASSUME Shape, HandlerFits
  PROVE  mu.tail # NoRun => mu.tail \in waiting
BY HandlerParts DEF HandlerFits, Idle

-----------------------------------------------------------------------------
(* The steps of a fan-out.                                                 *)

LEMMA SettleKeeps ==
  ASSUME BInv, NEW p \in First, NEW s \in {"confirmed", "suppressed_canceled"},
         Mark(p, s), Skip(p), mu.op = "fanout",
         UNCHANGED <<run, lease, server, agents, waiting, journal, budget>>,
         s = "confirmed" => Member(p).run \in begun,
         s = "suppressed_canceled" => run[Member(p).run] = "canceled_before_apply"
  PROVE  BInv'
<1> USE DEF BInv, agents, journal, budget
<1>1. p \in Place /\ p \in ListPending /\ p \in mu.todo
  BY FirstPlace
<1>2. /\ mu' \in Handler
      /\ mu'.op = mu.op /\ mu'.tail = mu.tail /\ mu'.at = "member"
      /\ mu'.todo = mu.todo \ {p}
  BY SkipEffect
<1>3. /\ ReceiptsFit'
      /\ receipts' \in Seq(Receipt)
      /\ ListPending' = ListPending \ {p}
      /\ \A q \in Place : Member(q)'.run = Member(q).run
  BY <1>1, ReceiptsMarked
<1>4. Shape'
  BY <1>2, <1>3 DEF Shape
<1>5. HandlerFits'
  <2>1. server # "down"
    BY DEF HandlerFits, Idle
  <2> QED
    BY <1>2, <1>3, <2>1 DEF HandlerFits
<1>6. RunsFit' /\ LeasesFit'
  BY RunsFrame, LeasesFrame
<1>7. Promised'
  <2> SUFFICES ASSUME faults = 0, server # "down", NEW q \in ListPending'
               PROVE  \/ run[Member(q)'.run] # "awaiting_confirmation"
                      \/ q \in mu'.todo
                      \/ Waits(q)'
                      \/ unacked \ {mu'.tail} # {}
    BY DEF Promised
  <2>1. q \in ListPending /\ q # p /\ Member(q)'.run = Member(q).run
    BY <1>3, PendingRun
  <2>2. Waits(q) => Waits(q)'
    BY <2>1 DEF Waits, Busy, Ended
  <2> QED
    BY <1>2, <2>1, <2>2 DEF Promised
<1> QED
  BY <1>3, <1>4, <1>5, <1>6, <1>7

LEMMA SuppressMemberKeeps ==
  ASSUME BInv, NEW p \in First, SuppressMember(p)
  PROVE  BInv'
BY SettleKeeps DEF SuppressMember, InFanOut

LEMMA MarkStartedKeeps ==
  ASSUME BInv, NEW p \in First, MarkStarted(p)
  PROVE  BInv'
<1>1. Member(p).run \in begun
  BY FirstPlace, PlaceRow DEF BInv, RunsFit, MarkStarted
<1> QED
  BY <1>1, SettleKeeps DEF MarkStarted, InFanOut

LEMMA MarkConfirmedKeeps ==
  ASSUME BInv, NEW p \in First, MarkConfirmed(p)
  PROVE  BInv'
<1>1. mu.op = "fanout" /\ mu.at = "mark"
  BY FirstPlace DEF BInv, MarkConfirmed, At, HandlerFits
<1>2. PICK q \in First : mu.run = Member(q).run
  BY <1>1 DEF BInv, HandlerFits
<1>3. q = p
  BY OneFirst DEF BInv
<1>4. Member(p).run \in begun
  BY <1>1, <1>2, <1>3 DEF BInv, HandlerFits
<1> QED
  BY <1>1, <1>4, SettleKeeps DEF MarkConfirmed

\* A member is left pending: nothing failed only when somebody is in its way.
LEMMA SkipKeeps ==
  ASSUME BInv, NEW p \in First, Skip(p), mu.op = "fanout",
         UNCHANGED <<run, receipts, server, agents, waiting, journal>>,
         faults' \in Nat /\ crashes' \in Nat /\ faults' + crashes' <= MaxTrouble,
         lease' \in [Node -> Run \union {NoRun}], LeasesFit',
         faults' = 0 => /\ faults = 0 /\ lease' = lease
                        /\ \/ Waits(p)
                           \/ unacked \ {mu.tail} # {}
  PROVE  BInv'
<1> USE DEF BInv, agents, journal, budget
<1>2. /\ mu' \in Handler
      /\ mu'.op = mu.op /\ mu'.tail = mu.tail /\ mu'.at = "member"
      /\ mu'.todo = mu.todo \ {p}
  BY SkipEffect
<1>3. Place' = Place /\ ListPending' = ListPending /\ \A q : Member(q)' = Member(q)
  BY PlacesFrame
<1>4. Shape'
  BY <1>2 DEF Shape
<1>5. HandlerFits'
  <2>1. server # "down"
    BY DEF HandlerFits, Idle
  <2> QED
    BY <1>2, <1>3, <2>1 DEF HandlerFits
<1>6. RunsFit' /\ ReceiptsFit'
  BY RunsFrame, ReceiptsUntouched DEF RunsOnly
<1>7. Promised'
  <2> SUFFICES ASSUME faults' = 0, server # "down", NEW q \in ListPending
               PROVE  \/ run[Member(q).run] # "awaiting_confirmation"
                      \/ q \in mu'.todo
                      \/ Waits(q)'
                      \/ unacked \ {mu'.tail} # {}
    BY <1>3 DEF Promised
  <2>1. Waits(q) => Waits(q)'
    BY <1>3 DEF Waits, Busy, Ended
  <2>2. q # p /\ q \in mu.todo => q \in mu'.todo
    BY <1>2
  <2> QED
    BY <1>2, <2>1, <2>2 DEF Promised
<1> QED
  BY <1>4, <1>5, <1>6, <1>7

LEMMA PassMemberKeeps ==
  ASSUME BInv, NEW p \in First, PassMember(p)
  PROVE  BInv'
<1> USE DEF BInv
<1>1. p \in Place
  BY FirstPlace
<1>2. Member(p).digest = "plan"
  BY <1>1, PlaceRow DEF ReceiptsFit, AcceptedAsShown, Member
<1>3. Fault
  BY <1>2 DEF PassMember
<1>4. LeasesFit'
  BY <1>3, Spent, LeasesAfterFault DEF PassMember
<1> QED
  BY <1>3, <1>4, Spent, SkipKeeps DEF PassMember, InFanOut, Shape

LEMMA StartMemberKeeps ==
  ASSUME BInv, NEW p \in First, StartMember(p)
  PROVE  BInv'
<1> USE DEF BInv, StartMember, agents, journal, budget
<1>1. p \in Place /\ Member(p).run \in Run
  BY FirstPlace, PlaceRow
<1>2. /\ mu' \in Handler
      /\ mu'.op = "fanout" /\ mu'.tail = mu.tail /\ mu'.at = "lease" /\ mu'.todo = mu.todo
      /\ mu'.run = Member(p).run
  BY <1>1 DEF Shape, Handler, InFanOut
<1>3. Place' = Place /\ ListPending' = ListPending /\ \A q : Member(q)' = Member(q)
  BY PlacesFrame
<1>4. First' = First
  BY <1>2 DEF First
<1>5. Shape'
  BY <1>2 DEF Shape
<1>6. HandlerFits'
  BY <1>2, <1>3, <1>4 DEF HandlerFits, InFanOut
<1>7. RunsFit' /\ ReceiptsFit' /\ LeasesFit'
  BY RunsFrame, ReceiptsUntouched, LeasesFrame DEF RunsOnly
<1>8. Promised'
  <2>1. \A q : Waits(q)' <=> Waits(q)
    BY <1>3 DEF Waits, Busy, Ended
  <2> QED
    BY <1>2, <1>3, <2>1 DEF Promised
<1> QED
  BY <1>5, <1>6, <1>7, <1>8

LEMMA PassFails ==
  ASSUME BInv, Fault, mu' = Idle, waiting' = waiting \ {mu.tail},
         server' = IF server = "resuming" THEN "down" ELSE server,
         UNCHANGED <<run, lease, receipts, agents, journal>>
  PROVE  BInv'
<1> USE DEF BInv, agents, journal
<1>1. Shape'
  <2>1. server' \in {"up", "resuming", "down"}
    BY DEF Shape
  <2>2. mu' \in Handler
    BY Handlers
  <2> QED
    BY <2>1, <2>2, Spent DEF Shape
<1>2. HandlerFits'
  BY DEF HandlerFits, Idle
<1>3. RunsFit' /\ ReceiptsFit' /\ LeasesFit'
  BY RunsFrame, ReceiptsUntouched, LeasesAfterFault, Spent DEF RunsOnly
<1>4. Promised'
  BY Spent DEF Promised
<1> QED
  BY <1>1, <1>2, <1>3, <1>4

LEMMA FanOutDoneKeeps ==
  ASSUME BInv, FanOutDone
  PROVE  BInv'
<1> USE DEF BInv, FanOutDone, journal, budget
<1>1. Shape'
  <2>1. mu' \in Handler
    BY Handlers
  <2> QED
    BY <2>1 DEF Shape
<1>2. HandlerFits'
  BY DEF HandlerFits, Idle
<1>3. Place' = Place /\ ListPending' = ListPending /\ \A q : Member(q)' = Member(q)
  BY PlacesFrame
<1>4. RunsFit' /\ ReceiptsFit'
  <2>1. RunsFit'
    BY DEF RunsFit, Ended
  <2> QED
    BY <2>1, ReceiptsUntouched DEF RunsOnly
<1>5. LeasesFit'
  <2>1. mu.tail # NoRun => mu.tail \in waiting
    BY TailWaits
  <2>2. ASSUME NEW n \in Node, lease[n] # NoRun, faults = 0, Ended(lease[n])
        PROVE  lease[n] \in unacked' \ waiting'
    <3>1. lease[n] \in unacked \ waiting
      BY <2>2 DEF LeasesFit
    <3> QED
      BY <2>1, <2>2, <3>1
  <2>3. \A n \in Node : lease[n] # NoRun => NodeOf[lease[n]] = n
    BY DEF LeasesFit
  <2>4. \A n \in Node : Ended(lease[n])' <=> Ended(lease[n])
    BY DEF Ended
  <2> QED
    BY <2>2, <2>3, <2>4 DEF LeasesFit
<1>6. Promised'
  <2>1. \A q : Waits(q)' <=> Waits(q)
    BY <1>3 DEF Waits, Busy, Ended
  <2>2. unacked \ {mu.tail} # {} => unacked' \ {mu'.tail} # {}
    BY NoRunAssumption DEF Idle, Shape
  <2>3. server # "down" /\ mu.todo = {}
    BY DEF InFanOut
  <2> QED
    BY <1>3, <2>1, <2>2, <2>3 DEF Promised
<1> QED
  BY <1>1, <1>2, <1>4, <1>5, <1>6


-----------------------------------------------------------------------------
(* Confirming one run.                                                     *)

LEMMA RunConfirmed ==
  ASSUME Shape, HandlerFits, mu.op \in {"confirm", "fanout"}, mu.at \in {"lease", "mark"}
  PROVE  mu.run \in Run
<1>1. CASE mu.op = "confirm"
  BY <1>1 DEF HandlerFits
<1>2. CASE mu.op = "fanout"
  <2>1. PICK p \in First : mu.run = Member(p).run
    BY <1>2 DEF HandlerFits
  <2> QED
    BY <2>1, FirstPlace, PlaceRow
<1> QED
  BY <1>1, <1>2

LEMMA LeaseEnsured ==
  ASSUME Shape, LeasesFit, NEW r \in Run, EnsureLease(r)
  PROVE  /\ lease' \in [Node -> Run \union {NoRun}]
         /\ \A n \in Node : lease'[n] = IF n = NodeOf[r] THEN r ELSE lease[n]
         /\ \A n \in Node : lease'[n] # NoRun => NodeOf[lease'[n]] = n
<1>1. NodeOf[r] \in Node
  BY NodeOfAssumption
<1>2. /\ lease' \in [Node -> Run \union {NoRun}]
      /\ \A n \in Node : lease'[n] = IF n = NodeOf[r] THEN r ELSE lease[n]
  BY <1>1 DEF EnsureLease, Shape
<1> QED
  BY <1>2 DEF LeasesFit

LEMMA ConfirmTurnKeeps ==
  ASSUME BInv, ConfirmTurn
  PROVE  BInv'
<1> USE DEF BInv
<1>0. PICK r : r = mu.run
  OBVIOUS
<1>1. r \in Run /\ At("lease")
  BY <1>0, RunConfirmed DEF ConfirmTurn, At
<1>2. /\ run[r] \in {"awaiting_confirmation", "queued", "acquiring_lock"}
      /\ run' = [run EXCEPT ![r] = Onward(@)]
      /\ begun' = begun \union {r}
      /\ EnsureLease(r)
      /\ UNCHANGED <<receipts, server, contained, unacked, waiting, named, faults, crashes>>
  BY <1>0 DEF ConfirmTurn, agents, budget
<1>3. /\ run' \in [Run -> RunState]
      /\ run'[r] \in {"queued", "acquiring_lock", "executing"}
      /\ \A q \in Run : q # r => run'[q] = run[q]
  <2>1. Onward(run[r]) \in {"queued", "acquiring_lock", "executing"}
    BY <1>2 DEF Onward
  <2> QED
    BY <1>1, <1>2, <2>1 DEF Shape, RunState
<1>4. /\ lease' \in [Node -> Run \union {NoRun}]
      /\ \A n \in Node : lease'[n] = IF n = NodeOf[r] THEN r ELSE lease[n]
      /\ \A n \in Node : lease'[n] # NoRun => NodeOf[lease'[n]] = n
  BY <1>1, <1>2, LeaseEnsured
<1>5. /\ mu' \in Handler
      /\ \/ mu' = mu
         \/ mu.op = "confirm" /\ mu' = Idle
         \/ mu.op = "fanout" /\ mu' = [mu EXCEPT !.at = "mark"]
  <2>1. \/ mu' = mu
        \/ mu.op = "confirm" /\ mu' = Idle
        \/ mu.op = "fanout" /\ mu' = [mu EXCEPT !.at = "mark"]
    BY <1>1 DEF ConfirmTurn, At
  <2>2. Idle \in Handler /\ mu \in Handler
    BY Handlers DEF Shape
  <2>3. [mu EXCEPT !.at = "mark"] \in Handler
    BY <2>2 DEF Handler
  <2> QED
    BY <2>1, <2>2, <2>3
<1>6. Place' = Place /\ ListPending' = ListPending /\ \A q : Member(q)' = Member(q)
  BY <1>2, PlacesFrame
<1>7. Shape'
  BY <1>1, <1>2, <1>3, <1>4, <1>5 DEF Shape
<1>8. ReceiptsFit'
  BY <1>2, <1>3, ReceiptsUntouched DEF RunsOnly
<1>9. HandlerFits'
  <2>1. CASE mu' = mu
    <3>1. First' = First
      BY <2>1 DEF First
    <3> QED
      BY <1>2, <1>6, <2>1, <3>1 DEF HandlerFits
  <2>2. CASE mu' = Idle
    BY <2>2 DEF HandlerFits, Idle
  <2>3. CASE mu.op = "fanout" /\ mu' = [mu EXCEPT !.at = "mark"]
    <3>1. /\ mu'.op = "fanout" /\ mu'.at = "mark" /\ mu'.run = mu.run /\ mu'.todo = mu.todo
          /\ mu'.tail = mu.tail
      BY <2>3 DEF Shape, Handler
    <3>2. First' = First
      BY <3>1 DEF First
    <3>3. server # "down"
      BY <1>1 DEF At
    <3> QED
      BY <1>0, <1>1, <1>2, <1>6, <2>3, <3>1, <3>2, <3>3 DEF HandlerFits, At
  <2> QED
    BY <1>5, <2>1, <2>2, <2>3
<1>10. ~Ended(r) /\ ~Ended(r)' /\ \A q \in Run : q # r => (Ended(q)' <=> Ended(q))
  BY <1>1, <1>2, <1>3 DEF Ended
<1>11. RunsFit'
  <2>1. \A q \in unacked : q \in Run /\ q # r /\ Ended(q)
    BY <1>10 DEF RunsFit, Shape
  <2>2. \A q \in contained : q \in Run /\ q # r /\ run[q] = "canceled_before_apply"
    BY <1>2 DEF RunsFit, Shape
  <2> QED
    BY <1>2, <1>3, <1>10, <2>1, <2>2 DEF RunsFit
<1>12. LeasesFit'
  <2>1. ASSUME NEW n \in Node, NEW h, h = lease'[n], h # NoRun, faults = 0, Ended(h)'
        PROVE  h \in unacked \ waiting
    <3>1. h # r
      BY <1>10, <2>1
    <3>2. h = lease[n] /\ h \in Run
      BY <1>4, <2>1, <3>1 DEF Shape
    <3>3. Ended(h)
      BY <1>10, <2>1, <3>1, <3>2
    <3> QED
      BY <2>1, <3>2, <3>3 DEF LeasesFit
  <2> QED
    BY <1>2, <1>4, <2>1 DEF LeasesFit
<1>13. Promised'
  <2> SUFFICES ASSUME faults = 0, server # "down", NEW q \in ListPending,
                      run'[Member(q).run] = "awaiting_confirmation"
               PROVE  \/ q \in mu'.todo
                      \/ Waits(q)'
                      \/ unacked \ {mu'.tail} # {}
    BY <1>2, <1>6 DEF Promised
  <2>1. Member(q).run \in Run /\ NodeOf[Member(q).run] \in Node
    BY PendingRun
  <2>2. Member(q).run # r /\ run[Member(q).run] = "awaiting_confirmation"
    BY <1>3, <2>1
  <2>3. q \in mu.todo => q \in mu'.todo
    BY <1>5 DEF HandlerFits, Shape, Handler
  <2>4. unacked \ {mu.tail} # {} => unacked \ {mu'.tail} # {}
    BY <1>5 DEF HandlerFits, Shape, Handler, Idle
  <2>5. ASSUME Waits(q)
        PROVE  Waits(q)'
    <3>1. PICK n : n = NodeOf[Member(q).run]
      OBVIOUS
    <3>2. PICK h : h = lease[n]
      OBVIOUS
    <3>3. n \in Node /\ h \in Run /\ h # Member(q).run /\ ~Ended(h)
      BY <2>1, <2>5, <3>1, <3>2 DEF Waits, Busy, Shape
    <3>4. lease'[n] = h
      BY <1>2, <1>4, <3>2, <3>3, NoRunAssumption DEF EnsureLease
    <3>5. ~Ended(h)'
      BY <1>10, <3>3
    <3> QED
      BY <1>6, <3>1, <3>3, <3>4, <3>5, NoRunAssumption DEF Waits, Busy
  <2> QED
    BY <2>2, <2>3, <2>4, <2>5 DEF Promised
<1> QED
  BY <1>7, <1>8, <1>9, <1>11, <1>12, <1>13

\* A confirmation by name ends, whether a lease was taken or not.
LEMMA GivingUpKeeps ==
  ASSUME BInv, mu.op = "confirm", mu' = Idle,
         UNCHANGED <<run, receipts, server, agents, waiting, journal>>,
         faults' \in Nat /\ crashes' \in Nat /\ faults' + crashes' <= MaxTrouble,
         lease' \in [Node -> Run \union {NoRun}], LeasesFit',
         faults' = 0 => faults = 0 /\ lease' = lease
  PROVE  BInv'
<1> USE DEF BInv, agents, journal
<1>1. Shape'
  BY Handlers DEF Shape
<1>2. HandlerFits'
  BY DEF HandlerFits, Idle
<1>3. RunsFit' /\ ReceiptsFit'
  BY RunsFrame, ReceiptsUntouched DEF RunsOnly
<1>4. Place' = Place /\ ListPending' = ListPending /\ \A q : Member(q)' = Member(q)
  BY PlacesFrame
<1>5. Promised'
  <2>1. lease' = lease => \A q : Waits(q)' <=> Waits(q)
    BY <1>4 DEF Waits, Busy, Ended
  <2>2. mu.todo = {} /\ mu.tail = mu'.tail
    BY DEF HandlerFits, Idle
  <2> QED
    BY <1>4, <2>1, <2>2 DEF Promised
<1> QED
  BY <1>1, <1>2, <1>3, <1>5

LEMMA ConfirmBusyKeeps ==
  ASSUME BInv, ConfirmBusy
  PROVE  BInv'
<1> USE DEF BInv
<1>1. At("lease") /\ Busy(mu.run) /\ UNCHANGED <<run, lease, receipts, server, agents, waiting, journal, budget>>
  BY DEF ConfirmBusy
<1>2. LeasesFit'
  BY <1>1, LeasesFrame DEF agents, budget
<1>3. /\ faults' \in Nat /\ crashes' \in Nat /\ faults' + crashes' <= MaxTrouble
      /\ faults' = faults /\ lease' \in [Node -> Run \union {NoRun}]
  BY <1>1 DEF Shape, budget
<1>4. CASE mu.op = "confirm"
  <2>1. mu' = Idle
    BY <1>4 DEF ConfirmBusy
  <2> QED
    BY <1>1, <1>2, <1>3, <1>4, <2>1, GivingUpKeeps
<1>5. CASE mu.op = "fanout"
  <2>1. PICK p \in First : Skip(p)
    BY <1>5 DEF ConfirmBusy
  <2>2. PICK q \in First : mu.run = Member(q).run
    BY <1>1, <1>5 DEF HandlerFits, At
  <2>3. mu.run = Member(p).run
    BY <2>1, <2>2, OneFirst
  <2>4. PICK h : h = lease[NodeOf[mu.run]]
    OBVIOUS
  <2>5. h \in Run /\ NodeOf[mu.run] \in Node /\ h # NoRun
    BY <1>1, <1>5, <2>4, RunConfirmed, NodeOfAssumption DEF Shape, Busy, At
  <2>6. faults = 0 => Waits(p) \/ unacked \ {mu.tail} # {}
    <3>1. CASE ~Ended(h)
      BY <1>1, <2>3, <2>4, <3>1 DEF Waits
    <3>2. CASE Ended(h) /\ faults = 0
      <4>1. h \in unacked \ waiting
        BY <2>4, <2>5, <3>2 DEF LeasesFit
      <4>2. h # mu.tail
        BY <2>5, <4>1, TailWaits
      <4> QED
        BY <4>1, <4>2
    <3> QED
      BY <3>1, <3>2
  <2> QED
    BY <1>1, <1>2, <1>3, <1>5, <2>1, <2>6, SkipKeeps
<1> QED
  BY <1>1, <1>4, <1>5 DEF At

LEMMA ConfirmFailsKeeps ==
  ASSUME BInv, ConfirmFails
  PROVE  BInv'
<1> USE DEF BInv
<1>1. /\ At("lease") /\ Fault /\ (UNCHANGED lease \/ EnsureLease(mu.run))
      /\ UNCHANGED <<run, receipts, server, agents, waiting, journal>>
  BY DEF ConfirmFails
<1>2. mu.run \in Run
  BY <1>1, RunConfirmed DEF At
<1>3. /\ faults' \in Nat /\ crashes' \in Nat /\ faults' + crashes' <= MaxTrouble /\ faults' # 0
  BY <1>1, Spent
<1>4. lease' \in [Node -> Run \union {NoRun}] /\ LeasesFit'
  <2>1. CASE UNCHANGED lease
    BY <1>3, <2>1, LeasesAfterFault DEF Shape
  <2>2. CASE EnsureLease(mu.run)
    BY <1>2, <1>3, <2>2, LeaseEnsured DEF LeasesFit
  <2> QED
    BY <1>1, <2>1, <2>2
<1>5. CASE mu.op = "confirm"
  <2>1. mu' = Idle
    BY <1>5 DEF ConfirmFails
  <2> QED
    BY <1>1, <1>3, <1>4, <1>5, <2>1, GivingUpKeeps
<1>6. CASE mu.op = "fanout"
  <2>1. PICK p \in First : Skip(p)
    BY <1>6 DEF ConfirmFails
  <2> QED
    BY <1>1, <1>3, <1>4, <1>6, <2>1, SkipKeeps
<1> QED
  BY <1>1, <1>5, <1>6 DEF At


-----------------------------------------------------------------------------
(* Nobody is inside confirmationMu, and a fan-out of everything begins.    *)

LEMMA Rests ==
  ASSUME Free
  PROVE  /\ server = "up" /\ mu = Idle /\ mu.op = "none"
         /\ mu.todo = {} /\ mu.tail = NoRun
BY DEF Free, Idle

LEMMA FanOutBegins ==
  ASSUME Shape, receipts' = receipts, NEW t \in Run \union {NoRun},
         mu' = FanOut(ListPending, t), t # NoRun => t \in waiting', server' # "down"
  PROVE  mu' \in Handler /\ HandlerFits' /\ Promised'
<1>1. Place' = Place /\ ListPending' = ListPending
  BY PlacesFrame
<1>2. ListPending \subseteq Nat \X Nat
  BY PendingPairs
<1>3. mu' \in Handler
  BY <1>2, Handlers
<1>4. mu'.op = "fanout" /\ mu'.at = "member" /\ mu'.todo = ListPending /\ mu'.tail = t
  BY DEF FanOut
<1>5. HandlerFits'
  BY <1>1, <1>4 DEF HandlerFits
<1>6. Promised'
  BY <1>1, <1>4 DEF Promised
<1> QED
  BY <1>3, <1>5, <1>6

LEMMA ResumeAfterKeeps ==
  ASSUME BInv, NEW r \in Run, ResumeAfter(r)
  PROVE  BInv'
<1> USE DEF BInv, ResumeAfter, agents, journal, budget
<1>1. server' # "down"
  BY Rests
<1>2. mu' \in Handler /\ HandlerFits' /\ Promised'
  BY <1>1, FanOutBegins
<1>3. RunsFit' /\ ReceiptsFit' /\ LeasesFit'
  BY RunsFrame, ReceiptsUntouched, LeasesFrame DEF RunsOnly
<1> QED
  BY <1>2, <1>3 DEF Shape

-----------------------------------------------------------------------------
(* Cancellation.                                                           *)

\* The states after a run that is not over is canceled.
LEMMA Canceled ==
  ASSUME Shape, ReceiptsFit, RunsFit, NEW r \in Run, run[r] # "terminal",
         run' = [run EXCEPT ![r] = "canceled_before_apply"],
         contained' \subseteq contained \union {r},
         contained \subseteq contained', r \in unacked => contained' = contained,
         UNCHANGED <<receipts, unacked, begun>>
  PROVE  /\ run' \in [Run -> RunState] /\ run'[r] = "canceled_before_apply"
         /\ \A q \in Run : q # r => run'[q] = run[q]
         /\ ReceiptsFit' /\ RunsFit'
<1>1. /\ run' \in [Run -> RunState] /\ run'[r] = "canceled_before_apply"
      /\ \A q \in Run : q # r => run'[q] = run[q]
  BY DEF Shape, RunState
<1>2. ReceiptsFit'
  BY <1>1, ReceiptsUntouched DEF RunsOnly
<1>3. \A q \in unacked : Ended(q)'
  <2> SUFFICES ASSUME NEW q \in unacked
               PROVE  Ended(q)'
    OBVIOUS
  <2>1. q \in Run /\ Ended(q)
    BY DEF Shape, RunsFit
  <2>2. CASE q = r
    BY <1>1, <2>1, <2>2 DEF Ended
  <2>3. CASE q # r
    BY <1>1, <2>1, <2>3 DEF Ended
  <2> QED
    BY <2>2, <2>3
<1>4. \A q \in contained' : run'[q] = "canceled_before_apply"
  BY <1>1 DEF RunsFit, Shape
<1>5. \A q \in Run : run'[q] \in operationRunWasConfirmed => q \in begun
  BY <1>1 DEF RunsFit, operationRunWasConfirmed
<1> QED
  BY <1>1, <1>2, <1>3, <1>4, <1>5 DEF RunsFit

LEMMA GivenBack ==
  ASSUME Shape, LeasesFit, NEW r \in Run, GiveBack(r)
  PROVE  /\ lease' \in [Node -> Run \union {NoRun}]
         /\ \A n \in Node : lease'[n] = IF lease[n] = r THEN NoRun ELSE lease[n]
<1>1. NodeOf[r] \in Node
  BY NodeOfAssumption
<1>2. /\ lease' \in [Node -> Run \union {NoRun}]
      /\ \A n \in Node : lease'[n] = IF n = NodeOf[r] /\ lease[n] = r THEN NoRun ELSE lease[n]
  BY <1>1 DEF GiveBack, Shape
<1>3. \A n \in Node : lease[n] = r => n = NodeOf[r]
  BY NoRunAssumption DEF LeasesFit
<1> QED
  BY <1>2, <1>3

LEMMA CancelOperationRunKeeps ==
  ASSUME BInv, NEW r \in Run, CancelOperationRun(r)
  PROVE  BInv'
<1> USE DEF BInv
<1>1. /\ Free /\ run[r] # "terminal" /\ run[r] # "executing"
      /\ run' = [run EXCEPT ![r] = "canceled_before_apply"]
      /\ IF r \in contained THEN EnsureLease(r) ELSE GiveBack(r)
      /\ mu' = FanOut(ListPending, NoRun)
      /\ UNCHANGED <<receipts, server, contained, unacked, waiting, named, begun, faults, crashes>>
  BY DEF CancelOperationRun, agents, journal, budget
<1>2. /\ run' \in [Run -> RunState] /\ run'[r] = "canceled_before_apply"
      /\ \A q \in Run : q # r => run'[q] = run[q]
      /\ ReceiptsFit' /\ RunsFit'
  BY <1>1, Canceled
<1>3. mu' \in Handler /\ HandlerFits' /\ Promised'
  BY <1>1, FanOutBegins, Rests
<1>4. lease' \in [Node -> Run \union {NoRun}] /\ LeasesFit'
  <2>1. CASE r \in contained
    <3>1. EnsureLease(r)
      BY <1>1, <2>1
    <3>2. /\ lease' \in [Node -> Run \union {NoRun}]
          /\ \A n \in Node : lease'[n] = IF n = NodeOf[r] THEN r ELSE lease[n]
          /\ \A n \in Node : lease'[n] # NoRun => NodeOf[lease'[n]] = n
      BY <3>1, LeaseEnsured
    <3>3. ~Ended(r)' /\ \A q \in Run : q # r => (Ended(q)' <=> Ended(q))
      BY <1>1, <1>2, <2>1 DEF Ended
    <3>4. ASSUME NEW n \in Node, NEW h, h = lease'[n], h # NoRun, faults = 0, Ended(h)'
          PROVE  h \in unacked \ waiting
      <4>1. h # r
        BY <3>3, <3>4
      <4>2. h = lease[n] /\ h \in Run
        BY <3>2, <3>4, <4>1 DEF Shape
      <4>3. Ended(h)
        BY <3>3, <3>4, <4>1, <4>2
      <4> QED
        BY <3>4, <4>2, <4>3 DEF LeasesFit
    <3> QED
      BY <1>1, <3>2, <3>4 DEF LeasesFit
  <2>2. CASE r \notin contained
    <3>1. GiveBack(r)
      BY <1>1, <2>2
    <3>2. /\ lease' \in [Node -> Run \union {NoRun}]
          /\ \A n \in Node : lease'[n] = IF lease[n] = r THEN NoRun ELSE lease[n]
      BY <3>1, GivenBack
    <3>3. \A q \in Run : q # r => (Ended(q)' <=> Ended(q))
      BY <1>1, <1>2 DEF Ended
    <3>4. ASSUME NEW n \in Node, NEW h, h = lease'[n], h # NoRun
          PROVE  NodeOf[h] = n /\ (faults = 0 /\ Ended(h)' => h \in unacked \ waiting)
      <4>1. h = lease[n] /\ h # r /\ h \in Run
        BY <3>2, <3>4 DEF Shape
      <4>2. Ended(h)' <=> Ended(h)
        BY <3>3, <4>1
      <4> QED
        BY <3>4, <4>1, <4>2 DEF LeasesFit
    <3> QED
      BY <1>1, <3>2, <3>4 DEF LeasesFit
  <2> QED
    BY <2>1, <2>2
<1>5. Shape'
  BY <1>1, <1>2, <1>3, <1>4 DEF Shape
<1> QED
  BY <1>2, <1>3, <1>4, <1>5

LEMMA CancelExecutingKeeps ==
  ASSUME BInv, NEW r \in Run, CancelExecuting(r)
  PROVE  BInv'
<1> USE DEF BInv
<1>1. /\ Free /\ run[r] = "executing"
      /\ run' = [run EXCEPT ![r] = "canceled_before_apply"]
      /\ contained' = contained \union {r}
      /\ mu' = FanOut(ListPending, NoRun)
      /\ UNCHANGED <<lease, receipts, server, unacked, waiting, named, begun, faults, crashes>>
  BY DEF CancelExecuting, journal, budget
<1>2. r \notin unacked
  BY <1>1 DEF RunsFit, Ended
<1>3. /\ run' \in [Run -> RunState] /\ run'[r] = "canceled_before_apply"
      /\ \A q \in Run : q # r => run'[q] = run[q]
      /\ ReceiptsFit' /\ RunsFit'
  BY <1>1, <1>2, Canceled
<1>4. mu' \in Handler /\ HandlerFits' /\ Promised'
  BY <1>1, FanOutBegins, Rests
<1>5. ~Ended(r)' /\ \A q \in Run : q # r => (Ended(q)' <=> Ended(q))
  BY <1>1, <1>3 DEF Ended
<1>6. LeasesFit'
  <2>1. ASSUME NEW n \in Node, NEW h, h = lease[n], h # NoRun, faults = 0, Ended(h)'
        PROVE  h \in unacked \ waiting
    <3>1. h # r /\ h \in Run
      BY <1>5, <2>1 DEF Shape
    <3>2. Ended(h)
      BY <1>5, <2>1, <3>1
    <3> QED
      BY <2>1, <3>2 DEF LeasesFit
  <2> QED
    BY <1>1, <2>1 DEF LeasesFit
<1>7. Shape'
  BY <1>1, <1>3, <1>4 DEF Shape
<1> QED
  BY <1>3, <1>4, <1>6, <1>7

LEMMA CancelKeepsLeaseKeeps ==
  ASSUME BInv, NEW r \in Run, CancelKeepsLease(r)
  PROVE  BInv'
<1> USE DEF BInv
<1>1. /\ Free /\ run[r] # "terminal" /\ Fault
      /\ run' = [run EXCEPT ![r] = "canceled_before_apply"]
      /\ UNCHANGED <<lease, receipts, server, mu, contained, unacked, waiting, named, begun>>
  BY DEF CancelKeepsLease, agents, journal
<1>2. run' \in [Run -> RunState] /\ ReceiptsFit' /\ RunsFit'
  BY <1>1, Canceled
<1>3. /\ faults' \in Nat /\ crashes' \in Nat /\ faults' + crashes' <= MaxTrouble /\ faults' # 0
  BY <1>1, Spent
<1>4. LeasesFit' /\ Promised'
  BY <1>1, <1>3, LeasesAfterFault DEF Promised
<1>5. HandlerFits'
  <2>1. mu' = Idle /\ mu'.op = "none" /\ server' = "up"
    BY <1>1, Rests
  <2> QED
    BY <2>1 DEF HandlerFits, Idle
<1>6. Shape'
  BY <1>1, <1>2, <1>3 DEF Shape
<1> QED
  BY <1>2, <1>4, <1>5, <1>6


-----------------------------------------------------------------------------
(* Runs end, leases are given back or run out.                             *)

LEMMA RunEndsKeeps ==
  ASSUME BInv, NEW r \in Run, RunEnds(r)
  PROVE  BInv'
<1> USE DEF BInv
<1>1. /\ server = "up" /\ (run[r] = "executing" \/ r \in contained)
      /\ run' = [run EXCEPT ![r] = IF @ = "executing" THEN "terminal" ELSE @]
      /\ contained' = contained \ {r} /\ unacked' = unacked \union {r}
      /\ UNCHANGED <<lease, receipts, server, mu, waiting, named, begun, faults, crashes>>
  BY DEF RunEnds, journal, budget
<1>2. /\ run' \in [Run -> RunState]
      /\ run'[r] = IF run[r] = "executing" THEN "terminal" ELSE run[r]
      /\ \A q \in Run : q # r => run'[q] = run[q]
  BY <1>1 DEF Shape, RunState
<1>3. ~Ended(r) /\ Ended(r)' /\ \A q \in Run : q # r => (Ended(q)' <=> Ended(q))
  BY <1>1, <1>2 DEF RunsFit, Ended
<1>4. r \notin unacked /\ r \notin waiting
  BY <1>3 DEF RunsFit, Shape
<1>5. Shape'
  BY <1>1, <1>2 DEF Shape
<1>6. ReceiptsFit'
  BY <1>1, <1>2, ReceiptsUntouched DEF RunsOnly
<1>7. Place' = Place /\ ListPending' = ListPending /\ \A q : Member(q)' = Member(q)
  BY <1>1, PlacesFrame
<1>8. HandlerFits'
  <2>1. First' = First
    BY <1>1 DEF First
  <2> QED
    BY <1>1, <1>7, <2>1 DEF HandlerFits
<1>9. RunsFit'
  <2>1. \A q \in Run : run'[q] \in operationRunWasConfirmed => q \in begun
    BY <1>2 DEF RunsFit, operationRunWasConfirmed
  <2>2. \A q \in unacked' : Ended(q)'
    BY <1>1, <1>3 DEF RunsFit, Shape
  <2>3. \A q \in contained' : run'[q] = "canceled_before_apply"
    BY <1>1, <1>2 DEF RunsFit, Shape
  <2> QED
    BY <1>1, <2>1, <2>2, <2>3 DEF RunsFit
<1>10. LeasesFit'
  <2>1. ASSUME NEW n \in Node, NEW h, h = lease[n], h # NoRun, faults = 0, Ended(h)'
        PROVE  h \in unacked' \ waiting
    <3>1. CASE h = r
      BY <1>1, <1>4, <3>1
    <3>2. CASE h # r
      <4>1. h \in Run /\ Ended(h)
        BY <1>3, <2>1, <3>2 DEF Shape
      <4> QED
        BY <1>1, <2>1, <4>1 DEF LeasesFit
    <3> QED
      BY <3>1, <3>2
  <2> QED
    BY <1>1, <2>1 DEF LeasesFit
<1>11. Promised'
  <2>1. r # mu.tail
    BY <1>4, TailWaits, NoRunAssumption
  <2>2. r \in unacked' \ {mu'.tail}
    BY <1>1, <2>1
  <2> QED
    BY <2>2 DEF Promised
<1> QED
  BY <1>5, <1>6, <1>8, <1>9, <1>10, <1>11

LEMMA ContinueOperationRunKeeps ==
  ASSUME BInv, NEW r \in Run, ContinueOperationRun(r)
  PROVE  BInv'
<1> USE DEF BInv
<1>1. /\ r \in unacked \ waiting /\ GiveBack(r) /\ waiting' = waiting \union {r}
      /\ UNCHANGED <<run, receipts, server, mu, contained, unacked, named, begun, faults, crashes>>
  BY DEF ContinueOperationRun, agents, journal, budget
<1>2. /\ lease' \in [Node -> Run \union {NoRun}]
      /\ \A n \in Node : lease'[n] = IF lease[n] = r THEN NoRun ELSE lease[n]
  BY <1>1, GivenBack
<1>3. Ended(r) /\ \A q \in Run : Ended(q)' <=> Ended(q)
  BY <1>1 DEF RunsFit, Ended
<1>4. Shape'
  BY <1>1, <1>2 DEF Shape
<1>5. ReceiptsFit' /\ RunsFit'
  BY <1>1, ReceiptsUntouched, RunsFrame DEF RunsOnly
<1>6. Place' = Place /\ ListPending' = ListPending /\ \A q : Member(q)' = Member(q)
  BY <1>1, PlacesFrame
<1>7. HandlerFits'
  <2>1. First' = First
    BY <1>1 DEF First
  <2> QED
    BY <1>1, <1>6, <2>1 DEF HandlerFits
<1>8. LeasesFit'
  <2>1. ASSUME NEW n \in Node, NEW h, h = lease'[n], h # NoRun
        PROVE  NodeOf[h] = n /\ (faults = 0 /\ Ended(h)' => h \in unacked \ waiting')
    <3>1. h = lease[n] /\ h # r /\ h \in Run
      BY <1>2, <2>1 DEF Shape
    <3>2. Ended(h)' <=> Ended(h)
      BY <1>3, <3>1
    <3> QED
      BY <1>1, <2>1, <3>1, <3>2 DEF LeasesFit
  <2> QED
    BY <1>1, <2>1 DEF LeasesFit
<1>9. Promised'
  <2>1. ASSUME NEW q \in ListPending, Waits(q)
        PROVE  Waits(q)'
    <3>1. Member(q).run \in Run /\ NodeOf[Member(q).run] \in Node
      BY PendingRun
    <3>2. PICK n, h : n = NodeOf[Member(q).run] /\ h = lease[n]
      OBVIOUS
    <3>3. n \in Node /\ h \in Run /\ h # Member(q).run /\ ~Ended(h)
      BY <2>1, <3>1, <3>2 DEF Waits, Busy, Shape
    <3>4. lease'[n] = h /\ ~Ended(h)'
      BY <1>2, <1>3, <3>2, <3>3
    <3> QED
      BY <1>6, <3>2, <3>3, <3>4, NoRunAssumption DEF Waits, Busy
  <2> QED
    BY <1>1, <1>6, <2>1 DEF Promised
<1> QED
  BY <1>4, <1>5, <1>7, <1>8, <1>9

LEMMA ExpireKeeps ==
  ASSUME BInv, NEW n \in Node, Expire(n)
  PROVE  BInv'
<1> USE DEF BInv
<1>1. /\ Fault /\ lease' = [lease EXCEPT ![n] = NoRun]
      /\ UNCHANGED <<run, receipts, server, mu, contained, unacked, waiting, named, begun>>
  BY DEF Expire, agents, journal
<1>2. /\ lease' \in [Node -> Run \union {NoRun}]
      /\ \A k \in Node : lease'[k] # NoRun => lease'[k] = lease[k]
  BY <1>1 DEF Shape
<1>3. /\ faults' \in Nat /\ crashes' \in Nat /\ faults' + crashes' <= MaxTrouble /\ faults' # 0
  BY <1>1, Spent
<1>4. Shape'
  BY <1>1, <1>2, <1>3 DEF Shape
<1>5. ReceiptsFit' /\ RunsFit'
  BY <1>1, ReceiptsUntouched, RunsFrame DEF RunsOnly
<1>6. HandlerFits'
  <2>1. First' = First
    BY <1>1 DEF First
  <2> QED
    BY <1>1, <2>1, PlacesFrame DEF HandlerFits
<1>7. LeasesFit' /\ Promised'
  BY <1>1, <1>2, <1>3 DEF LeasesFit, Promised
<1> QED
  BY <1>4, <1>5, <1>6, <1>7

-----------------------------------------------------------------------------
(* The Server stops and is started.                                        *)

LEMMA CrashKeeps ==
  ASSUME BInv, Crash
  PROVE  BInv'
<1> USE DEF BInv
<1>1. /\ FaultLeft /\ crashes' = crashes + 1
      /\ server' = "down" /\ mu' = Idle /\ waiting' = {}
      /\ UNCHANGED <<run, lease, receipts, contained, unacked, named, begun, faults>>
  BY DEF Crash, agents, journal
<1>2. Shape'
  <2>1. mu' \in Handler
    BY <1>1, Handlers
  <2>2. crashes' \in Nat /\ faults' \in Nat /\ faults' + crashes' <= MaxTrouble
    BY <1>1, BoundsAssumption DEF Shape, FaultLeft
  <2> QED
    BY <1>1, <2>1, <2>2 DEF Shape
<1>3. ReceiptsFit' /\ RunsFit'
  BY <1>1, ReceiptsUntouched, RunsFrame DEF RunsOnly
<1>4. HandlerFits' /\ Promised'
  BY <1>1 DEF HandlerFits, Idle, Promised
<1>5. LeasesFit'
  BY <1>1 DEF LeasesFit, Ended
<1> QED
  BY <1>2, <1>3, <1>4, <1>5

LEMMA StartKeeps ==
  ASSUME BInv, Start
  PROVE  BInv'
<1> USE DEF BInv
<1>1. /\ server = "down" /\ server' = "resuming" /\ mu' = FanOut(ListPending, NoRun)
      /\ run' = [r \in Run |-> IF r \in Interim THEN Onward(run[r]) ELSE run[r]]
      /\ lease' = [n \in Node |->
           IF \E r \in Interim : NodeOf[r] = n
           THEN CHOOSE r \in Interim : NodeOf[r] = n
           ELSE IF lease[n] # NoRun /\ Ended(lease[n]) THEN NoRun ELSE lease[n]]
      /\ UNCHANGED <<receipts, contained, unacked, waiting, named, begun, faults, crashes>>
  BY DEF Start, agents, journal, budget
<1>2. \A r \in Run : r \in Interim <=> run[r] \in {"queued", "acquiring_lock"}
  BY DEF Interim
<1>3. /\ run' \in [Run -> RunState]
      /\ \A r \in Interim : run'[r] \in {"acquiring_lock", "executing"}
      /\ \A r \in Run \ Interim : run'[r] = run[r]
  <2>1. ASSUME NEW r \in Run
        PROVE  /\ run'[r] \in RunState
               /\ r \in Interim => run'[r] \in {"acquiring_lock", "executing"}
               /\ r \notin Interim => run'[r] = run[r]
    <3>1. CASE r \in Interim
      <4>1. Onward(run[r]) \in {"acquiring_lock", "executing"}
        BY <1>2, <3>1 DEF Onward
      <4> QED
        BY <1>1, <3>1, <4>1 DEF RunState
    <3>2. CASE r \notin Interim
      BY <1>1, <3>2 DEF Shape
    <3> QED
      BY <3>1, <3>2
  <2>2. run' = [r \in Run |-> run'[r]] /\ Interim \subseteq Run
    BY <1>1 DEF Interim
  <2> QED
    BY <2>1, <2>2
<1>4. \A q \in Run : Ended(q)' <=> Ended(q)
  BY <1>1, <1>2, <1>3 DEF Ended
<1>5. ASSUME NEW n \in Node, NEW h, h = lease'[n]
      PROVE  \/ h = NoRun
             \/ h \in Run /\ NodeOf[h] = n /\ ~Ended(h)'
  <2>1. CASE \E r \in Interim : NodeOf[r] = n
    <3>1. h \in Interim /\ NodeOf[h] = n
      BY <1>1, <1>5, <2>1
    <3>2. h \in Run /\ ~Ended(h)
      BY <3>1 DEF Interim, Ended
    <3> QED
      BY <1>4, <3>1, <3>2
  <2>2. CASE ~(\E r \in Interim : NodeOf[r] = n)
    <3>1. h = IF lease[n] # NoRun /\ Ended(lease[n]) THEN NoRun ELSE lease[n]
      BY <1>1, <1>5, <2>2
    <3>2. CASE h # NoRun
      <4>1. h = lease[n] /\ ~Ended(h)
        BY <3>1, <3>2
      <4>2. h \in Run /\ NodeOf[h] = n
        BY <3>2, <4>1 DEF Shape, LeasesFit
      <4> QED
        BY <1>4, <4>1, <4>2
    <3> QED
      BY <3>2
  <2> QED
    BY <2>1, <2>2
<1>6. lease' \in [Node -> Run \union {NoRun}] /\ LeasesFit'
  <2>1. lease' = [n \in Node |-> lease'[n]]
    BY <1>1
  <2>2. lease' \in [Node -> Run \union {NoRun}]
    BY <1>5, <2>1
  <2> QED
    BY <1>5, <2>2 DEF LeasesFit
<1>7. mu' \in Handler /\ HandlerFits' /\ Promised'
  BY <1>1, FanOutBegins
<1>8. ReceiptsFit'
  BY <1>1, <1>2, <1>3, ReceiptsUntouched DEF RunsOnly
<1>9. RunsFit'
  <2>1. \A q \in Run : run'[q] \in operationRunWasConfirmed => q \in begun
    BY <1>2, <1>3 DEF RunsFit, operationRunWasConfirmed
  <2>2. \A q \in unacked : Ended(q)'
    BY <1>4 DEF RunsFit, Shape
  <2>3. \A q \in contained : run'[q] = "canceled_before_apply"
    BY <1>2, <1>3 DEF RunsFit, Shape
  <2> QED
    BY <1>1, <2>1, <2>2, <2>3 DEF RunsFit
<1>10. Shape'
  BY <1>1, <1>3, <1>6, <1>7 DEF Shape
<1> QED
  BY <1>6, <1>7, <1>8, <1>9, <1>10

-----------------------------------------------------------------------------
(* What clients ask for.                                                   *)

\* The handler changes from idle to something whose places are pending.
LEMMA RequestKeeps ==
  ASSUME BInv, Free, mu' \in Handler, HandlerFits', mu'.tail = NoRun,
         named' \in 0 .. MaxByName,
         UNCHANGED <<run, lease, receipts, server, agents, waiting, begun, budget>>
  PROVE  BInv'
<1> USE DEF BInv, agents, budget
<1>1. Shape'
  BY DEF Shape
<1>2. RunsFit' /\ ReceiptsFit' /\ LeasesFit'
  BY RunsFrame, ReceiptsUntouched, LeasesFrame DEF RunsOnly
<1>3. Place' = Place /\ ListPending' = ListPending /\ \A q : Member(q)' = Member(q)
  BY PlacesFrame
<1>4. Promised'
  <2>1. \A q : Waits(q)' <=> Waits(q)
    BY <1>3 DEF Waits, Busy, Ended
  <2>2. mu.todo = {} /\ mu.tail = NoRun
    BY Rests
  <2> QED
    BY <1>3, <2>1, <2>2 DEF Promised
<1> QED
  BY <1>1, <1>2, <1>4

LEMMA ConfirmOperationRunKeeps ==
  ASSUME BInv, NEW r \in Run, ConfirmOperationRun(r)
  PROVE  BInv'
<1>1. mu' = Confirming(r) /\ server' = "up"
  BY Rests DEF ConfirmOperationRun
<1>2. mu' \in Handler
  BY <1>1, Handlers
<1>3. HandlerFits' /\ mu'.tail = NoRun
  BY <1>1 DEF HandlerFits, Confirming
<1>4. named' \in 0 .. MaxByName
  BY BoundsAssumption DEF ConfirmOperationRun, BInv, Shape
<1> QED
  BY <1>2, <1>3, <1>4, RequestKeeps DEF ConfirmOperationRun

LEMMA ConfirmBatchAgainKeeps ==
  ASSUME BInv, NEW q \in Request, ConfirmBatchAgain(q)
  PROVE  BInv'
<1>1. PICK n \in GetByKey(q.key) : mu' = FanOut(PendingOf(n), NoRun)
  BY DEF ConfirmBatchAgain
<1>2. PendingOf(n) \subseteq ListPending
  BY DEF ListPending, GetByKey
<1>3. mu' \in Handler
  BY <1>1, <1>2, PendingPairs, Handlers DEF BInv
<1>4. receipts' = receipts /\ server' = "up" /\ ListPending' = ListPending
  BY Rests, PlacesFrame DEF ConfirmBatchAgain
<1>5. HandlerFits' /\ mu'.tail = NoRun
  BY <1>1, <1>2, <1>4 DEF HandlerFits, FanOut
<1>6. named' \in 0 .. MaxByName
  BY DEF ConfirmBatchAgain, BInv, Shape, journal
<1> QED
  BY <1>3, <1>5, <1>6, RequestKeeps DEF ConfirmBatchAgain, journal

LEMMA AcceptKeeps ==
  ASSUME BInv, NEW q \in Request, AcceptBatch(q) \/ AcceptUnread(q)
  PROVE  BInv'
<1> USE DEF BInv
<1>1. /\ Free /\ preflightOperationBatch(q) /\ Insertable(q)
      /\ receipts' = Append(receipts, NormalReceipt(q))
      /\ UNCHANGED <<run, lease, server, contained, unacked, waiting, named, begun>>
  BY DEF AcceptBatch, AcceptUnread, agents, journal
<1>2. /\ ReceiptsFit'
      /\ receipts' \in Seq(Receipt)
      /\ ListPending' = ListPending \union NewPlaces(q)
      /\ NewPlaces(q) \subseteq Nat \X Nat
      /\ \A p \in ListPending : Member(p)' = Member(p)
  BY <1>1, ReceiptsGrown
<1>3. /\ faults' \in Nat /\ crashes' \in Nat /\ faults' + crashes' <= MaxTrouble
      /\ \/ mu' = FanOut(NewPlaces(q), NoRun) /\ faults' = faults
         \/ mu' = mu /\ faults' # 0
  <2>1. CASE AcceptBatch(q)
    BY <2>1 DEF AcceptBatch, NewPlaces, budget, Shape
  <2>2. CASE AcceptUnread(q)
    BY <2>2, Spent DEF AcceptUnread
  <2> QED
    BY <2>1, <2>2
<1>4. mu = Idle /\ mu.todo = {} /\ mu.tail = NoRun /\ server = "up"
  BY <1>1, Rests
<1>5. mu' \in Handler
  BY <1>2, <1>3, Handlers DEF Shape
<1>6. Shape'
  BY <1>1, <1>2, <1>3, <1>5 DEF Shape
<1>7. RunsFit' /\ LeasesFit'
  <2>1. RunsFit'
    BY <1>1, RunsFrame
  <2>2. LeasesFit'
    BY <1>1, <1>3, LeasesFrame, LeasesAfterFault DEF agents
  <2> QED
    BY <2>1, <2>2
<1>8. HandlerFits'
  <2>1. CASE mu' = mu
    BY <1>1, <1>4, <2>1 DEF HandlerFits, Idle
  <2>2. CASE mu' = FanOut(NewPlaces(q), NoRun)
    <3>1. mu'.op = "fanout" /\ mu'.at = "member" /\ mu'.todo = NewPlaces(q) /\ mu'.tail = NoRun
      BY <2>2 DEF FanOut
    <3> QED
      BY <1>1, <1>2, <1>4, <3>1 DEF HandlerFits
  <2> QED
    BY <1>3, <2>1, <2>2
<1>9. Promised'
  <2> SUFFICES ASSUME faults' = 0, NEW p \in ListPending'
               PROVE  \/ run[Member(p)'.run] # "awaiting_confirmation"
                      \/ p \in mu'.todo
                      \/ Waits(p)'
                      \/ unacked \ {mu'.tail} # {}
    BY <1>1 DEF Promised
  <2>1. mu' = FanOut(NewPlaces(q), NoRun) /\ faults = 0
    BY <1>3
  <2>2. mu'.todo = NewPlaces(q) /\ mu'.tail = NoRun
    BY <2>1 DEF FanOut
  <2>3. CASE p \in NewPlaces(q)
    BY <2>2, <2>3
  <2>4. CASE p \in ListPending
    <3>1. Member(p)' = Member(p)
      BY <1>2, <2>4
    <3>2. Waits(p) => Waits(p)'
      BY <1>1, <3>1 DEF Waits, Busy, Ended
    <3> QED
      BY <1>4, <2>1, <2>2, <2>4, <3>1, <3>2 DEF Promised
  <2> QED
    BY <1>2, <2>3, <2>4
<1> QED
  BY <1>2, <1>6, <1>7, <1>8, <1>9


-----------------------------------------------------------------------------
(* The theorems.                                                           *)

LEMMA Begins ==
  ASSUME Init
  PROVE  BInv
<1>1. receipts = <<>> /\ receipts \in Seq(Receipt) /\ DOMAIN receipts = {}
  <2>1. receipts = <<>>
    BY DEF Init
  <2>2. receipts \in Seq(Receipt) /\ Len(receipts) = 0
    BY <2>1, EmptySeq
  <2> QED
    BY <2>1, <2>2, LenProperties
<1>2. Shape
  <2>1. mu \in Handler
    BY Handlers DEF Init
  <2> QED
    BY <1>1, <2>1, BoundsAssumption DEF Init, Shape, RunState
<1>3. ReceiptsFit
  BY <1>1 DEF ReceiptsFit, OneReceiptPerRun, AcceptedAsShown, ReceiptTruth
<1>4. HandlerFits
  BY DEF Init, HandlerFits, Idle
<1>5. RunsFit /\ LeasesFit
  BY DEF Init, RunsFit, LeasesFit, operationRunWasConfirmed
<1>6. Promised
  BY <1>1, PendingIs, PlaceIs DEF Promised
<1> QED
  BY <1>2, <1>3, <1>4, <1>5, <1>6 DEF BInv

LEMMA Stutters ==
  ASSUME BInv, UNCHANGED vars
  PROVE  BInv'
<1> USE DEF BInv, vars, journal, agents, budget
<1>1. Shape'
  BY DEF Shape
<1>2. RunsFit' /\ ReceiptsFit' /\ LeasesFit'
  BY RunsFrame, ReceiptsUntouched, LeasesFrame DEF RunsOnly
<1>3. Place' = Place /\ ListPending' = ListPending /\ \A q : Member(q)' = Member(q)
  BY PlacesFrame
<1>4. HandlerFits'
  <2>1. First' = First
    BY DEF First
  <2> QED
    BY <1>3, <2>1 DEF HandlerFits
<1>5. Promised'
  <2>1. \A q : Waits(q)' <=> Waits(q)
    BY <1>3 DEF Waits, Busy, Ended
  <2> QED
    BY <1>3, <2>1 DEF Promised
<1> QED
  BY <1>1, <1>2, <1>4, <1>5

LEMMA StepKeeps ==
  ASSUME BInv, [Next]_vars
  PROVE  BInv'
<1>1. ASSUME NEW p \in First,
             SuppressMember(p) \/ MarkStarted(p) \/ PassMember(p) \/ StartMember(p)
               \/ MarkFails(p) \/ MarkConfirmed(p)
      PROVE  BInv'
  <2>1. CASE MarkFails(p)
    BY <2>1, PassFails DEF MarkFails
  <2> QED
    BY <1>1, <2>1, SuppressMemberKeeps, MarkStartedKeeps, PassMemberKeeps, StartMemberKeeps,
       MarkConfirmedKeeps
<1>2. CASE FanOutDone \/ ConfirmTurn \/ ConfirmBusy \/ ConfirmFails
  BY <1>2, FanOutDoneKeeps, ConfirmTurnKeeps, ConfirmBusyKeeps, ConfirmFailsKeeps
<1>3. CASE MarkConfirmedFails
  BY <1>3, PassFails DEF MarkConfirmedFails
<1>4. ASSUME NEW q \in Request, ConfirmBatchAgain(q) \/ AcceptBatch(q) \/ AcceptUnread(q)
      PROVE  BInv'
  BY <1>4, ConfirmBatchAgainKeeps, AcceptKeeps
<1>5. ASSUME NEW r \in Run,
             ConfirmOperationRun(r) \/ CancelOperationRun(r) \/ CancelExecuting(r)
               \/ CancelKeepsLease(r)
      PROVE  BInv'
  BY <1>5, ConfirmOperationRunKeeps, CancelOperationRunKeeps, CancelExecutingKeeps,
     CancelKeepsLeaseKeeps
<1>6. ASSUME NEW r \in Run, RunEnds(r) \/ ContinueOperationRun(r) \/ ResumeAfter(r)
      PROVE  BInv'
  BY <1>6, RunEndsKeeps, ContinueOperationRunKeeps, ResumeAfterKeeps
<1>7. ASSUME NEW n \in Node, Expire(n)
      PROVE  BInv'
  BY <1>7, ExpireKeeps
<1>8. CASE Crash \/ Start
  BY <1>8, CrashKeeps, StartKeeps
<1>9. CASE UNCHANGED vars
  BY <1>9, Stutters
<1> QED
  BY <1>1, <1>2, <1>3, <1>4, <1>5, <1>6, <1>7, <1>8, <1>9 DEF Next, HandlerStep, ClientStep

THEOREM BatchInvariance == Spec => []BInv
<1>1. Init => BInv
  BY Begins
<1>2. BInv /\ [Next]_vars => BInv'
  BY StepKeeps
<1> QED
  BY <1>1, <1>2, PTL DEF Spec

LEMMA Sound ==
  ASSUME BInv
  PROVE  ReceiptSound
<1> USE DEF BInv
<1>1. TypeOK
  <2>1. /\ mu.op \in {"none", "confirm", "fanout"}
        /\ mu.at \in {"none", "member", "lease", "mark"}
        /\ mu.run \in Run \union {NoRun} /\ mu.tail \in Run \union {NoRun}
    BY HandlerParts
  <2>2. mu.todo \subseteq Place
    <3>1. mu.todo = {} \/ mu.todo \subseteq ListPending
      BY <2>1 DEF HandlerFits, Idle
    <3> QED
      BY <3>1, PendingIs
  <2>3. \A n \in DOMAIN receipts :
          /\ receipts[n].batch \in Batch /\ receipts[n].key \in Key
          /\ \A i \in DOMAIN receipts[n].members : receipts[n].members[i] \in MemberRow
    BY ReceiptRows DEF Receipt
  <2>4. faults + crashes \in 0 .. MaxTrouble
    BY BoundsAssumption DEF Shape
  <2> QED
    BY <2>1, <2>2, <2>3, <2>4 DEF TypeOK, Shape, MemberRow
<1>2. PendingForAReason
  <2> SUFFICES ASSUME Free, faults = 0, unacked = {},
                      NEW n \in DOMAIN receipts, NEW i \in DOMAIN receipts[n].members,
                      receipts[n].members[i].state = "pending",
                      run[receipts[n].members[i].run] = "awaiting_confirmation"
               PROVE  /\ Busy(receipts[n].members[i].run)
                      /\ ~Ended(lease[NodeOf[receipts[n].members[i].run]])
    BY DEF PendingForAReason
  <2>1. Member(<<n, i>>) = receipts[n].members[i]
    BY DEF Member
  <2>2. <<n, i>> \in ListPending
    BY <2>1, PendingIs, PlaceIs DEF Pending
  <2>3. server = "up" /\ mu.todo = {}
    BY Rests
  <2>4. Waits(<<n, i>>)
    BY <2>1, <2>2, <2>3 DEF Promised
  <2> QED
    BY <2>1, <2>4 DEF Waits
<1> QED
  BY <1>1, <1>2 DEF ReceiptSound, ReceiptsFit

\* A receipt can be believed and carried out (product_workflow.go,
\* ConfirmOperationBatch and ResumeOperationRuns): it names a run that no other
\* receipt names and that is what the client was shown, a member recorded as
\* confirmed was queued and one recorded as suppressed is canceled, and, as long
\* as nothing but crashes went wrong, a member that stays pending has a run with
\* work left in its way.
THEOREM ReceiptsAreSound == Spec => []ReceiptSound
<1>1. BInv => ReceiptSound
  BY Sound
<1> QED
  BY <1>1, BatchInvariance, PTL

Frozen ==
  /\ Len(receipts') >= Len(receipts)
  /\ \A n \in DOMAIN receipts :
       /\ Fingerprint(receipts'[n]) = Fingerprint(receipts[n])
       /\ receipts'[n].key = receipts[n].key
       /\ \A i \in DOMAIN receipts[n].members :
            receipts[n].members[i].state # "pending"
              => receipts'[n].members[i] = receipts[n].members[i]

LEMMA UntouchedFrozen ==
  ASSUME Shape, receipts' = receipts
  PROVE  Frozen
BY ReceiptRows DEF Frozen

LEMMA GrownFrozen ==
  ASSUME Shape, NEW q \in Request, receipts' = Append(receipts, NormalReceipt(q)),
         receipts' \in Seq(Receipt)
  PROVE  Frozen
<1>1. Len(receipts') = Len(receipts) + 1 /\ \A n \in 1 .. Len(receipts) : receipts'[n] = receipts[n]
  BY ReceiptRows DEF Shape
<1> QED
  BY <1>1, ReceiptRows DEF Frozen

LEMMA MarkFrozen ==
  ASSUME Shape, HandlerFits, NEW p \in First, NEW s \in MemberState, Mark(p, s)
  PROVE  Frozen
<1>1. p \in Place /\ Pending(p)
  BY FirstPlace
<1>2. /\ Len(receipts') = Len(receipts)
      /\ \A n \in DOMAIN receipts :
           /\ receipts'[n].batch = receipts[n].batch /\ receipts'[n].key = receipts[n].key
           /\ DOMAIN receipts'[n].members = DOMAIN receipts[n].members
           /\ \A i \in DOMAIN receipts[n].members :
                /\ receipts'[n].members[i].finding = receipts[n].members[i].finding
                /\ receipts'[n].members[i].run = receipts[n].members[i].run
                /\ receipts'[n].members[i].digest = receipts[n].members[i].digest
                /\ <<n, i>> # p => receipts'[n].members[i] = receipts[n].members[i]
  BY <1>1, MarkEffect
<1>3. \A n \in DOMAIN receipts : Fingerprint(receipts'[n]) = Fingerprint(receipts[n])
  BY <1>2 DEF Fingerprint
<1>4. \A n \in DOMAIN receipts : \A i \in DOMAIN receipts[n].members :
        receipts[n].members[i].state # "pending" => <<n, i>> # p
  BY <1>1 DEF Pending, Member
<1>5. Len(receipts') >= Len(receipts)
  BY <1>2, ReceiptRows
<1> QED
  BY <1>2, <1>3, <1>4, <1>5 DEF Frozen

LEMMA StepFrozen ==
  ASSUME BInv, [Next]_vars
  PROVE  Frozen
<1> USE DEF BInv
<1>1. CASE UNCHANGED receipts
  BY <1>1, UntouchedFrozen
<1>2. ASSUME NEW p \in First, SuppressMember(p) \/ MarkStarted(p) \/ MarkConfirmed(p)
      PROVE  Frozen
  BY <1>2, MarkFrozen DEF SuppressMember, MarkStarted, MarkConfirmed, MemberState
<1>3. ASSUME NEW q \in Request, AcceptBatch(q) \/ AcceptUnread(q)
      PROVE  Frozen
  <2>1. receipts' \in Seq(Receipt)
    BY <1>3, AcceptKeeps DEF Shape
  <2> QED
    BY <1>3, <2>1, GrownFrozen DEF AcceptBatch, AcceptUnread
<1>4. ASSUME NEW p \in First, PassMember(p) \/ StartMember(p) \/ MarkFails(p)
      PROVE  UNCHANGED receipts
  BY <1>4 DEF PassMember, StartMember, MarkFails
<1>5. CASE FanOutDone \/ ConfirmTurn \/ ConfirmBusy \/ ConfirmFails \/ MarkConfirmedFails
  BY <1>1, <1>5 DEF FanOutDone, ConfirmTurn, ConfirmBusy, ConfirmFails, MarkConfirmedFails
<1>6. ASSUME NEW q \in Request, ConfirmBatchAgain(q)
      PROVE  UNCHANGED receipts
  BY <1>6 DEF ConfirmBatchAgain
<1>7. ASSUME NEW r \in Run,
             ConfirmOperationRun(r) \/ CancelOperationRun(r) \/ CancelExecuting(r)
               \/ CancelKeepsLease(r) \/ RunEnds(r) \/ ContinueOperationRun(r) \/ ResumeAfter(r)
      PROVE  UNCHANGED receipts
  BY <1>7 DEF ConfirmOperationRun, CancelOperationRun, CancelExecuting, CancelKeepsLease,
       RunEnds, ContinueOperationRun, ResumeAfter
<1>8. ASSUME NEW n \in Node, Expire(n)
      PROVE  UNCHANGED receipts
  BY <1>8 DEF Expire
<1>9. CASE Crash \/ Start \/ UNCHANGED vars
  BY <1>1, <1>9 DEF Crash, Start, vars
<1> QED
  BY <1>1, <1>2, <1>3, <1>4, <1>5, <1>6, <1>7, <1>8, <1>9 DEF Next, HandlerStep, ClientStep

\* What a client accepted is never rewritten
\* (operation_batch_confirmations.go, UpdateOperationBatchConfirmationMemberState):
\* receipts are only added, and a member only goes from pending to one of the
\* two facts about it, once.
THEOREM ReceiptsStayFrozen == Spec => ReceiptsFrozen
<1>1. BInv /\ [Next]_vars => Frozen
  BY StepFrozen
<1> QED
  BY <1>1, BatchInvariance, PTL DEF Spec, ReceiptsFrozen, Frozen
=============================================================================
