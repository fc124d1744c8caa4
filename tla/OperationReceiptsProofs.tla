----------------------- MODULE OperationReceiptsProofs -----------------------
(***************************************************************************)
(* An operation is executed at most once, for every set of requests, keys   *)
(* and scenarios.                                                            *)
(***************************************************************************)
EXTENDS OperationReceipts, WellFoundedInduction, TLAPS

-----------------------------------------------------------------------------
(* Run numbers. *)

(* A set of numbers with 0 in it and an upper bound has a largest number: what   *)
(* runs.highestNumber returns exists.                                            *)
LEMMA HighestExists ==
  ASSUME NEW S \in SUBSET Nat, 0 \in S, NEW b \in Nat, \A m \in S : m <= b
  PROVE  \E n \in S : \A m \in S : m <= n
<1> DEFINE R == {ss \in Nat \X Nat : ss[1] < ss[2]}
           T == {c \in Nat : \A m \in S : m <= c}
<1>1. IsWellFoundedOn(R, Nat)
  BY NatLessThanWellFounded DEF OpToRel
<1>2. PICK c \in T : \A d \in T : ~(<<d, c>> \in R)
  <2>1. T \subseteq Nat /\ T # {}
    OBVIOUS
  <2> HIDE DEF R, T
  <2> QED
    BY Zenon, <1>1, <2>1, WFMin
<1>3. \A d \in T : ~(d < c)
  BY Zenon, <1>2
<1>4. CASE c = 0
  BY <1>4
<1>5. CASE c # 0
  <2>1. c - 1 \notin T
    BY <1>3, <1>5
  <2> QED
    BY <2>1, <1>5
<1> QED
  BY <1>4, <1>5

(* The numbers in use have a bound: rows and receipts name finitely many runs. *)
Bounded == \E b \in Nat : \A n \in Numbers : n <= b
Typed == TypeOK /\ Bounded

LEMMA NumbersTyped == Typed => Numbers \in SUBSET Nat /\ 0 \in Numbers
<1> SUFFICES ASSUME Typed
             PROVE  Numbers \in SUBSET Nat /\ 0 \in Numbers
  OBVIOUS
<1>1. \A w \in rows : w.run \in Nat
  BY DEF Typed, TypeOK, RowRecords
<1>2. \A k \in Keys : receipts[k].run \in Nat
  BY Zenon DEF Typed, TypeOK, ReceiptRecords
<1> QED
  BY <1>1, <1>2 DEF Numbers

LEMMA HighestNumberTyped == Typed => HighestNumber \in Nat
<1> SUFFICES ASSUME Typed
             PROVE  HighestNumber \in Nat
  OBVIOUS
<1>1. Numbers \in SUBSET Nat /\ 0 \in Numbers
  BY NumbersTyped
<1>2. \E n \in Numbers : \A m \in Numbers : m <= n
  BY Zenon, <1>1, HighestExists DEF Typed, Bounded
<1> QED
  BY Zenon, <1>1, <1>2 DEF HighestNumber

-----------------------------------------------------------------------------
(* Types. *)

LEMMA TypedInit == Init => Typed
<1> SUFFICES ASSUME Init
             PROVE  Typed
  OBVIOUS
<1>1. NoReceipt \in ReceiptRecords
  BY DEF NoReceipt, Receipt, ReceiptRecords, States
<1>2. Idle \in RequestRecords
  BY <1>1 DEF Idle, RequestRecords, Steps, CallSteps, Results, Works, Outcomes, Answers
<1>3. TypeOK
  <2>1. plan \in [Requests -> Plans] /\ left \in [Faults -> Nat]
    BY ScenariosTyped DEF Init
  <2>2. calls \in Seq(Requests \cup {Retention}) /\ served \in 0..Len(calls)
    BY DEF Init
  <2>3. receipts \in [Keys -> ReceiptRecords] /\ req \in [Requests -> RequestRecords]
    BY <1>1, <1>2 DEF Init
  <2>4. ret \in PassRecords
    BY DEF Init, Resting, PassRecords, Results
  <2>5. /\ rows \subseteq RowRecords /\ inst \in Nat /\ phase \in {"starting", "serving", "failed"}
        /\ reserved \in [Keys -> Requests \cup {Nobody}] /\ counter \in Nat /\ seeded \in BOOLEAN
        /\ exited \in BOOLEAN /\ effects \in [Keys -> Nat]
        /\ owner \in [Keys -> Requests \cup {Nobody}] /\ named \in [Keys -> Nat]
        /\ rowDropped \in BOOLEAN
    BY Zenon DEF Init
  <2> QED
    BY <2>1, <2>2, <2>3, <2>4, <2>5 DEF TypeOK
<1>4. Numbers = {0}
  BY Zenon DEF Init, Numbers, NoReceipt, Receipt
<1> QED
  BY <1>3, <1>4 DEF Typed, Bounded

(* TypeOK in parts, each of which most steps leave alone. *)
TQueue == calls \in Seq(Requests \cup {Retention}) /\ served \in 0..Len(calls)
TReq == req \in [Requests -> RequestRecords]
TData == receipts \in [Keys -> ReceiptRecords] /\ rows \subseteq RowRecords
TMem == /\ inst \in Nat /\ phase \in {"starting", "serving", "failed"}
        /\ reserved \in [Keys -> Requests \cup {Nobody}]
        /\ counter \in Nat /\ seeded \in BOOLEAN
THist == /\ effects \in [Keys -> Nat] /\ owner \in [Keys -> Requests \cup {Nobody}]
         /\ named \in [Keys -> Nat] /\ rowDropped \in BOOLEAN
TRest == /\ plan \in [Requests -> Plans] /\ left \in [Faults -> Nat]
         /\ ret \in PassRecords /\ exited \in BOOLEAN

LEMMA TypeParts == TypeOK <=> TQueue /\ TReq /\ TData /\ TMem /\ THist /\ TRest
  BY DEF TypeOK, TQueue, TReq, TData, TMem, THist, TRest

LEMMA TypePartsNext == TypeOK' <=> TQueue' /\ TReq' /\ TData' /\ TMem' /\ THist' /\ TRest'
  BY DEF TypeOK, TQueue, TReq, TData, TMem, THist, TRest

(* The tables a step leaves alone name the same runs. *)
LEMMA SameData == Bounded /\ TData /\ UNCHANGED durable => Bounded' /\ TData'
  BY DEF Bounded, Numbers, TData, durable

(* A step adds at most the run number of one launch. *)
LEMMA BoundedGrows ==
  ASSUME Typed, NEW n \in Nat, Numbers' \subseteq Numbers \cup {n}
  PROVE  Bounded'
<1>1. PICK b \in Nat : \A m \in Numbers : m <= b
  BY DEF Typed, Bounded
<1>2. \A m \in Numbers : m \in Nat
  BY NumbersTyped
<1>3. \A m \in Numbers' : m <= b + n
  BY <1>1, <1>2
<1> QED
  BY <1>3 DEF Bounded

LEMMA QueueLast == TQueue /\ served > 0 /\ Last => TQueue'
  BY DEF TQueue, Last

LEMMA QueueThen ==
  ASSUME TQueue, served > 0, NEW c \in Requests \cup {Retention}, Then(c)
  PROVE  TQueue'
  BY DEF TQueue, Then

LEMMA QueueAsk ==
  ASSUME TQueue, NEW c \in Requests \cup {Retention}, Ask(c)
  PROVE  TQueue'
  BY DEF TQueue, Ask

LEMMA QueueServe ==
  TQueue /\ served < Len(calls) /\ served' = served + 1 /\ UNCHANGED calls => TQueue'
  BY DEF TQueue

LEMMA ReqEnd ==
  ASSUME TReq, NEW r \in Requests, NEW ans \in Answers, End(r, ans)
  PROVE  TReq'
<1>1. NoReceipt \in ReceiptRecords
  BY DEF NoReceipt, Receipt, ReceiptRecords, States
<1> DEFINE new == [req[r] EXCEPT !.pc = "done", !.ans = ans, !.res = "none", !.seen = NoReceipt]
<1>2. new \in RequestRecords
  <2>1. req[r] \in RequestRecords
    BY DEF TReq
  <2> QED
    BY Zenon, <1>1, <2>1 DEF RequestRecords, Steps, Results
<1>3. req' = [req EXCEPT ![r] = new]
  BY Zenon DEF TReq, End
<1> QED
  BY <1>2, <1>3 DEF TReq

LEMMA ReqGo ==
  ASSUME TReq, NEW r \in Requests, NEW pc \in Steps, Go(r, pc)
  PROVE  TReq'
  BY ZenonT(60) DEF TReq, Go, RequestRecords, Results

LEMMA ReqResult ==
  ASSUME TReq, NEW r \in Requests, NEW res \in Results, Result(r, res)
  PROVE  TReq'
  BY DEF TReq, Result, RequestRecords

(* Executing a call leaves everything but the tables, the history and the answer alone. *)
LEMMA TurnTyped ==
  ASSUME Typed, NEW r \in Requests, NEW pc, Turn(r, pc)
  PROVE  TQueue' /\ TMem' /\ TRest'
<1>1. TQueue'
  BY QueueServe, TypeParts DEF Typed, Turn
<1>2. TMem' /\ TRest'
  BY TypeParts DEF Typed, Turn, memory, TMem, TRest
<1> QED
  BY <1>1, <1>2

LEMMA HistoryTyped == THist /\ UNCHANGED history => THist'
  BY DEF THist, history

LEMMA KeyTyped ==
  ASSUME Typed, NEW r \in Requests
  PROVE  Key(r) \in Keys /\ Kind(r) \in Kinds /\ Intent(r) \in Intents
  BY DEF Typed, TypeOK, Plans, Key, Kind, Intent

LEMMA ReqTyped ==
  ASSUME Typed, NEW r \in Requests
  PROVE  /\ req[r] \in RequestRecords
         /\ req[r].run \in Nat /\ req[r].seen \in ReceiptRecords /\ req[r].ans \in Answers
         /\ req[r].seen.rev \in Nat
  BY Zenon DEF Typed, TypeOK, RequestRecords, ReceiptRecords

(* The receipt of a request enters the table. *)
LEMMA InsertedTyped ==
  ASSUME Typed, NEW r \in Requests, NEW state \in States, NEW rev \in Nat, Inserted(r, state, rev)
  PROVE  /\ receipts' \in [Keys -> ReceiptRecords]
         /\ owner' \in [Keys -> Requests \cup {Nobody}]
         /\ named' \in [Keys -> Nat]
         /\ {receipts'[k].run : k \in Keys} \subseteq {receipts[k].run : k \in Keys} \cup {req[r].run}
<1> DEFINE new == Receipt(state, Intent(r), Kind(r), rev, req[r].run)
<1>1. new \in ReceiptRecords /\ new.run = req[r].run
  BY Zenon, KeyTyped, ReqTyped DEF Receipt, ReceiptRecords
<1>2. receipts \in [Keys -> ReceiptRecords] /\ receipts' = [receipts EXCEPT ![Key(r)] = new]
  BY DEF Typed, TypeOK, Inserted
<1>3. /\ owner' = [owner EXCEPT ![Key(r)] = r]
      /\ named' = [named EXCEPT ![Key(r)] = req[r].run]
  BY DEF Inserted
<1>4. owner \in [Keys -> Requests \cup {Nobody}] /\ named \in [Keys -> Nat]
  BY DEF Typed, TypeOK
<1> HIDE DEF new
<1> QED
  BY Zenon, <1>1, <1>2, <1>3, <1>4, ReqTyped

(* A row that starts. *)
LEMMA RowTyped ==
  ASSUME Typed, NEW r \in Requests
  PROVE  LET w == Row(inst, req[r].run, "starting")
         IN  w \in RowRecords /\ w.run = req[r].run
  BY ReqTyped DEF Typed, TypeOK, Row, RowRecords

LEMMA DropsTyped ==
  ASSUME Typed, NEW n, Drops(n)
  PROVE  rows' \subseteq rows /\ rowDropped' \in BOOLEAN
<1>1. rows' \subseteq rows
  BY DEF Drops, NotStarted
<1>2. rowDropped' \in BOOLEAN
  <2> DEFINE gone == rowDropped \/ (rows' # rows /\ \A k \in Keys : receipts[k].run # n)
  <2>1. rowDropped' = gone
    BY DEF Drops
  <2>2. gone = TRUE \/ gone = FALSE
    BY Zenon
  <2> HIDE DEF gone
  <2> QED
    BY Zenon, <2>1, <2>2
<1> QED
  BY <1>1, <1>2

LEMMA SuccessorTyped ==
  ASSUME NEW old \in ReceiptRecords, NEW rev \in Nat, NEW state \in States
  PROVE  /\ [old EXCEPT !.state = state, !.rev = rev + 1] \in ReceiptRecords
         /\ [old EXCEPT !.state = state, !.rev = rev + 1].run = old.run
<1>1. rev + 1 \in Nat
  OBVIOUS
<1> QED
  BY Zenon, <1>1 DEF ReceiptRecords

LEMMA ReplaceTyped ==
  ASSUME Typed, NEW k \in Keys, NEW rev \in Nat, NEW state \in States
  PROVE  /\ Replace(k, rev, state) \in [Keys -> ReceiptRecords]
         /\ \A j \in Keys : Replace(k, rev, state)[j].run = receipts[j].run
<1> DEFINE new == IF HasRecord(receipts[k]) /\ receipts[k].rev = rev
                    THEN [receipts[k] EXCEPT !.state = state, !.rev = rev + 1] ELSE receipts[k]
<1>1. receipts \in [Keys -> ReceiptRecords]
  BY DEF Typed, TypeOK
<1>2. new \in ReceiptRecords /\ new.run = receipts[k].run
  <2>1. receipts[k] \in ReceiptRecords
    BY <1>1
  <2> QED
    BY Zenon, <2>1, SuccessorTyped
<1>3. Replace(k, rev, state) = [receipts EXCEPT ![k] = new]
  BY <1>1 DEF Replace
<1> HIDE DEF new
<1> QED
  BY <1>1, <1>2, <1>3

(* The store: every call it executes keeps the types. *)
LEMMA ServeTyped ==
  ASSUME Typed, NEW r \in Requests, Serve(r)
  PROVE  Typed'
<1> USE TypeParts, TypePartsNext, ReqTyped, KeyTyped
<1>0. TQueue /\ TReq /\ TData /\ TMem /\ THist /\ TRest /\ Bounded
  BY DEF Typed
<1>1. CASE ServeGet(r)
  <2>1. PICK pc \in ReadSteps :
          /\ Turn(r, pc) /\ UNCHANGED <<durable, history>>
          /\ req' = [req EXCEPT ![r].res = "yes", ![r].seen = receipts[Key(r)]]
    BY <1>1 DEF ServeGet
  <2>2. TReq'
    <3>1. receipts[Key(r)] \in ReceiptRecords
      BY <1>0 DEF TData
    <3> QED
      BY ZenonT(60), <1>0, <2>1, <3>1 DEF TReq, RequestRecords, Results
  <2> QED
    BY <1>0, <2>1, <2>2, TurnTyped, SameData, HistoryTyped DEF Typed
<1>2. CASE ServeNumber(r)
  <2>1. TReq'
    BY ZenonT(60), <1>0, <1>2, HighestNumberTyped DEF ServeNumber, TReq, RequestRecords, Results
  <2> QED
    BY <1>0, <1>2, <2>1, TurnTyped, SameData, HistoryTyped DEF Typed, ServeNumber
<1>3. CASE ServeStarted(r)
  <2>1. PICK w \in RowRecords : w = Row(inst, req[r].run, "starting") /\ w.run = req[r].run
    BY RowTyped
  <2>2. /\ Turn(r, "started") /\ UNCHANGED <<receipts, history>>
        /\ rows' \subseteq rows \cup {w}
        /\ Result(r, "yes") \/ Result(r, "no")
    BY <1>3, <2>1 DEF ServeStarted
  <2>3. TReq'
    BY <1>0, <2>2, ReqResult DEF Results
  <2>4. TData'
    BY <1>0, <2>1, <2>2 DEF TData
  <2>5. Numbers' \subseteq Numbers \cup {req[r].run}
    BY <2>1, <2>2 DEF Numbers
  <2> QED
    BY <1>0, <2>2, <2>3, <2>4, <2>5, BoundedGrows, TurnTyped, HistoryTyped DEF Typed
<1>4. CASE ServeInsert(r)
  <2>1. Turn(r, "commit") /\ UNCHANGED <<rows, effects, rowDropped>>
    BY <1>4 DEF ServeInsert
  <2>2. CASE Known(Key(r))
    <3>1. (Result(r, "refused") \/ Result(r, "no")) /\ UNCHANGED <<receipts, owner, named>>
      BY <1>4, <2>2 DEF ServeInsert
    <3>2. TReq'
      BY <1>0, <3>1, ReqResult DEF Results
    <3>3. UNCHANGED durable /\ UNCHANGED history
      BY <2>1, <3>1 DEF durable, history
    <3> QED
      BY <1>0, <2>1, <3>2, <3>3, TurnTyped, SameData, HistoryTyped DEF Typed
  <2>3. CASE ~Known(Key(r))
    <3>1. Inserted(r, "accepted", 0) /\ Result(r, "yes")
      BY <1>4, <2>3 DEF ServeInsert
    <3>2. TReq'
      BY <1>0, <3>1, ReqResult DEF Results
    <3>3. "accepted" \in States
      BY DEF States, Unfinished
    <3>4. TData' /\ THist'
      BY <1>0, <2>1, <3>1, <3>3, InsertedTyped DEF TData, THist
    <3>5. Numbers' \subseteq Numbers \cup {req[r].run}
      BY Zenon, <2>1, <3>1, <3>3, InsertedTyped DEF Numbers
    <3> QED
      BY <2>1, <3>2, <3>4, <3>5, BoundedGrows, TurnTyped DEF Typed
  <2> QED
    BY <2>2, <2>3
<1>5. CASE ServeLaunch(r)
  <2>1. Turn(r, "launch") /\ UNCHANGED <<effects, rowDropped>>
    BY <1>5 DEF ServeLaunch
  <2>2. CASE UNCHANGED <<rows, receipts, owner, named>>
    <3>1. UNCHANGED durable /\ UNCHANGED history
      BY <2>1, <2>2 DEF durable, history
    <3>2. TReq'
      <4>1. CASE Result(r, "refused") \/ Result(r, "yes")
        BY <1>0, <4>1, ReqResult DEF Results
      <4>2. CASE req' = [req EXCEPT ![r].seen = receipts[Key(r)],
                                    ![r].res = IF receipts[Key(r)].state = "purged" THEN "refused" ELSE "no"]
        <5>1. receipts[Key(r)] \in ReceiptRecords
          BY <1>0 DEF TData
        <5> QED
          BY ZenonT(60), <1>0, <4>2, <5>1 DEF TReq, RequestRecords, Results
      <4> QED
        BY <1>5, <4>1, <4>2 DEF ServeLaunch
    <3> QED
      BY <1>0, <2>1, <3>1, <3>2, TurnTyped, SameData, HistoryTyped DEF Typed
  <2>3. CASE ~UNCHANGED <<rows, receipts, owner, named>>
    <3>1. PICK w \in RowRecords : w = Row(inst, req[r].run, "starting") /\ w.run = req[r].run
      BY RowTyped
    <3>2. Inserted(r, "accepted", 0) /\ Result(r, "yes") /\ rows' = rows \cup {w}
      BY <1>5, <2>3, <3>1 DEF ServeLaunch
    <3>3. TReq'
      BY <1>0, <3>2, ReqResult DEF Results
    <3>4. "accepted" \in States
      BY DEF States, Unfinished
    <3>5. TData' /\ THist'
      BY <1>0, <2>1, <3>2, <3>4, InsertedTyped DEF TData, THist
    <3>6. Numbers' \subseteq Numbers \cup {req[r].run}
      <4>1. {receipts'[k].run : k \in Keys} \subseteq {receipts[k].run : k \in Keys} \cup {req[r].run}
        BY ZenonT(60), <3>2, <3>4, InsertedTyped
      <4> QED
        BY <3>1, <3>2, <4>1 DEF Numbers
    <3> QED
      BY <2>1, <3>3, <3>5, <3>6, BoundedGrows, TurnTyped DEF Typed
  <2> QED
    BY <2>2, <2>3
<1>6. CASE ServeWrite(r)
  <2>1. Turn(r, "write") /\ UNCHANGED <<rows, rowDropped>>
    BY SMTT(60), <1>6 DEF ServeWrite
  <2>2. CASE UNCHANGED <<receipts, owner, named, effects>>
    <3>1. UNCHANGED durable /\ UNCHANGED history
      BY <2>1, <2>2 DEF durable, history
    <3>2. TReq'
      <4>1. CASE Result(r, "refused") \/ Result(r, "yes")
        BY <1>0, <4>1, ReqResult DEF Results
      <4>2. CASE req' = [req EXCEPT ![r].seen = receipts[Key(r)], ![r].res = "no"]
        <5>1. receipts[Key(r)] \in ReceiptRecords
          BY <1>0 DEF TData
        <5> QED
          BY ZenonT(60), <1>0, <4>2, <5>1 DEF TReq, RequestRecords, Results
      <4> QED
        BY <1>6, <4>1, <4>2 DEF ServeWrite
    <3> QED
      BY SMTT(60), <1>0, <2>1, <3>1, <3>2, TurnTyped, SameData, HistoryTyped DEF Typed
  <2>3. CASE ~UNCHANGED <<receipts, owner, named, effects>>
    <3>1. /\ Inserted(r, "succeeded", 1) /\ Result(r, "yes")
          /\ effects' = [effects EXCEPT ![Key(r)] = @ + 1]
      BY <1>6, <2>3 DEF ServeWrite
    <3>2. TReq'
      BY <1>0, <3>1, ReqResult DEF Results
    <3>3. "succeeded" \in States
      BY DEF States, Terminal, Ended
    <3>4. TData'
      BY <1>0, <2>1, <3>1, <3>3, InsertedTyped DEF TData
    <3>5. THist'
      <4>1. effects' \in [Keys -> Nat]
        BY <1>0, <3>1 DEF THist
      <4> QED
        BY <1>0, <2>1, <3>1, <3>3, <4>1, InsertedTyped DEF THist
    <3>6. Numbers' \subseteq Numbers \cup {req[r].run}
      BY ZenonT(60), <2>1, <3>1, <3>3, InsertedTyped DEF Numbers
    <3> QED
      BY <2>1, <3>2, <3>4, <3>5, <3>6, BoundedGrows, TurnTyped DEF Typed
  <2> QED
    BY <2>2, <2>3
<1>7. CASE ServeReplace(r)
  <2>1. PICK pc \in SetSteps :
          /\ Turn(r, pc) /\ UNCHANGED <<rows, history>>
          /\ receipts' = Replace(Key(r), req[r].seen.rev, Outcome(r))
          /\ Result(r, "no") \/ Result(r, "yes")
    BY <1>7 DEF ServeReplace
  <2>2. Outcome(r) \in States
    BY DEF Outcome, States, Unfinished, Terminal, Ended
  <2>3. TReq'
    BY SMTT(60), <1>0, <2>1, ReqResult DEF Results
  <2>4. TData' /\ \A k \in Keys : receipts'[k].run = receipts[k].run
    BY SMTT(60), <1>0, <2>1, <2>2, ReplaceTyped DEF TData
  <2>5. Numbers' = Numbers
    BY <2>1, <2>4 DEF Numbers
  <2>6. Bounded'
    BY <1>0, <2>5 DEF Bounded
  <2> QED
    BY <1>0, <2>1, <2>3, <2>4, <2>6, TurnTyped, HistoryTyped DEF Typed
<1>8. CASE ServeRecord(r) \/ ServeDrop(r)
  <2>1. /\ \E pc \in {"record", "drop"} : Turn(r, pc)
        /\ Result(r, "yes") /\ UNCHANGED <<receipts, effects, owner, named>>
    BY <1>8 DEF ServeRecord, ServeDrop
  <2>2. CASE Drops(req[r].run)
    <3>1. TData' /\ THist' /\ Numbers' \subseteq Numbers \cup {0}
      BY <1>0, <2>1, <2>2, DropsTyped DEF TData, THist, Numbers
    <3> QED
      BY SMTT(60), <1>0, <2>1, <3>1, BoundedGrows, ReqResult, TurnTyped DEF Typed, Results
  <2>3. CASE /\ rows' = {IF w = Row(inst, req[r].run, "starting") THEN [w EXCEPT !.life = "running"] ELSE w : w \in rows}
             /\ rowDropped' = rowDropped
    <3>1. \A w \in RowRecords : [w EXCEPT !.life = "running"] \in RowRecords
                                  /\ [w EXCEPT !.life = "running"].run = w.run
      BY DEF RowRecords
    <3>2. rows' \subseteq RowRecords /\ {w.run : w \in rows'} \subseteq {w.run : w \in rows}
      BY ZenonT(60), <1>0, <2>3, <3>1 DEF TData
    <3>3. TData' /\ THist' /\ Numbers' \subseteq Numbers \cup {0}
      BY Zenon, <1>0, <2>1, <2>3, <3>2 DEF TData, THist, Numbers
    <3> QED
      BY <1>0, <2>1, <3>3, BoundedGrows, ReqResult, TurnTyped DEF Typed, Results
  <2> QED
    BY <1>8, <2>2, <2>3 DEF ServeRecord, ServeDrop
<1>9. CASE ServeRefused(r)
  <2>1. /\ served < Len(calls) /\ served' = served + 1 /\ Result(r, "refused")
        /\ left' = left \/ (left["refusals"] > 0 /\ left' = [left EXCEPT !["refusals"] = @ - 1])
        /\ UNCHANGED <<plan, calls, durable, memory, ret, exited, history>>
    BY <1>9 DEF ServeRefused, Spend
  <2>2. TRest'
    BY <1>0, <2>1 DEF TRest, Faults
  <2>3. TMem' /\ TQueue' /\ TReq'
    BY <1>0, <2>1, QueueServe, ReqResult DEF TMem, memory, Results
  <2> QED
    BY <1>0, <2>1, <2>2, <2>3, SameData, HistoryTyped DEF Typed
<1> QED
  BY <1>1, <1>2, <1>3, <1>4, <1>5, <1>6, <1>7, <1>8, <1>9 DEF Serve

(* What an answer leaves alone. *)
LEMMA AnsweredTyped ==
  ASSUME Typed, NEW r \in Requests, NEW pc, Answered(r, pc)
  PROVE  /\ served > 0 /\ UNCHANGED <<inst, phase>>
         /\ TData' /\ THist' /\ TRest' /\ Bounded'
<1>1. /\ served > 0 /\ UNCHANGED <<inst, phase>>
      /\ UNCHANGED <<plan, left, durable, ret, exited, history>>
  BY DEF Answered
<1> QED
  BY <1>1, TypeParts, SameData, HistoryTyped DEF Typed, TRest

LEMMA MemKept ==
  ASSUME Typed, UNCHANGED <<inst, phase, reserved, counter, seeded>>
  PROVE  TMem'
  BY TypeParts DEF Typed, TMem

LEMMA MemReserved ==
  ASSUME Typed, UNCHANGED <<inst, phase, counter, seeded>>,
         reserved' \in [Keys -> Requests \cup {Nobody}]
  PROVE  TMem'
  BY TypeParts DEF Typed, TMem

LEMMA FreeTyped ==
  ASSUME Typed, NEW r \in Requests, Free(r)
  PROVE  reserved' \in [Keys -> Requests \cup {Nobody}]
  BY Zenon DEF Typed, TypeOK, Free

LEMMA GiveUpTyped ==
  ASSUME Typed, NEW r \in Requests, NEW ans \in Answers, served > 0, GiveUp(r, ans)
  PROVE  TQueue' /\ TReq' /\ reserved' \in [Keys -> Requests \cup {Nobody}]
<1>0. TQueue /\ TReq
  BY TypeParts DEF Typed
<1>1. CASE End(r, ans) /\ Last
  BY <1>0, <1>1, ReqEnd, QueueLast, FreeTyped DEF GiveUp
<1>2. CASE /\ req' = [req EXCEPT ![r].pc = "drop", ![r].res = "none", ![r].ans = ans]
           /\ Then(r)
  <2>1. TReq'
    <3>1. "drop" \in Steps /\ "none" \in Results
      BY DEF Steps, CallSteps, Results
    <3> QED
      BY ZenonT(60), <1>0, <1>2, <3>1 DEF TReq, RequestRecords
  <2> QED
    BY <1>0, <1>2, <2>1, QueueThen, FreeTyped DEF GiveUp
<1> QED
  BY <1>1, <1>2 DEF GiveUp

(* nextRun takes the number after the highest, or gives the launch up. *)
LEMMA NumberedTyped ==
  ASSUME Typed, NEW r \in Requests, NEW n \in Nat, served > 0, Numbered(r, n)
  PROVE  TQueue' /\ TReq' /\ counter' \in Nat
<1>0. TQueue /\ TReq
  BY TypeParts DEF Typed
<1>1. CASE End(r, "busy") /\ counter' = n + 1 /\ Last
  BY <1>0, <1>1, ReqEnd, QueueLast DEF Answers, NotAccepted
<1>2. CASE /\ req' = [req EXCEPT ![r].pc = IF Kind(r) = "tab" THEN "launch" ELSE "started",
                                 ![r].res = "none", ![r].run = n + 1]
           /\ counter' = n + 1 /\ Then(r)
  <2>1. TReq'
    <3>1. {"launch", "started"} \subseteq Steps /\ "none" \in Results
      BY DEF Steps, CallSteps, Results
    <3>2. PICK pc \in Steps : req' = [req EXCEPT ![r].pc = pc, ![r].res = "none", ![r].run = n + 1]
      BY Zenon, <1>2, <3>1
    <3>3. n + 1 \in Nat
      OBVIOUS
    <3> QED
      BY ZenonT(60), <1>0, <3>1, <3>2, <3>3 DEF TReq, RequestRecords
  <2> QED
    BY <1>0, <1>2, <2>1, QueueThen
<1> QED
  BY <1>1, <1>2 DEF Numbered

LEMMA PendingAnswerTyped == \A r : PendingAnswer(r) \in Answers
  BY DEF PendingAnswer, Answers, NotAccepted

(* The answers of the store: every continuation keeps the types. *)
LEMMA DeliverTyped ==
  ASSUME Typed, NEW r \in Requests, Deliver(r)
  PROVE  Typed'
<1> USE TypeParts, TypePartsNext
<1>0. TQueue /\ TReq /\ TData /\ TMem /\ THist /\ TRest /\ Bounded
  BY DEF Typed
<1>a. CallSteps \subseteq Steps
  BY DEF Steps
<1>b. {"record", "conflict", "expired", "busy", "mismatch", "unknown", "notFound"} \subseteq Answers
  BY DEF Answers, NotAccepted
<1>1. CASE LookupAnswered(r)
  <2>1. Answered(r, "lookup") /\ UNCHANGED <<reserved, counter, seeded>>
    BY <1>1 DEF LookupAnswered
  <2>2. \/ \E ans \in {"record", "conflict", "expired", "busy", "mismatch"} : End(r, ans) /\ Last
        \/ Go(r, "prepare") /\ Then(r)
    BY <1>1 DEF LookupAnswered
  <2>3. TQueue' /\ TReq'
    BY <1>0, <1>a, <1>b, <2>1, <2>2, AnsweredTyped, ReqEnd, ReqGo, QueueLast, QueueThen
       DEF CallSteps, ReadSteps
  <2> QED
    BY <2>1, <2>3, AnsweredTyped, MemKept DEF Typed
<1>2. CASE PrepareAnswered(r)
  <2>1. Answered(r, "prepare")
    BY <1>2 DEF PrepareAnswered
  <2>2. CASE Classify(r) # "reserve"
    <3>1. End(r, "busy") /\ Last /\ UNCHANGED <<reserved, counter, seeded>>
      BY <1>2, <2>2 DEF PrepareAnswered
    <3> QED
      BY <1>0, <1>b, <2>1, <3>1, AnsweredTyped, ReqEnd, QueueLast, MemKept DEF Typed
  <2>3. CASE Classify(r) = "reserve"
    <3>1. CASE /\ Go(r, CASE Kind(r) = "write" -> "write" [] Kind(r) = "stop" -> "commit" [] OTHER -> "number")
               /\ reserved' = [reserved EXCEPT ![Key(r)] = r]
               /\ Then(r) /\ counter' = counter /\ seeded' = seeded
      <4>1. (CASE Kind(r) = "write" -> "write" [] Kind(r) = "stop" -> "commit" [] OTHER -> "number") \in Steps
        BY DEF Steps, CallSteps
      <4>2. TQueue' /\ TReq'
        BY <1>0, <2>1, <3>1, <4>1, AnsweredTyped, ReqGo, QueueThen
      <4>3. reserved' \in [Keys -> Requests \cup {Nobody}]
        BY Zenon, <1>0, <3>1 DEF TMem
      <4> QED
        BY <2>1, <3>1, <4>2, <4>3, AnsweredTyped, MemReserved DEF Typed
    <3>2. CASE /\ Numbered(r, counter) /\ seeded' = seeded
               /\ reserved' = [reserved EXCEPT ![Key(r)] = IF req'[r].pc = "done" THEN Nobody ELSE r]
      <4>1. TQueue' /\ TReq' /\ counter' \in Nat
        BY <1>0, <2>1, <3>2, AnsweredTyped, NumberedTyped DEF TMem
      <4>2. TMem'
        BY ZenonT(60), <1>0, <2>1, <3>2, <4>1, AnsweredTyped DEF TMem
      <4> QED
        BY <2>1, <4>1, <4>2, AnsweredTyped DEF Typed
    <3> QED
      BY <1>2, <2>3, <3>1, <3>2 DEF PrepareAnswered
  <2> QED
    BY <2>2, <2>3
<1>3. CASE NumberAnswered(r)
  <2>1. Answered(r, "number")
    BY <1>3 DEF NumberAnswered
  <2>2. CASE Failed(r)
    <3>1. End(r, "busy") /\ Last /\ Free(r) /\ UNCHANGED <<counter, seeded>>
      BY <1>3, <2>2 DEF NumberAnswered
    <3> QED
      BY SMTT(60), <1>0, <1>b, <2>1, <3>1, AnsweredTyped, ReqEnd, QueueLast, FreeTyped, MemReserved DEF Typed
  <2>3. CASE ~Failed(r)
    <3> DEFINE n == IF req[r].run > counter THEN req[r].run ELSE counter
    <3>1. n \in Nat
      BY <1>0, ReqTyped DEF TMem
    <3> HIDE DEF n
    <3>2. Numbered(r, n) /\ seeded' = TRUE /\ (Free(r) \/ reserved' = reserved)
      BY <1>3, <2>3 DEF NumberAnswered, n
    <3>3. TQueue' /\ TReq' /\ counter' \in Nat
      BY <2>1, <3>1, <3>2, AnsweredTyped, NumberedTyped
    <3>4. reserved' \in [Keys -> Requests \cup {Nobody}]
      BY <1>0, <3>2, FreeTyped DEF TMem
    <3>5. TMem'
      BY <1>0, <2>1, <3>2, <3>3, <3>4, AnsweredTyped DEF TMem
    <3> QED
      BY <2>1, <3>3, <3>5, AnsweredTyped DEF Typed
  <2> QED
    BY <2>2, <2>3
<1>4. CASE StartedAnswered(r)
  <2>1. /\ Answered(r, "started") /\ UNCHANGED <<counter, seeded>>
        /\ \/ Go(r, "commit") /\ Then(r) /\ reserved' = reserved
           \/ End(r, "busy") /\ Last /\ Free(r)
    BY <1>4 DEF StartedAnswered
  <2>2. "commit" \in Steps
    BY DEF Steps, CallSteps
  <2>3. TQueue' /\ TReq'
    BY <1>0, <1>b, <2>1, <2>2, AnsweredTyped, ReqEnd, ReqGo, QueueLast, QueueThen
  <2>4. reserved' \in [Keys -> Requests \cup {Nobody}]
    BY <1>0, <2>1, FreeTyped DEF TMem
  <2> QED
    BY <2>1, <2>3, <2>4, AnsweredTyped, MemReserved DEF Typed
<1>5. CASE CommitAnswered(r) \/ LaunchAnswered(r)
  <2>1. /\ \E pc \in {"commit", "launch"} : Answered(r, pc)
        /\ UNCHANGED <<counter, seeded>>
        /\ \/ Go(r, "markGet") /\ Then(r) /\ Free(r)
           \/ \E ans \in {"record", "conflict", "busy"} : End(r, ans) /\ Last /\ Free(r)
           \/ \E ans \in {"busy", "unknown"} : GiveUp(r, ans)
    BY <1>5 DEF CommitAnswered, LaunchAnswered
  <2>2. "markGet" \in Steps
    BY DEF Steps, CallSteps, ReadSteps
  <2>3. served > 0
    BY <2>1, AnsweredTyped
  <2>4. TQueue' /\ TReq' /\ reserved' \in [Keys -> Requests \cup {Nobody}]
    <3>1. CASE Go(r, "markGet") /\ Then(r) /\ Free(r)
      BY <1>0, <2>2, <2>3, <3>1, ReqGo, QueueThen, FreeTyped
    <3>2. CASE \E ans \in {"record", "conflict", "busy"} : End(r, ans) /\ Last /\ Free(r)
      BY <1>0, <1>b, <2>3, <3>2, ReqEnd, QueueLast, FreeTyped
    <3>3. CASE \E ans \in {"busy", "unknown"} : GiveUp(r, ans)
      BY <1>b, <2>3, <3>3, GiveUpTyped
    <3> QED
      BY <2>1, <3>1, <3>2, <3>3
  <2> QED
    BY SMTT(60), <2>1, <2>4, AnsweredTyped, MemReserved DEF Typed
<1>6. CASE WriteAnswered(r)
  <2>1. /\ Answered(r, "write") /\ UNCHANGED <<counter, seeded>> /\ Last /\ Free(r)
        /\ \E ans \in {"record", "unknown", "busy", "conflict", "expired"} : End(r, ans)
    BY <1>6 DEF WriteAnswered
  <2> QED
    BY <1>0, <1>b, <2>1, AnsweredTyped, ReqEnd, QueueLast, FreeTyped, MemReserved DEF Typed
<1>7. CASE MarkGetAnswered(r) \/ MarkSetAnswered(r)
  <2>1. /\ \E pc \in {"markGet", "markSet"} : Answered(r, pc)
        /\ UNCHANGED <<counter, seeded>>
        /\ \/ GiveUp(r, "unknown")
           \/ Go(r, "markSet") /\ Then(r) /\ reserved' = reserved
           \/ Send(r) /\ Last /\ reserved' = reserved
    BY <1>7 DEF MarkGetAnswered, MarkSetAnswered
  <2>2. served > 0
    BY <2>1, AnsweredTyped
  <2>3. TQueue' /\ TReq' /\ reserved' \in [Keys -> Requests \cup {Nobody}]
    <3>1. CASE GiveUp(r, "unknown")
      BY <1>b, <2>2, <3>1, GiveUpTyped
    <3>2. CASE Go(r, "markSet") /\ Then(r) /\ reserved' = reserved
      <4>1. "markSet" \in Steps
        BY DEF Steps, CallSteps, SetSteps
      <4> QED
        BY <1>0, <2>2, <3>2, <4>1, ReqGo, QueueThen DEF TMem
    <3>3. CASE Send(r) /\ Last /\ reserved' = reserved
      <4>1. TReq'
        <5>1. "spawn" \in Steps /\ "none" \in Results /\ "sent" \in Works
          BY DEF Steps, Results, Works
        <5>2. req' = [req EXCEPT ![r].pc = "spawn", ![r].res = "none", ![r].work = "sent"]
          BY <3>3 DEF Send
        <5> QED
          BY ZenonT(60), <1>0, <5>1, <5>2 DEF TReq, RequestRecords
      <4> QED
        BY <1>0, <2>2, <3>3, <4>1, QueueLast DEF TMem
    <3> QED
      BY <2>1, <3>1, <3>2, <3>3
  <2> QED
    BY <2>1, <2>3, AnsweredTyped, MemReserved DEF Typed
<1>8. CASE RecordAnswered(r) \/ EndGetAnswered(r) \/ EndGet2Answered(r) \/ EndSetAnswered(r)
             \/ FinalAnswered(r) \/ DropAnswered(r) \/ ReadAnswered(r) \/ ReadGetAnswered(r)
             \/ ReadSetAnswered(r)
  <2> DEFINE Follow(pc) == req' = [req EXCEPT ![r].pc = pc, ![r].res = "none", ![r].base = req[r].seen.rev]
  <2>1. /\ \E pc \in CallSteps : Answered(r, pc)
        /\ UNCHANGED <<reserved, counter, seeded>>
        /\ \/ \E ans \in Answers : End(r, ans) /\ Last
           \/ \E pc \in CallSteps : Go(r, pc) /\ Then(r)
           \/ \E pc \in CallSteps : Follow(pc) /\ Then(r)
    <3>1. {"record", "endGet", "endGet2", "endSet", "final", "drop", "read", "readGet", "readSet", "reread"}
            \subseteq CallSteps
      BY DEF CallSteps, ReadSteps, SetSteps
    <3>2. req[r].ans \in Answers
      BY SMTT(60), ReqTyped
    <3>3. CASE RecordAnswered(r)
      BY ZenonT(60), <3>1, <3>3 DEF RecordAnswered
    <3>4. CASE EndGetAnswered(r)
      BY ZenonT(60), <1>b, <3>1, <3>4 DEF EndGetAnswered
    <3>5. CASE EndGet2Answered(r)
      BY ZenonT(60), <1>b, <3>1, <3>5 DEF EndGet2Answered
    <3>6. CASE EndSetAnswered(r)
      BY ZenonT(60), <1>b, <3>1, <3>6 DEF EndSetAnswered
    <3>7. CASE FinalAnswered(r)
      BY ZenonT(60), <1>b, <3>1, <3>7 DEF FinalAnswered
    <3>8. CASE DropAnswered(r)
      BY ZenonT(60), <3>1, <3>2, <3>8 DEF DropAnswered
    <3>9. CASE ReadAnswered(r)
      BY ZenonT(60), <1>b, <3>1, <3>9 DEF ReadAnswered
    <3>10. CASE ReadGetAnswered(r)
      BY ZenonT(60), <1>b, <3>1, <3>10 DEF ReadGetAnswered
    <3>11. CASE ReadSetAnswered(r)
      BY ZenonT(60), <1>b, <3>1, <3>11 DEF ReadSetAnswered
    <3> QED
      BY ZenonT(60), <1>8, <3>3, <3>4, <3>5, <3>6, <3>7, <3>8, <3>9, <3>10, <3>11
  <2>2. served > 0
    BY ZenonT(60), <2>1, AnsweredTyped
  <2>3. TQueue' /\ TReq'
    <3>1. CASE \E ans \in Answers : End(r, ans) /\ Last
      BY <1>0, <2>2, <3>1, ReqEnd, QueueLast
    <3>2. CASE \E pc \in CallSteps : Go(r, pc) /\ Then(r)
      BY <1>0, <1>a, <2>2, <3>2, ReqGo, QueueThen
    <3>3. CASE \E pc \in CallSteps : Follow(pc) /\ Then(r)
      <4>1. PICK pc \in Steps : Follow(pc) /\ Then(r)
        BY Zenon, <1>a, <3>3
      <4>2. "none" \in Results /\ req[r].seen.rev \in Nat
        BY ReqTyped DEF Results
      <4>3. TReq'
        BY ZenonT(60), <1>0, <4>1, <4>2 DEF TReq, RequestRecords
      <4> QED
        BY SMTT(60), <1>0, <2>2, <4>1, <4>3, QueueThen
    <3> QED
      BY Zenon, <2>1, <3>1, <3>2, <3>3
  <2> QED
    BY Zenon, <2>1, <2>3, AnsweredTyped, MemKept DEF Typed
<1> QED
  BY <1>1, <1>2, <1>3, <1>4, <1>5, <1>6, <1>7, <1>8 DEF Deliver

(* Requests, the worker and the end of an instance. *)
LEMMA SpendTyped ==
  ASSUME Typed, NEW what \in Faults, Spend(what)
  PROVE  left' \in [Faults -> Nat]
  BY DEF Typed, TypeOK, Spend

LEMMA RestTyped ==
  ASSUME Typed, left' \in [Faults -> Nat], UNCHANGED <<plan, ret, exited>>
  PROVE  TRest'
  BY TypeParts DEF Typed, TRest

LEMMA RequestTyped ==
  ASSUME Typed, NEW r \in Requests, Submit(r) \/ WorkerRuns(r) \/ WorkerRefuses(r) \/ WorkerAnswers(r)
  PROVE  Typed'
<1> USE TypeParts, TypePartsNext
<1>0. TQueue /\ TReq /\ TData /\ TMem /\ THist /\ TRest /\ Bounded
  BY DEF Typed
<1>1. CASE Submit(r)
  <2>1. UNCHANGED <<plan, left, durable, memory, ret, exited, history>>
    BY SMTT(60), <1>1 DEF Submit
  <2>2. \/ End(r, PendingAnswer(r)) /\ UNCHANGED queue
        \/ \E pc \in {"read", "lookup"} : Go(r, pc) /\ Ask(r)
    BY <1>1 DEF Submit
  <2>3. {"read", "lookup"} \subseteq Steps
    BY DEF Steps, CallSteps, ReadSteps
  <2>4. TQueue' /\ TReq'
    BY <1>0, <2>2, <2>3, ReqEnd, ReqGo, QueueAsk, PendingAnswerTyped DEF queue, TQueue
  <2> QED
    BY SMTT(60), <1>0, <2>1, <2>4, SameData, HistoryTyped DEF Typed, memory, TMem, TRest
<1>2. CASE WorkerRuns(r)
  <2>1. /\ req' = [req EXCEPT ![r].work = "ran"]
        /\ effects' = [effects EXCEPT ![Key(r)] = @ + 1]
        /\ UNCHANGED <<plan, left, durable, memory, queue, ret, exited, owner, named, rowDropped>>
    BY <1>2 DEF WorkerRuns
  <2>2. TReq'
    BY <1>0, <2>1 DEF TReq, RequestRecords, Works
  <2>3. THist'
    BY <1>0, <2>1, KeyTyped DEF THist
  <2> QED
    BY <1>0, <2>1, <2>2, <2>3, SameData DEF Typed, memory, queue, TMem, TRest, TQueue
<1>3. CASE WorkerRefuses(r)
  <2>1. /\ req' = [req EXCEPT ![r].work = "refused"]
        /\ UNCHANGED <<plan, left, receipts, memory, queue, ret, exited, effects, owner, named>>
        /\ UNCHANGED <<rows, rowDropped>> \/ Drops(req[r].run)
    BY <1>3 DEF WorkerRefuses
  <2>2. TReq'
    BY <1>0, <2>1 DEF TReq, RequestRecords, Works
  <2>3. rows' \subseteq rows /\ rowDropped' \in BOOLEAN
    BY <1>0, <2>1, DropsTyped DEF THist
  <2>4. TData' /\ THist' /\ Numbers' \subseteq Numbers \cup {0}
    BY <1>0, <2>1, <2>3 DEF TData, THist, Numbers
  <2>5. TQueue' /\ TMem' /\ TRest'
    BY <1>0, <2>1 DEF memory, queue, TMem, TRest, TQueue
  <2> QED
    BY <2>2, <2>4, <2>5, BoundedGrows DEF Typed
<1>4. CASE WorkerAnswers(r)
  <2>1. /\ Ask(r) /\ UNCHANGED <<plan, left, durable, memory, ret, exited, history>>
        /\ \E out \in Outcomes, pc \in {"endGet", "record"} :
             req' = [req EXCEPT ![r].out = out, ![r].pc = pc]
    BY Zenon, <1>4 DEF WorkerAnswers
  <2>2. {"endGet", "record"} \subseteq Steps
    BY DEF Steps, CallSteps, ReadSteps
  <2>3. TReq'
    BY ZenonT(60), <1>0, <2>1, <2>2 DEF TReq, RequestRecords
  <2> QED
    BY <1>0, <2>1, <2>3, QueueAsk, SameData, HistoryTyped DEF Typed, memory, TMem, TRest
<1> QED
  BY <1>1, <1>2, <1>3, <1>4

(* The retention pass. *)
LEMMA PassTyped ==
  ASSUME Typed, PassBegins \/ ServeMark \/ ServePurge \/ ServePassRefused \/ PassAnswered
  PROVE  Typed'
<1> USE TypeParts, TypePartsNext
<1>0. TQueue /\ TReq /\ TData /\ TMem /\ THist /\ TRest /\ Bounded
  BY DEF Typed
<1>a. /\ ret.pc \in {"idle", "mark", "purge"} /\ ret.res \in Results /\ ret.mark \in Nat
      /\ Resting \in PassRecords
  BY <1>0 DEF TRest, PassRecords, Resting, Results
<1>1. CASE PassBegins
  <2>1. /\ Spend("passes") /\ ret' = [ret EXCEPT !.pc = "mark"] /\ Ask(Retention)
        /\ UNCHANGED <<plan, durable, memory, req, exited, history>>
    BY <1>1 DEF PassBegins
  <2>2. TRest'
    BY <1>0, <2>1, SpendTyped DEF TRest, PassRecords, Faults
  <2> QED
    BY <1>0, <2>1, <2>2, QueueAsk, SameData, HistoryTyped DEF Typed, memory, TMem, TReq
<1>2. CASE ServeMark
  <2>1. RetentionTurn("mark") /\ UNCHANGED <<durable, history>>
        /\ ret' = [ret EXCEPT !.res = "yes", !.mark = HighestNumber]
    BY <1>2 DEF ServeMark
  <2>2. ret' \in PassRecords
    BY Zenon, <1>0, <2>1, HighestNumberTyped DEF TRest, PassRecords, Results
  <2>3. TQueue'
    BY <1>0, <2>1, QueueServe DEF RetentionTurn
  <2> QED
    BY <1>0, <2>1, <2>2, <2>3, SameData, HistoryTyped DEF Typed, RetentionTurn, memory, TMem, TReq, TRest
<1>3. CASE ServePurge
  <2>1. RetentionTurn("purge") /\ UNCHANGED <<rows, history>>
    BY <1>3 DEF ServePurge
  <2>2. ret' \in PassRecords
    BY <1>0, <1>3 DEF ServePurge, TRest, PassRecords, Results
  <2>3. TQueue'
    BY <1>0, <2>1, QueueServe DEF RetentionTurn
  <2>4. TData' /\ Numbers' \subseteq Numbers \cup {0}
    <3>1. CASE receipts' = receipts
      BY <1>0, <2>1, <3>1 DEF TData, Numbers
    <3>2. CASE \E k \in Keys : receipts' = [receipts EXCEPT ![k] = Receipt("purged", @.intent, @.method, 0, 0)]
      <4>1. PICK k \in Keys : receipts' = [receipts EXCEPT ![k] = Receipt("purged", receipts[k].intent, receipts[k].method, 0, 0)]
        BY Zenon, <1>0, <3>2 DEF TData
      <4> DEFINE new == Receipt("purged", receipts[k].intent, receipts[k].method, 0, 0)
      <4>2. new \in ReceiptRecords /\ new.run = 0
        BY Zenon, <1>0 DEF TData, Receipt, ReceiptRecords, States
      <4> HIDE DEF new
      <4>3. receipts' = [receipts EXCEPT ![k] = new]
        BY <4>1 DEF new
      <4> QED
        BY <1>0, <2>1, <4>2, <4>3 DEF TData, Numbers
    <3> QED
      BY <1>3, <3>1, <3>2 DEF ServePurge
  <2> QED
    BY <1>0, <2>1, <2>2, <2>3, <2>4, BoundedGrows, HistoryTyped DEF Typed, RetentionTurn, memory, TMem, TReq, TRest
<1>4. CASE ServePassRefused
  <2>1. /\ served < Len(calls) /\ served' = served + 1 /\ Spend("refusals")
        /\ ret' = [ret EXCEPT !.res = "refused"]
        /\ UNCHANGED <<plan, calls, durable, memory, req, exited, history>>
    BY <1>4 DEF ServePassRefused
  <2>2. TRest'
    BY <1>0, <2>1, SpendTyped DEF TRest, PassRecords, Faults, Results
  <2> QED
    BY <1>0, <2>1, <2>2, QueueServe, SameData, HistoryTyped DEF Typed, memory, TMem, TReq
<1>5. CASE PassAnswered
  <2>1. /\ served > 0 /\ UNCHANGED <<plan, left, durable, memory, req, exited, history>>
        /\ \/ ret' = [ret EXCEPT !.pc = "purge", !.res = "none"] /\ Then(Retention)
           \/ ret' = Resting /\ Last
    BY <1>5 DEF PassAnswered
  <2>2. TRest'
    BY Zenon, <1>0, <1>a, <2>1 DEF TRest, PassRecords, Results
  <2> QED
    BY <1>0, <2>1, <2>2, QueueThen, QueueLast, SameData, HistoryTyped DEF Typed, memory, TMem, TReq
<1> QED
  BY <1>1, <1>2, <1>3, <1>4, <1>5

LEMMA InstanceTyped ==
  ASSUME Typed, StoreFails \/ Crash \/ Serving \/ RunExits \/ \E k \in Keys : Verify(k)
  PROVE  Typed'
<1> USE TypeParts, TypePartsNext
<1>0. TQueue /\ TReq /\ TData /\ TMem /\ THist /\ TRest /\ Bounded
  BY DEF Typed
<1>1. CASE StoreFails
  <2>1. /\ Spend("failures") /\ phase' = "failed" /\ served' = Len(calls)
        /\ UNCHANGED <<plan, durable, inst, calls, reserved, counter, seeded, exited, history>>
    BY <1>1 DEF StoreFails
  <2>2. TReq'
    <3>1. \A r \in Requests, res \in {"unknown", "refused"} : [req[r] EXCEPT !.res = res] \in RequestRecords
      BY <1>0 DEF TReq, RequestRecords, Results
    <3>2. \A r \in Requests : req[r] \in RequestRecords
      BY <1>0 DEF TReq
    <3>3. PICK sent \in served .. Len(calls) :
            req' = [r \in Requests |->
                      IF \E i \in DOMAIN calls : calls[i] = r
                        THEN [req[r] EXCEPT !.res = IF \E i \in 1 .. sent : calls[i] = r THEN "unknown" ELSE "refused"]
                        ELSE req[r]]
      BY Zenon, <1>1 DEF StoreFails
    <3> QED
      BY Zenon, <3>1, <3>2, <3>3 DEF TReq
  <2>3. ret' \in PassRecords
    <3>1. ret' = ret \/ ret' = [ret EXCEPT !.res = "unknown"] \/ ret' = [ret EXCEPT !.res = "refused"]
      BY <1>1 DEF StoreFails
    <3> QED
      BY <1>0, <3>1 DEF TRest, PassRecords, Results
  <2>4. TQueue' /\ TMem'
    BY <1>0, <2>1 DEF TQueue, TMem
  <2>5. TRest'
    BY <1>0, <2>1, <2>3, SpendTyped DEF TRest, Faults
  <2> QED
    BY <1>0, <2>1, <2>2, <2>4, <2>5, SameData, HistoryTyped DEF Typed
<1>2. CASE Crash
  <2>1. /\ Spend("crashes") /\ phase' = "starting" /\ inst' = inst + 1
        /\ calls' = <<>> /\ served' = 0 /\ reserved' = [k \in Keys |-> Nobody]
        /\ counter' = 0 /\ seeded' = FALSE /\ ret' = Resting
        /\ UNCHANGED <<plan, durable, exited, history>>
    BY Zenon, <1>2 DEF Crash
  <2>2. TReq'
    <3> DEFINE gone(r) == [Idle EXCEPT !.pc = IF req[r].pc = "done" THEN "done" ELSE "lost",
                                       !.ans = IF req[r].pc = "done" THEN req[r].ans ELSE "none"]
    <3>1. Idle \in RequestRecords
      <4>1. NoReceipt \in ReceiptRecords
        BY DEF NoReceipt, Receipt, ReceiptRecords, States
      <4> QED
        BY <4>1 DEF Idle, RequestRecords, Steps, CallSteps, Results, Works, Outcomes, Answers
    <3>2. \A r \in Requests : gone(r) \in RequestRecords
      <4> SUFFICES ASSUME NEW r \in Requests
                   PROVE  gone(r) \in RequestRecords
        BY Zenon
      <4>1. PICK pc \in Steps, ans \in Answers : gone(r) = [Idle EXCEPT !.pc = pc, !.ans = ans]
        BY ZenonT(60), ReqTyped DEF Steps, Answers
      <4> QED
        BY ZenonT(60), <3>1, <4>1 DEF RequestRecords
    <3>3. \A r \in Requests : req[r] \in RequestRecords
      BY <1>0 DEF TReq
    <3>4. req' = [r \in Requests |-> IF req[r].pc = "new" THEN req[r] ELSE gone(r)]
      BY Zenon, <1>2 DEF Crash
    <3> HIDE DEF gone
    <3> QED
      BY <3>2, <3>3, <3>4 DEF TReq
  <2>3. TQueue' /\ TMem'
    <3>1. calls' \in Seq(Requests \cup {Retention}) /\ served' \in 0..Len(calls')
      BY <2>1
    <3>2. inst' \in Nat /\ reserved' \in [Keys -> Requests \cup {Nobody}]
      BY <1>0, <2>1 DEF TMem
    <3> QED
      BY Zenon, <2>1, <3>1, <3>2 DEF TQueue, TMem
  <2>4. Resting \in PassRecords
    BY DEF Resting, PassRecords, Results
  <2>5. TRest'
    BY <1>0, <2>1, <2>4, SpendTyped DEF TRest, Faults
  <2> QED
    BY SMTT(60), <1>0, <2>1, <2>2, <2>3, <2>5, SameData, HistoryTyped DEF Typed
<1>3. CASE Serving
  <2>1. /\ rows' = {IF w.inst # inst THEN [w EXCEPT !.life = "ended"] ELSE w : w \in rows}
        /\ phase' = "serving"
        /\ UNCHANGED <<plan, left, receipts, inst, reserved, counter, seeded, queue, req, ret, exited, history>>
    BY <1>3 DEF Serving
  <2>2. \A w \in RowRecords : [w EXCEPT !.life = "ended"] \in RowRecords
                                /\ [w EXCEPT !.life = "ended"].run = w.run
    BY DEF RowRecords
  <2>3. rows' \subseteq RowRecords /\ {w.run : w \in rows'} \subseteq {w.run : w \in rows}
    <3> DEFINE end(w) == IF w.inst # inst THEN [w EXCEPT !.life = "ended"] ELSE w
    <3>1. \A w \in rows : end(w) \in RowRecords /\ end(w).run = w.run
      BY Zenon, <1>0, <2>2 DEF TData
    <3>2. rows' = {end(w) : w \in rows}
      BY <2>1
    <3> HIDE DEF end
    <3> QED
      BY <3>1, <3>2
  <2>4. TData' /\ Numbers' \subseteq Numbers \cup {0}
    BY ZenonT(60), <1>0, <2>1, <2>3 DEF TData, Numbers
  <2>5. TQueue' /\ TReq' /\ TMem' /\ TRest'
    BY <1>0, <2>1 DEF queue, TQueue, TReq, TMem, TRest
  <2> QED
    BY <1>0, <2>1, <2>4, <2>5, BoundedGrows, HistoryTyped DEF Typed
<1>4. CASE RunExits
  BY <1>0, <1>4, SameData, HistoryTyped DEF RunExits, Typed, memory, queue, TQueue, TReq, TMem, TRest
<1>5. ASSUME NEW k \in Keys, Verify(k)
      PROVE  Typed'
  <2>1. UNCHANGED <<plan, left, rows, memory, queue, req, ret, exited, history>>
    BY <1>5 DEF Verify
  <2>2. {"recovering", "requires_attention"} \subseteq States
    BY DEF States, Unfinished, Terminal
  <2>3. PICK state \in States : receipts' = Replace(k, receipts[k].rev, state)
    BY <1>5, <2>2 DEF Verify
  <2>4. receipts[k].rev \in Nat
    BY Zenon, <1>0 DEF TData, ReceiptRecords
  <2>5. TData' /\ \A j \in Keys : receipts'[j].run = receipts[j].run
    BY <1>0, <2>1, <2>3, <2>4, ReplaceTyped DEF TData
  <2>6. Bounded'
    BY <1>0, <2>1, <2>5 DEF Bounded, Numbers
  <2> QED
    BY ZenonT(60), <1>0, <2>1, <2>5, <2>6, HistoryTyped DEF Typed, memory, queue, TQueue, TReq, TMem, TRest
<1> QED
  BY <1>1, <1>2, <1>3, <1>4, <1>5

LEMMA TypedStep == Typed /\ [Next]_vars => Typed'
<1> SUFFICES ASSUME Typed, [Next]_vars
             PROVE  Typed'
  OBVIOUS
<1>1. CASE Next
  BY SMTT(60), <1>1, ServeTyped, DeliverTyped, RequestTyped, PassTyped, InstanceTyped DEF Next
<1>2. CASE UNCHANGED vars
  BY Zenon, <1>2 DEF vars, Typed, TypeOK, Bounded, Numbers
<1> QED
  BY <1>1, <1>2

(* Every variable keeps its type, whatever the requests and the scenarios are: in         *)
(* particular a call is answered once (served never exceeds the calls that are waiting),  *)
(* and run numbers, revisions and execution counts are natural numbers.                   *)
THEOREM TypeCorrect == Spec => []TypeOK
<1>1. Typed => TypeOK
  BY DEF Typed
<1> QED
  BY <1>1, TypedInit, TypedStep, PTL DEF Spec

-----------------------------------------------------------------------------
(* At most once.  A command is sent only by the request whose receipt the key holds, after *)
(* that receipt was inserted; a receipt is inserted only under a key the database does not *)
(* know, and the database never forgets a key.                                             *)

PreSend == {"new", "lookup", "prepare", "number", "started", "commit", "launch", "write", "markGet", "markSet"}
Sends(pc, res, work) ==
  pc \in {"markGet", "markSet"} \/ (pc \in {"commit", "launch"} /\ res = "yes") \/ work = "sent"
WillSend(r) == Sends(req[r].pc, req[r].res, req[r].work)

Once ==
  /\ \A k \in Keys : effects[k] <= 1
  /\ \A k \in Keys : ~Known(k) => effects[k] = 0 /\ owner[k] = Nobody
  /\ \A r \in Requests : req[r].pc \in PreSend => req[r].work = "none"
  /\ \A r \in Requests : WillSend(r) => owner[Key(r)] = r /\ effects[Key(r)] = 0

LEMMA OnceInit == Init => Once
<1> SUFFICES ASSUME Init
             PROVE  Once
  OBVIOUS
<1>1. \A k \in Keys : effects[k] = 0 /\ owner[k] = Nobody
  BY DEF Init
<1>2. \A r \in Requests : req[r].pc = "new" /\ req[r].work = "none"
  BY DEF Init, Idle
<1> QED
  BY <1>1, <1>2 DEF Once, WillSend, Sends

(* What a step does to one request. *)
Moves(r, pc, res, work) ==
  /\ \A q \in Requests \ {r} : req'[q] = req[q]
  /\ req'[r].pc = pc /\ req'[r].res = res /\ req'[r].work = work
KnownKept == \A k \in Keys : Known(k) => Known(k)'

LEMMA EndMoves ==
  ASSUME Typed, NEW r \in Requests, NEW ans, End(r, ans)
  PROVE  Moves(r, "done", "none", req[r].work)
<1>1. req \in [Requests -> RequestRecords]
  BY DEF Typed, TypeOK
<1> QED
  BY <1>1 DEF End, Moves, RequestRecords

LEMMA GoMoves ==
  ASSUME Typed, NEW r \in Requests, NEW pc, Go(r, pc)
  PROVE  Moves(r, pc, "none", req[r].work)
<1>1. req \in [Requests -> RequestRecords]
  BY DEF Typed, TypeOK
<1> QED
  BY <1>1 DEF Go, Moves, RequestRecords

LEMMA ResultMoves ==
  ASSUME Typed, NEW r \in Requests, NEW res, Result(r, res)
  PROVE  Moves(r, req[r].pc, res, req[r].work)
<1>1. req \in [Requests -> RequestRecords]
  BY DEF Typed, TypeOK
<1> QED
  BY SMTT(60), <1>1 DEF Result, Moves, RequestRecords

(* A step that executes nothing, inserts no receipt and makes no request send anew. *)
LEMMA Steady ==
  ASSUME Typed, Once, KnownKept, UNCHANGED <<plan, effects, owner>>,
         \A r \in Requests : /\ req'[r].pc \in PreSend => req'[r].work = "none"
                             /\ WillSend(r)' => WillSend(r)
  PROVE  Once'
<1>1. \A k \in Keys : effects'[k] <= 1
  BY SMTT(60) DEF Once
<1>2. \A k \in Keys : ~Known(k)' => effects'[k] = 0 /\ owner'[k] = Nobody
  BY DEF Once, KnownKept
<1>3. \A r \in Requests : WillSend(r)' => owner'[Key(r)'] = r /\ effects'[Key(r)'] = 0
  BY DEF Once, Key
<1> QED
  BY <1>1, <1>2, <1>3 DEF Once

LEMMA SteadyMove ==
  ASSUME Typed, Once, KnownKept, UNCHANGED <<plan, effects, owner>>,
         NEW r \in Requests, NEW pc, NEW res, NEW work, Moves(r, pc, res, work),
         pc \in PreSend => work = "none", Sends(pc, res, work) => WillSend(r)
  PROVE  Once'
<1>1. ASSUME NEW q \in Requests
      PROVE  /\ req'[q].pc \in PreSend => req'[q].work = "none"
             /\ WillSend(q)' => WillSend(q)
  <2>1. CASE q = r
    BY SMTT(60), <2>1 DEF Moves, WillSend
  <2>2. CASE q # r
    BY <2>2 DEF Moves, WillSend, Once
  <2> QED
    BY <2>1, <2>2
<1> QED
  BY SMTT(60), <1>1, Steady

LEMMA SameKnown == UNCHANGED receipts => KnownKept
  BY SMTT(60) DEF KnownKept, Known

(* The receipt of r is inserted: r, and r alone, may send under the key. *)
LEMMA InsertOnce ==
  ASSUME Typed, Once, NEW r \in Requests, ~Known(Key(r)), req[r].pc \in PreSend,
         NEW state \in States \ {"none"}, NEW rev, Inserted(r, state, rev), UNCHANGED <<plan, effects>>,
         Moves(r, req[r].pc, "yes", req[r].work)
  PROVE  Once'
<1>k. PICK k \in Keys : k = Key(r)
  BY SMTT(60), KeyTyped
<1>0. effects[k] = 0 /\ owner[k] = Nobody
  BY <1>k DEF Once
<1>1. /\ receipts \in [Keys -> ReceiptRecords] /\ owner \in [Keys -> Requests \cup {Nobody}]
      /\ plan \in [Requests -> Plans]
  BY DEF Typed, TypeOK
<1>2. owner' = [owner EXCEPT ![k] = r] /\ Known(k)' /\ \A j \in Keys \ {k} : Known(j)' <=> Known(j)
  <2>1. receipts' = [receipts EXCEPT ![k] = Receipt(state, Intent(r), Kind(r), rev, req[r].run)]
    BY <1>k DEF Inserted
  <2>2. receipts'[k].state = state /\ \A j \in Keys \ {k} : receipts'[j] = receipts[j]
    BY SMTT(60), <1>1, <2>1 DEF Receipt
  <2> QED
    BY <1>k, <2>2 DEF Inserted, Known
<1>3. \A j \in Keys : effects'[j] <= 1
  BY SMTT(60) DEF Once
<1>4. \A j \in Keys : ~Known(j)' => effects'[j] = 0 /\ owner'[j] = Nobody
  BY SMTT(60), <1>0, <1>1, <1>2 DEF Once
<1>5. \A q \in Requests : Key(q)' = Key(q) /\ Key(q) \in Keys
  BY SMTT(60), KeyTyped DEF Key
<1>6. ASSUME NEW q \in Requests
      PROVE  /\ req'[q].pc \in PreSend => req'[q].work = "none"
             /\ WillSend(q)' => owner'[Key(q)'] = q /\ effects'[Key(q)'] = 0
  <2>1. CASE q = r
    <3>1. req'[q].work = "none"
      BY <2>1 DEF Moves, Once
    <3>2. owner'[k] = r /\ effects'[k] = 0
      BY SMTT(60), <1>0, <1>1, <1>2
    <3> QED
      BY SMTT(60), <1>k, <1>5, <2>1, <3>1, <3>2
  <2>2. CASE q # r
    <3>1. req'[q] = req[q]
      BY <2>2 DEF Moves
    <3>2. WillSend(q)' => WillSend(q)
      BY SMTT(60), <3>1 DEF WillSend
    <3>3. WillSend(q) => owner[Key(q)] = q /\ effects[Key(q)] = 0
      BY SMTT(60) DEF Once
    <3>4. WillSend(q) => Key(q) # k
      BY SMTT(60), <1>0, <3>3, NobodyApart
    <3> QED
      BY ZenonT(60), <1>1, <1>2, <1>5, <3>1, <3>2, <3>3, <3>4 DEF Once
  <2> QED
    BY SMTT(60), <2>1, <2>2
<1> QED
  BY <1>3, <1>4, <1>6 DEF Once

(* A change of the database alone is executed as its receipt is inserted. *)
LEMMA WriteOnce ==
  ASSUME Typed, Once, NEW r \in Requests, ~Known(Key(r)), req[r].pc = "write",
         Inserted(r, "succeeded", 1), Result(r, "yes"), UNCHANGED plan,
         effects' = [effects EXCEPT ![Key(r)] = @ + 1]
  PROVE  Once'
<1>k. PICK k \in Keys : k = Key(r)
  BY SMTT(60), KeyTyped
<1>0. effects[k] = 0 /\ owner[k] = Nobody
  BY <1>k DEF Once
<1>1. /\ receipts \in [Keys -> ReceiptRecords] /\ owner \in [Keys -> Requests \cup {Nobody}]
      /\ plan \in [Requests -> Plans] /\ effects \in [Keys -> Nat]
  BY SMTT(60) DEF Typed, TypeOK
<1>2. owner' = [owner EXCEPT ![k] = r] /\ Known(k)' /\ \A j \in Keys \ {k} : Known(j)' <=> Known(j)
  <2>1. receipts' = [receipts EXCEPT ![k] = Receipt("succeeded", Intent(r), Kind(r), 1, req[r].run)]
    BY SMTT(60), <1>k DEF Inserted
  <2>2. receipts'[k].state = "succeeded" /\ \A j \in Keys \ {k} : receipts'[j] = receipts[j]
    BY SMTT(60), <1>1, <2>1 DEF Receipt
  <2> QED
    BY SMTT(60), <1>k, <2>2 DEF Inserted, Known
<1>3. effects'[k] = 1 /\ \A j \in Keys \ {k} : effects'[j] = effects[j]
  BY SMTT(60), <1>k, <1>0, <1>1
<1>4. \A j \in Keys : effects'[j] <= 1
  BY SMTT(60), <1>3 DEF Once
<1>5. \A j \in Keys : ~Known(j)' => effects'[j] = 0 /\ owner'[j] = Nobody
  BY SMTT(60), <1>1, <1>2, <1>3 DEF Once
<1>6. \A q \in Requests : Key(q)' = Key(q) /\ Key(q) \in Keys
  BY SMTT(60), KeyTyped DEF Key
<1>7. ASSUME NEW q \in Requests
      PROVE  /\ req'[q].pc \in PreSend => req'[q].work = "none"
             /\ WillSend(q)' => owner'[Key(q)'] = q /\ effects'[Key(q)'] = 0
  <2>0. Moves(r, "write", "yes", req[r].work)
    BY SMTT(60), ResultMoves
  <2>1. CASE q = r
    <3>1. req'[q].work = "none" /\ req'[q].pc = "write"
      BY SMTT(60), <2>0, <2>1 DEF Moves, Once, PreSend
    <3> QED
      BY SMTT(60), <3>1 DEF WillSend, Sends
  <2>2. CASE q # r
    <3>1. req'[q] = req[q]
      BY <2>0, <2>2 DEF Moves
    <3>2. WillSend(q)' => WillSend(q)
      BY SMTT(60), <3>1 DEF WillSend
    <3>3. WillSend(q) => owner[Key(q)] = q /\ effects[Key(q)] = 0
      BY SMTT(60) DEF Once
    <3>4. WillSend(q) => Key(q) # k
      BY <1>0, <3>3, NobodyApart
    <3> QED
      BY ZenonT(60), <1>1, <1>2, <1>3, <1>6, <3>1, <3>2, <3>3, <3>4 DEF Once
  <2> QED
    BY SMTT(60), <2>1, <2>2
<1> QED
  BY SMTT(60), <1>4, <1>5, <1>7 DEF Once

(* A receipt that is replaced is still a receipt. *)
LEMMA ReplaceKnown ==
  ASSUME Typed, NEW k \in Keys, NEW rev, NEW state, state # "none",
         receipts' = Replace(k, rev, state)
  PROVE  KnownKept
<1>1. receipts \in [Keys -> ReceiptRecords]
  BY DEF Typed, TypeOK
<1>2. \A j \in Keys : receipts'[j].state \in {receipts[j].state, state}
  BY Zenon, <1>1 DEF Replace, ReceiptRecords
<1> QED
  BY <1>2 DEF KnownKept, Known

LEMMA ServeOnce ==
  ASSUME Typed, Once, NEW r \in Requests, Serve(r)
  PROVE  Once'
<1>0. /\ req \in [Requests -> RequestRecords]
      /\ req[r].pc \in PreSend => req[r].work = "none"
  BY DEF Typed, TypeOK, Once
<1>a. ASSUME NEW pc, Turn(r, pc)
      PROVE  req[r].pc = pc /\ UNCHANGED plan
  BY <1>a DEF Turn
<1>1. CASE ServeGet(r)
  <2>1. PICK pc \in ReadSteps :
          /\ Turn(r, pc) /\ UNCHANGED <<durable, history>>
          /\ req' = [req EXCEPT ![r].res = "yes", ![r].seen = receipts[Key(r)]]
    BY <1>1 DEF ServeGet
  <2>2. Moves(r, pc, "yes", req[r].work) /\ req[r].pc = pc
    BY SMTT(60), <1>0, <1>a, <2>1 DEF Moves, RequestRecords
  <2>3. Sends(pc, "yes", req[r].work) => WillSend(r)
    BY <2>2 DEF Sends, WillSend, ReadSteps
  <2>4. KnownKept /\ UNCHANGED <<plan, effects, owner>>
    BY <1>a, <2>1, SameKnown DEF durable, history
  <2> QED
    BY <1>0, <2>2, <2>3, <2>4, SteadyMove
<1>2. CASE ServeNumber(r)
  <2>1. Moves(r, "number", "yes", req[r].work) /\ req[r].pc = "number"
    BY SMTT(60), <1>0, <1>2, <1>a DEF ServeNumber, Moves, RequestRecords
  <2>2. Sends("number", "yes", req[r].work) => WillSend(r)
    BY <2>1 DEF Sends, WillSend
  <2>3. KnownKept /\ UNCHANGED <<plan, effects, owner>>
    BY <1>2, <1>a, SameKnown DEF ServeNumber, durable, history
  <2> QED
    BY <1>0, <2>1, <2>2, <2>3, SteadyMove
<1>3. CASE ServeStarted(r) \/ ServeRecord(r) \/ ServeDrop(r)
  <2>1. PICK pc \in {"started", "record", "drop"} :
          /\ Turn(r, pc) /\ (Result(r, "yes") \/ Result(r, "no"))
          /\ UNCHANGED <<receipts, effects, owner>>
    <3>1. CASE ServeStarted(r)
      BY <3>1 DEF ServeStarted, history
    <3>2. CASE ServeRecord(r)
      BY <3>2 DEF ServeRecord
    <3>3. CASE ServeDrop(r)
      BY <3>3 DEF ServeDrop
    <3> QED
      BY <1>3, <3>1, <3>2, <3>3
  <2>2. PICK res \in {"yes", "no"} : Moves(r, pc, res, req[r].work) /\ req[r].pc = pc
    BY <1>a, <2>1, ResultMoves
  <2>3. Sends(pc, res, req[r].work) => WillSend(r)
    BY <2>2 DEF Sends, WillSend
  <2>4. KnownKept /\ UNCHANGED <<plan, effects, owner>>
    BY <1>a, <2>1, SameKnown
  <2> QED
    BY <1>0, <2>2, <2>3, <2>4, SteadyMove
<1>4. CASE ServeInsert(r) \/ ServeLaunch(r)
  <2>1. PICK pc \in {"commit", "launch"} : Turn(r, pc) /\ effects' = effects
    BY <1>4 DEF ServeInsert, ServeLaunch
  <2>2. req[r].pc = pc /\ UNCHANGED <<plan, effects>>
    BY SMTT(60), <1>a, <2>1
  <2>3. CASE ~Known(Key(r)) /\ Inserted(r, "accepted", 0) /\ Result(r, "yes")
    <3>1. "accepted" \in States \ {"none"} /\ req[r].pc \in PreSend
      BY <2>2 DEF States, Unfinished, PreSend
    <3> QED
      BY <2>2, <2>3, <3>1, ResultMoves, InsertOnce
  <2>4. CASE /\ UNCHANGED <<receipts, owner>>
             /\ \E res \in {"refused", "no"} :
                  Result(r, res) \/ req' = [req EXCEPT ![r].seen = receipts[Key(r)], ![r].res = res]
    <3>1. PICK res \in {"refused", "no"} :
            Result(r, res) \/ req' = [req EXCEPT ![r].seen = receipts[Key(r)], ![r].res = res]
      BY <2>4
    <3>2. Moves(r, pc, res, req[r].work)
      <4>1. CASE Result(r, res)
        BY <2>2, <4>1, ResultMoves
      <4>2. CASE req' = [req EXCEPT ![r].seen = receipts[Key(r)], ![r].res = res]
        BY <1>0, <2>2, <4>2 DEF Moves, RequestRecords
      <4> QED
        BY SMTT(60), <3>1, <4>1, <4>2
    <3>3. Sends(pc, res, req[r].work) => WillSend(r)
      BY <2>2 DEF Sends, WillSend
    <3> QED
      BY <1>0, <2>2, <2>4, <3>2, <3>3, SameKnown, SteadyMove
  <2> QED
    BY <1>4, <2>3, <2>4 DEF ServeInsert, ServeLaunch
<1>5. CASE ServeWrite(r)
  <2>1. req[r].pc = "write" /\ UNCHANGED plan
    BY <1>5, <1>a DEF ServeWrite
  <2>2. CASE ~Known(Key(r)) /\ Inserted(r, "succeeded", 1) /\ Result(r, "yes")
               /\ effects' = [effects EXCEPT ![Key(r)] = @ + 1]
    BY ZenonT(60), <2>1, <2>2, WriteOnce
  <2>3. CASE /\ UNCHANGED <<receipts, owner, effects>>
             /\ \E res \in {"refused", "no"} :
                  Result(r, res) \/ req' = [req EXCEPT ![r].seen = receipts[Key(r)], ![r].res = res]
    <3>1. PICK res \in {"refused", "no"} :
            Result(r, res) \/ req' = [req EXCEPT ![r].seen = receipts[Key(r)], ![r].res = res]
      BY <2>3
    <3>2. Moves(r, "write", res, req[r].work)
      <4>1. CASE Result(r, res)
        BY <2>1, <4>1, ResultMoves
      <4>2. CASE req' = [req EXCEPT ![r].seen = receipts[Key(r)], ![r].res = res]
        BY <1>0, <2>1, <4>2 DEF Moves, RequestRecords
      <4> QED
        BY <3>1, <4>1, <4>2
    <3>3. Sends("write", res, req[r].work) => WillSend(r)
      BY <2>1 DEF Sends, WillSend
    <3> QED
      BY <1>0, <2>1, <2>3, <3>2, <3>3, SameKnown, SteadyMove
  <2> QED
    BY <1>5, <2>2, <2>3 DEF ServeWrite
<1>6. CASE ServeReplace(r)
  <2>1. PICK pc \in SetSteps :
          /\ Turn(r, pc) /\ UNCHANGED <<rows, history>>
          /\ receipts' = Replace(Key(r), req[r].seen.rev, Outcome(r))
          /\ Result(r, "no") \/ Result(r, "yes")
    BY <1>6 DEF ServeReplace
  <2>2. PICK res \in {"yes", "no"} : Moves(r, pc, res, req[r].work) /\ req[r].pc = pc
    BY <1>a, <2>1, ResultMoves
  <2>3. Sends(pc, res, req[r].work) => WillSend(r)
    BY <2>2 DEF Sends, WillSend, SetSteps
  <2>4. KnownKept
    <3>1. Outcome(r) # "none"
      BY DEF Outcome
    <3> QED
      BY <2>1, <3>1, KeyTyped, ReplaceKnown
  <2> QED
    BY <1>0, <1>a, <2>1, <2>2, <2>3, <2>4, SteadyMove DEF history
<1>7. CASE ServeRefused(r)
  <2>1. Result(r, "refused") /\ UNCHANGED <<plan, receipts, effects, owner>>
    BY <1>7 DEF ServeRefused, durable, history
  <2>2. Sends(req[r].pc, "refused", req[r].work) => WillSend(r)
    BY SMTT(60) DEF Sends, WillSend
  <2> QED
    BY <1>0, <2>1, <2>2, ResultMoves, SameKnown, SteadyMove
<1> QED
  BY SMTT(60), <1>1, <1>2, <1>3, <1>4, <1>5, <1>6, <1>7 DEF Serve

(* The continuation of an answer: only a marked receipt is followed by the command. *)
LEMMA AnswerOnce ==
  ASSUME Typed, Once, NEW r \in Requests, NEW pc, NEW to, NEW work,
         Answered(r, pc), Moves(r, to, "none", work),
         \/ work = req[r].work
         \/ pc \in {"markGet", "markSet"} /\ work = "sent" /\ to \notin PreSend,
         to \in PreSend => pc \in PreSend,
         to \in {"markGet", "markSet"} => WillSend(r)
  PROVE  Once'
<1>1. req[r].pc = pc /\ KnownKept /\ UNCHANGED <<plan, effects, owner>>
  BY SMTT(60), SameKnown DEF Answered, durable, history
<1>2. to \in PreSend => work = "none"
  BY <1>1 DEF Once
<1>3. Sends(to, "none", work) => WillSend(r)
  BY SMTT(60), <1>1 DEF Sends, WillSend
<1> QED
  BY SMTT(60), <1>1, <1>2, <1>3, SteadyMove

LEMMA AnswerEnds ==
  ASSUME Typed, Once, NEW r \in Requests, NEW pc, Answered(r, pc), NEW ans, End(r, ans)
  PROVE  Once'
  BY SMTT(60), EndMoves, AnswerOnce DEF PreSend

LEMMA AnswerGoes ==
  ASSUME Typed, Once, NEW r \in Requests, NEW pc, Answered(r, pc), NEW to, Go(r, to),
         to \in PreSend => pc \in PreSend, to \in {"markGet", "markSet"} => WillSend(r)
  PROVE  Once'
  BY GoMoves, AnswerOnce

LEMMA AnswerGivesUp ==
  ASSUME Typed, Once, NEW r \in Requests, NEW pc, Answered(r, pc), NEW ans, GiveUp(r, ans)
  PROVE  Once'
<1>1. CASE End(r, ans)
  BY <1>1, AnswerEnds
<1>2. CASE req' = [req EXCEPT ![r].pc = "drop", ![r].res = "none", ![r].ans = ans]
  <2>1. req \in [Requests -> RequestRecords]
    BY DEF Typed, TypeOK
  <2>2. Moves(r, "drop", "none", req[r].work)
    BY SMTT(60), <1>2, <2>1 DEF Moves, RequestRecords
  <2> QED
    BY <2>2, AnswerOnce DEF PreSend
<1> QED
  BY <1>1, <1>2 DEF GiveUp

LEMMA AnswerSends ==
  ASSUME Typed, Once, NEW r \in Requests, NEW pc \in {"markGet", "markSet"}, Answered(r, pc), Send(r)
  PROVE  Once'
<1>1. req \in [Requests -> RequestRecords]
  BY DEF Typed, TypeOK
<1>2. Moves(r, "spawn", "none", "sent")
  BY <1>1 DEF Send, Moves, RequestRecords
<1> QED
  BY <1>2, AnswerOnce DEF PreSend

LEMMA AnswerNumbers ==
  ASSUME Typed, Once, NEW r \in Requests, NEW pc \in PreSend, Answered(r, pc), NEW n, Numbered(r, n)
  PROVE  Once'
<1>1. CASE End(r, "busy")
  BY <1>1, AnswerEnds
<1>2. CASE req' = [req EXCEPT ![r].pc = IF Kind(r) = "tab" THEN "launch" ELSE "started",
                              ![r].res = "none", ![r].run = n + 1]
  <2>1. req \in [Requests -> RequestRecords]
    BY DEF Typed, TypeOK
  <2>2. PICK to \in {"launch", "started"} :
          req' = [req EXCEPT ![r].pc = to, ![r].res = "none", ![r].run = n + 1]
    BY Zenon, <1>2
  <2>3. Moves(r, to, "none", req[r].work)
    BY <2>1, <2>2 DEF Moves, RequestRecords
  <2> QED
    BY <2>3, AnswerOnce DEF PreSend
<1> QED
  BY <1>1, <1>2 DEF Numbered

(* A step that also keeps the revision it read. *)
LEMMA AnswerReads ==
  ASSUME Typed, Once, NEW r \in Requests, NEW pc, Answered(r, pc),
         NEW to \in {"endGet2", "readGet"}, NEW base,
         req' = [req EXCEPT ![r].pc = to, ![r].res = "none", ![r].base = base]
  PROVE  Once'
<1>1. req \in [Requests -> RequestRecords]
  BY DEF Typed, TypeOK
<1>2. Moves(r, to, "none", req[r].work)
  BY <1>1 DEF Moves, RequestRecords
<1> QED
  BY <1>2, AnswerOnce DEF PreSend

LEMMA DeliverOnce ==
  ASSUME Typed, Once, NEW r \in Requests, Deliver(r)
  PROVE  Once'
<1>1. CASE LookupAnswered(r)
  <2>1. Answered(r, "lookup") /\ ((\E ans : End(r, ans)) \/ Go(r, "prepare"))
    BY <1>1 DEF LookupAnswered
  <2> QED
    BY <2>1, AnswerEnds, AnswerGoes DEF PreSend
<1>2. CASE PrepareAnswered(r)
  <2>1. /\ Answered(r, "prepare")
        /\ \/ End(r, "busy") \/ Numbered(r, counter)
           \/ Go(r, CASE Kind(r) = "write" -> "write" [] Kind(r) = "stop" -> "commit" [] OTHER -> "number")
    BY <1>2 DEF PrepareAnswered
  <2>2. (CASE Kind(r) = "write" -> "write" [] Kind(r) = "stop" -> "commit" [] OTHER -> "number")
          \notin {"markGet", "markSet"}
    OBVIOUS
  <2> QED
    BY <2>1, <2>2, AnswerEnds, AnswerGoes, AnswerNumbers DEF PreSend
<1>3. CASE NumberAnswered(r)
  <2>1. Answered(r, "number") /\ (End(r, "busy") \/ \E n : Numbered(r, n))
    BY <1>3 DEF NumberAnswered
  <2> QED
    BY SMTT(60), <2>1, AnswerEnds, AnswerNumbers DEF PreSend
<1>4. CASE StartedAnswered(r)
  <2>1. Answered(r, "started") /\ (End(r, "busy") \/ Go(r, "commit"))
    BY SMTT(60), <1>4 DEF StartedAnswered
  <2> QED
    BY <2>1, AnswerEnds, AnswerGoes DEF PreSend
<1>5. CASE CommitAnswered(r) \/ LaunchAnswered(r)
  <2>1. PICK pc \in {"commit", "launch"} :
          /\ Answered(r, pc)
          /\ \/ req[r].res = "yes" /\ Go(r, "markGet")
             \/ \E ans : End(r, ans) \/ GiveUp(r, ans)
    BY SMTT(60), <1>5 DEF CommitAnswered, LaunchAnswered
  <2>2. req[r].res = "yes" => WillSend(r)
    BY <2>1 DEF WillSend, Sends, Answered
  <2> QED
    BY SMTT(60), <2>1, <2>2, AnswerEnds, AnswerGoes, AnswerGivesUp DEF PreSend
<1>6. CASE WriteAnswered(r)
  <2>1. Answered(r, "write") /\ \E ans : End(r, ans)
    BY <1>6 DEF WriteAnswered
  <2> QED
    BY <2>1, AnswerEnds
<1>7. CASE MarkGetAnswered(r) \/ MarkSetAnswered(r)
  <2>1. PICK pc \in {"markGet", "markSet"} :
          Answered(r, pc) /\ (GiveUp(r, "unknown") \/ Go(r, "markSet") \/ Send(r))
    BY SMTT(60), <1>7 DEF MarkGetAnswered, MarkSetAnswered
  <2>2. WillSend(r)
    BY <2>1 DEF WillSend, Sends, Answered
  <2> QED
    BY <2>1, <2>2, AnswerGoes, AnswerGivesUp, AnswerSends DEF PreSend
<1>8. CASE \/ RecordAnswered(r) \/ EndGet2Answered(r) \/ EndSetAnswered(r)
           \/ ReadGetAnswered(r) \/ ReadSetAnswered(r)
  <2>1. /\ \E pc : Answered(r, pc)
        /\ \/ \E to \in {"endGet", "endSet", "final", "readSet", "reread"} : Go(r, to)
           \/ \E ans : End(r, ans)
    BY SMTT(60), <1>8 DEF RecordAnswered, EndGet2Answered, EndSetAnswered, ReadGetAnswered, ReadSetAnswered
  <2> QED
    BY <2>1, AnswerEnds, AnswerGoes DEF PreSend
<1>9. CASE EndGetAnswered(r) \/ ReadAnswered(r)
  <2>1. PICK pc :
          /\ Answered(r, pc)
          /\ \/ \E ans : End(r, ans)
             \/ \E to \in {"endGet2", "readGet"} : \E base :
                  req' = [req EXCEPT ![r].pc = to, ![r].res = "none", ![r].base = base]
    BY <1>9 DEF EndGetAnswered, ReadAnswered
  <2> QED
    BY ZenonT(60), <2>1, AnswerEnds, AnswerReads
<1>10. CASE FinalAnswered(r) \/ DropAnswered(r)
  <2>1. \E pc : Answered(r, pc) /\ \E ans : End(r, ans)
    BY SMTT(60), <1>10 DEF FinalAnswered, DropAnswered
  <2> QED
    BY SMTT(60), <2>1, AnswerEnds
<1> QED
  BY SMTT(60), <1>1, <1>2, <1>3, <1>4, <1>5, <1>6, <1>7, <1>8, <1>9, <1>10 DEF Deliver

(* The command that was sent is executed: it was the only one under its key. *)
LEMMA RunOnce ==
  ASSUME Typed, Once, NEW r \in Requests, WorkerRuns(r)
  PROVE  Once'
<1>k. PICK k \in Keys : k = Key(r)
  BY KeyTyped
<1>0. /\ req \in [Requests -> RequestRecords] /\ effects \in [Keys -> Nat]
      /\ owner \in [Keys -> Requests \cup {Nobody}]
  BY DEF Typed, TypeOK
<1>1. /\ req[r].work = "sent" /\ req' = [req EXCEPT ![r].work = "ran"]
      /\ effects' = [effects EXCEPT ![k] = @ + 1] /\ UNCHANGED <<plan, receipts, owner>>
  BY <1>k DEF WorkerRuns, durable
<1>2. owner[k] = r /\ effects[k] = 0
  BY <1>k, <1>1 DEF Once, WillSend, Sends
<1>3. effects'[k] = 1 /\ \A j \in Keys \ {k} : effects'[j] = effects[j]
  BY SMTT(60), <1>0, <1>1, <1>2
<1>4. \A j \in Keys : effects'[j] <= 1
  BY <1>3 DEF Once
<1>5. \A j \in Keys : ~Known(j)' => effects'[j] = 0 /\ owner'[j] = Nobody
  BY <1>1, <1>2, <1>3, NobodyApart DEF Once, Known
<1>6. Moves(r, req[r].pc, req[r].res, "ran")
  BY <1>0, <1>1 DEF Moves, RequestRecords
<1>7. req[r].pc \notin PreSend
  BY SMTT(60), <1>1 DEF Once
<1>8. ASSUME NEW q \in Requests
      PROVE  /\ req'[q].pc \in PreSend => req'[q].work = "none"
             /\ WillSend(q)' => owner'[Key(q)'] = q /\ effects'[Key(q)'] = 0
  <2>1. CASE q = r
    <3>1. req'[q].pc \notin PreSend /\ req'[q].work = "ran"
      BY <1>6, <1>7, <2>1 DEF Moves
    <3> QED
      BY <3>1 DEF WillSend, Sends, PreSend
  <2>2. CASE q # r
    <3>1. req'[q] = req[q] /\ Key(q)' = Key(q) /\ Key(q) \in Keys
      BY SMTT(60), <1>1, <1>6, <2>2, KeyTyped DEF Moves, Key
    <3>2. WillSend(q)' => WillSend(q) /\ owner[Key(q)] = q /\ effects[Key(q)] = 0
      BY SMTT(60), <3>1 DEF WillSend, Once
    <3>3. WillSend(q)' => Key(q) # k
      BY <1>2, <2>2, <3>2
    <3> QED
      BY <1>1, <1>3, <3>1, <3>2, <3>3 DEF Once
  <2> QED
    BY <2>1, <2>2
<1> QED
  BY <1>4, <1>5, <1>8 DEF Once

LEMMA RequestOnce ==
  ASSUME Typed, Once, NEW r \in Requests, Submit(r) \/ WorkerRefuses(r) \/ WorkerAnswers(r)
  PROVE  Once'
<1>0. req \in [Requests -> RequestRecords]
  BY DEF Typed, TypeOK
<1>1. CASE Submit(r)
  <2>1. /\ req[r].pc = "new" /\ KnownKept /\ UNCHANGED <<plan, effects, owner>>
        /\ (\E ans : End(r, ans)) \/ Go(r, "read") \/ Go(r, "lookup")
    BY SMTT(60), <1>1, SameKnown DEF Submit, durable, history
  <2>2. req[r].work = "none"
    BY ZenonT(60), <2>1 DEF Once, PreSend
  <2>3. PICK pc \in {"done", "read", "lookup"} : Moves(r, pc, "none", "none")
    BY Zenon, <2>1, <2>2, EndMoves, GoMoves
  <2>4. ~Sends(pc, "none", "none")
    BY SMTT(60) DEF Sends
  <2> QED
    BY SMTT(60), <2>1, <2>3, <2>4, SteadyMove
<1>2. CASE WorkerRefuses(r)
  <2>1. /\ req[r].work = "sent" /\ KnownKept /\ UNCHANGED <<plan, effects, owner>>
        /\ Moves(r, req[r].pc, req[r].res, "refused")
    BY SMTT(60), <1>0, <1>2, SameKnown DEF WorkerRefuses, Moves, RequestRecords
  <2>2. req[r].pc \notin PreSend /\ WillSend(r)
    BY SMTT(60), <2>1 DEF Once, WillSend, Sends
  <2> QED
    BY Zenon, <2>1, <2>2, SteadyMove
<1>3. CASE WorkerAnswers(r)
  <2>1. PICK to \in {"endGet", "record"} :
          /\ UNCHANGED <<plan, durable, history>>
          /\ \E out \in Outcomes : req' = [req EXCEPT ![r].out = out, ![r].pc = to]
    BY Zenon, <1>3 DEF WorkerAnswers
  <2>2. Moves(r, to, req[r].res, req[r].work) /\ KnownKept /\ UNCHANGED <<plan, effects, owner>>
    BY <1>0, <2>1, SameKnown DEF Moves, RequestRecords, durable, history
  <2>3. to \notin PreSend /\ (Sends(to, req[r].res, req[r].work) => WillSend(r))
    BY DEF PreSend, Sends, WillSend
  <2> QED
    BY <2>2, <2>3, SteadyMove
<1> QED
  BY <1>1, <1>2, <1>3

(* Steps that leave every request alone. *)
LEMMA OthersOnce ==
  ASSUME Typed, Once, KnownKept, UNCHANGED <<plan, effects, owner, req>>
  PROVE  Once'
  BY Zenon, Steady DEF Once, WillSend

LEMMA InstanceOnce ==
  ASSUME Typed, Once, StoreFails \/ Crash \/ Serving \/ RunExits \/ \E k \in Keys : Verify(k)
  PROVE  Once'
<1>0. req \in [Requests -> RequestRecords]
  BY DEF Typed, TypeOK
<1>1. CASE StoreFails
  <2>1. KnownKept /\ UNCHANGED <<plan, effects, owner>>
    BY SMTT(60), <1>1, SameKnown DEF StoreFails, durable, history
  <2>2. ASSUME NEW r \in Requests
        PROVE  /\ req'[r].pc \in PreSend => req'[r].work = "none"
               /\ WillSend(r)' => WillSend(r)
    <3>1. \/ req'[r] = req[r] \/ req'[r] = [req[r] EXCEPT !.res = "unknown"]
          \/ req'[r] = [req[r] EXCEPT !.res = "refused"]
      BY <1>1 DEF StoreFails
    <3>2. /\ req'[r].pc = req[r].pc /\ req'[r].work = req[r].work
          /\ req'[r].res \in {req[r].res, "unknown", "refused"}
      BY SMTT(60), <1>0, <3>1 DEF RequestRecords
    <3> QED
      BY <3>2 DEF Once, WillSend, Sends
  <2> QED
    BY <2>1, <2>2, Steady
<1>2. CASE Crash
  <2>1. KnownKept /\ UNCHANGED <<plan, effects, owner>>
    BY ZenonT(60), <1>2, SameKnown DEF Crash, durable, history
  <2>2. ASSUME NEW r \in Requests
        PROVE  /\ req'[r].pc \in PreSend => req'[r].work = "none"
               /\ WillSend(r)' => WillSend(r)
    <3>1. CASE req[r].pc = "new"
      <4>1. req'[r] = req[r]
        BY ZenonT(60), <1>2, <3>1 DEF Crash
      <4> QED
        BY SMTT(60), <4>1 DEF Once, WillSend
    <3>2. CASE req[r].pc # "new"
      <4>1. PICK pc \in {"done", "lost"} : \E ans : req'[r] = [Idle EXCEPT !.pc = pc, !.ans = ans]
        BY Zenon, <1>2, <3>2 DEF Crash
      <4>2. req'[r].pc = pc /\ req'[r].work = "none"
        BY <4>1 DEF Idle
      <4> QED
        BY SMTT(60), <4>2 DEF WillSend, Sends
    <3> QED
      BY SMTT(60), <3>1, <3>2
  <2> QED
    BY <2>1, <2>2, Steady
<1>3. CASE Serving \/ RunExits
  BY <1>3, SameKnown, OthersOnce DEF Serving, RunExits, durable, history
<1>4. CASE \E k \in Keys : Verify(k)
  <2>1. PICK k \in Keys : /\ UNCHANGED <<plan, req, history>>
                          /\ \/ receipts' = Replace(k, receipts[k].rev, "recovering")
                             \/ receipts' = Replace(k, receipts[k].rev, "requires_attention")
    BY <1>4 DEF Verify
  <2>2. KnownKept
    BY <2>1, ReplaceKnown
  <2> QED
    BY SMTT(60), <2>1, <2>2, OthersOnce DEF history
<1> QED
  BY <1>1, <1>2, <1>3, <1>4

(* A purge leaves the tombstone, so the key stays known. *)
LEMMA PassOnce ==
  ASSUME Typed, Once, PassBegins \/ ServeMark \/ ServePurge \/ ServePassRefused \/ PassAnswered
  PROVE  Once'
<1>1. CASE PassBegins \/ ServeMark \/ ServePassRefused \/ PassAnswered
  BY <1>1, SameKnown, OthersOnce
     DEF PassBegins, ServeMark, RetentionTurn, ServePassRefused, PassAnswered, durable, history
<1>2. CASE ServePurge
  <2>1. UNCHANGED <<plan, req, effects, owner>>
    BY <1>2 DEF ServePurge, RetentionTurn, history
  <2>2. receipts \in [Keys -> ReceiptRecords]
    BY DEF Typed, TypeOK
  <2>3. KnownKept
    <3>1. CASE UNCHANGED receipts
      BY <3>1, SameKnown
    <3>2. CASE \E k \in Keys : receipts' = [receipts EXCEPT ![k] = Receipt("purged", @.intent, @.method, 0, 0)]
      <4>1. \A j \in Keys : receipts'[j].state \in {receipts[j].state, "purged"}
        BY <2>2, <3>2 DEF Receipt
      <4> QED
        BY <4>1 DEF KnownKept, Known
    <3> QED
      BY <1>2, <3>1, <3>2 DEF ServePurge
  <2> QED
    BY <2>1, <2>3, OthersOnce
<1> QED
  BY <1>1, <1>2

LEMMA OnceStep == Typed /\ Once /\ [Next]_vars => Once'
<1> SUFFICES ASSUME Typed, Once, [Next]_vars
             PROVE  Once'
  OBVIOUS
<1>1. CASE UNCHANGED vars
  BY <1>1, SameKnown, OthersOnce DEF vars, durable, history
<1>2. ASSUME NEW r \in Requests,
             \/ Submit(r) \/ Serve(r) \/ Deliver(r) \/ WorkerRuns(r) \/ WorkerRefuses(r)
             \/ WorkerAnswers(r)
      PROVE  Once'
  BY <1>2, RequestOnce, ServeOnce, DeliverOnce, RunOnce
<1> QED
  BY <1>1, <1>2, PassOnce, InstanceOnce DEF Next

(* An operation ID is executed at most once, for any number of requests, keys and scenarios: *)
(* across resends, concurrent requests with the same ID, refused and unknown store calls,    *)
(* crashes, restarts and purges (TerminalOperations.launch and stopRun,                      *)
(* executeDatabaseWrite, receipts.insert, receipts.purge).                                   *)
THEOREM AtMostOnceTheorem == Spec => []AtMostOnce
<1>1. Init => Typed /\ Once
  BY TypedInit, OnceInit
<1>2. (Typed /\ Once) /\ [Next]_vars => (Typed /\ Once)'
  BY TypedStep, OnceStep
<1>3. Typed /\ Once => AtMostOnce
  BY DEF Once, AtMostOnce
<1> QED
  BY <1>1, <1>2, <1>3, PTL DEF Spec

=============================================================================
