-------------------------- MODULE OperationReceipts --------------------------
(***************************************************************************)
(* Operation receipts: how a request that changes something is executed at  *)
(* most once under its operation ID, whatever is resent, refused, lost or    *)
(* restarted.                                                                *)
(*                                                                           *)
(* Requests run on the server's main thread and wait for the store, a worker *)
(* thread that executes calls in the order they were made, each call one     *)
(* transaction, and answers in that order (store/database.ts).  A request is *)
(* the sequence of its store calls: Serve* is what a call does to the        *)
(* database, *Answered what the request does next when the answer arrives.   *)
(* Memory is lost by a crash, the database is not.                           *)
(*                                                                           *)
(* Requests are of four kinds: "create" (terminal.create: run record, then   *)
(* receipt), "tab" (tab.create and tab.reopen: both in one transaction),     *)
(* "write" (a change of the database alone) and "stop".  A fifth, "get",     *)
(* reads a receipt, and completes a stop whose run has exited.               *)
(***************************************************************************)
EXTENDS Integers, Sequences, FiniteSets

CONSTANTS
    Requests,   \* requests clients send, resends included; each is sent once
    Retention,  \* the retention pass, the other caller of the store
    Keys,       \* (server, principal, operation ID)
    Intents,    \* canonical request contents
    Limit,      \* budgets.operationReceipts: reservations held at a time
    Scenarios   \* what is sent and how often each fault may strike

Kinds == {"create", "tab", "write", "stop", "get"}
Nobody == "nobody"
\* after: a request that has ended before this one is sent.
Plans == [key : Keys, intent : Intents, kind : Kinds, after : Requests \cup {Nobody}]
Faults == {"refusals", "failures", "crashes", "passes"}

ASSUME RetentionApart == Retention \notin Requests
ASSUME NobodyApart == Nobody \notin Requests
ASSUME LimitPositive == Limit \in Nat \ {0}
ASSUME ScenariosTyped ==
    \A s \in Scenarios : s.plan \in [Requests -> Plans] /\ s.faults \in [Faults -> Nat]

VARIABLES
    plan, left,       \* the scenario: what each request asks, and the faults left
    receipts,         \* the operations and operation_tombstones tables
    rows,             \* the runs table
    inst,             \* this server instance
    phase,            \* starting (verifying receipts), serving, or its store failed
    calls, served,    \* calls the store has not answered, and how many it executed
    reserved,         \* entries: the request holding each key's reservation
    counter, seeded,  \* TerminalOperations.runCounter, runNumbersSeeded
    req,              \* the requests
    ret,              \* the retention pass
    exited,           \* the run the stops name, one of the first instance, exited
    effects,          \* history: executions under each key
    owner,            \* history: the request whose receipt a key holds or held
    named,            \* history: the run number that receipt named
    rowDropped        \* history: a run row was removed that no receipt named

durable == <<receipts, rows>>
memory == <<inst, phase, reserved, counter, seeded>>
queue == <<calls, served>>
history == <<effects, owner, named, rowDropped>>
vars == <<plan, left, receipts, rows, inst, phase, calls, served, reserved, counter, seeded,
          req, ret, exited, effects, owner, named, rowDropped>>

-----------------------------------------------------------------------------
(* Receipts. *)

Unfinished == {"accepted", "running", "recovering"}
Ended == {"succeeded", "failed", "cancelled"}
\* TERMINAL_STATES: what an ordinary update never changes.
Terminal == Ended \cup {"requires_attention"}
States == Unfinished \cup Terminal \cup {"none", "purged"}

Receipt(state, intent, method, rev, run) ==
    [state |-> state, intent |-> intent, method |-> method, rev |-> rev, run |-> run]
ReceiptRecords ==
    [state : States, intent : Intents \cup {""}, method : Kinds \cup {""}, rev : Nat, run : Nat]
NoReceipt == Receipt("none", "", "", 0, 0)

\* A key the database has a receipt or a tombstone for.
Known(k) == receipts[k].state # "none"
HasRecord(s) == s.state \notin {"none", "purged"}

Row(i, n, life) == [inst |-> i, run |-> n, life |-> life]
RowRecords == [inst : Nat, run : Nat, life : {"starting", "running", "ended"}]

\* runs.highestNumber: over the run rows and the receipts that name a run.
Numbers == {0} \cup {w.run : w \in rows} \cup {receipts[k].run : k \in Keys}
HighestNumber == CHOOSE n \in Numbers : \A m \in Numbers : m <= n

(* Requests. *)

\* seen: the receipt last read; base: the revision an update follows; work: what the
\* worker did with the command; out: what it answered; ans: what the client is told.
Idle == [pc |-> "new", res |-> "none", seen |-> NoReceipt, base |-> 0, run |-> 0,
         work |-> "none", out |-> "none", ans |-> "none"]
ReadSteps == {"lookup", "prepare", "markGet", "endGet", "endGet2", "final", "read", "readGet", "reread"}
SetSteps == {"markSet", "endSet", "readSet"}
CallSteps == ReadSteps \cup SetSteps \cup {"number", "started", "commit", "launch", "write", "record", "drop"}
Steps == CallSteps \cup {"new", "spawn", "done", "lost"}
\* What the store answered: yes, no, a refusal that changed nothing, unknown.
Results == {"none", "yes", "no", "refused", "unknown"}
Works == {"none", "sent", "ran", "refused"}
Outcomes == {"none", "accepted", "exited", "rejected", "unknown"}
\* The answer a client gets: the record, or an error; only "unknown" leaves open what happened.
NotAccepted == {"busy", "conflict", "expired", "mismatch", "notFound"}
Answers == {"none", "record", "unknown"} \cup NotAccepted
RequestRecords ==
    [pc : Steps, res : Results, seen : ReceiptRecords, base : Nat, run : Nat,
     work : Works, out : Outcomes, ans : Answers]

Key(r) == plan[r].key
Kind(r) == plan[r].kind
Intent(r) == plan[r].intent

\* pending(): a reservation of the key that is not committed yet.
Pending(r) == reserved[Key(r)] # Nobody
PendingAnswer(r) ==
    IF plan[reserved[Key(r)]].intent = Intent(r) THEN "busy" ELSE "conflict"
Held == {k \in Keys : reserved[k] # Nobody}

\* A request ends with an answer, or goes on.
End(r, ans) == req' = [req EXCEPT ![r].pc = "done", ![r].ans = ans, ![r].res = "none", ![r].seen = NoReceipt]
Go(r, pc) == req' = [req EXCEPT ![r].pc = pc, ![r].res = "none"]

\* Mutant: an answered call still counts as executed.
Last_NotCounted == calls' = Tail(calls) /\ served' = served

\* The head of the queue is answered; the request makes no further call, or one.
Last == calls' = Tail(calls) /\ served' = served - 1
Then(r) == calls' = Append(Tail(calls), r) /\ served' = served - 1
Ask(r) == calls' = Append(calls, r) /\ served' = served

Free(r) == reserved' = [reserved EXCEPT ![Key(r)] = IF @ = r THEN Nobody ELSE @]
Spend(what) == left[what] > 0 /\ left' = [left EXCEPT ![what] = @ - 1]

-----------------------------------------------------------------------------
(* The store. *)

\* The next call to execute, which its caller r has at step pc.
Turn(r, pc) ==
    /\ served < Len(calls) /\ calls[served + 1] = r
    /\ phase = "serving" /\ req[r].pc = pc /\ req[r].res = "none"
    /\ served' = served + 1
    /\ UNCHANGED <<plan, left, calls, memory, ret, exited>>

Result(r, res) == req' = [req EXCEPT ![r].res = res]

\* receipts.get: the receipt, its tombstone, or nothing, in one transaction.
ServeGet(r) ==
    \E pc \in ReadSteps :
      /\ Turn(r, pc)
      /\ req' = [req EXCEPT ![r].res = "yes", ![r].seen = receipts[Key(r)]]
      /\ UNCHANGED <<durable, history>>

\* runs.highestNumber
ServeNumber(r) ==
    /\ Turn(r, "number")
    /\ req' = [req EXCEPT ![r].res = "yes", ![r].run = HighestNumber]
    /\ UNCHANGED <<durable, history>>

\* runs.started; refused when the run's directory is in a worktree being deleted.
ServeStarted(r) ==
    /\ Turn(r, "started")
    /\ \/ rows' = rows \cup {Row(inst, req[r].run, "starting")} /\ Result(r, "yes")
       \/ rows' = rows /\ Result(r, "no")
    /\ UNCHANGED <<receipts, history>>

\* The receipt of request r enters the table: insert, with a history of whose it is.
Inserted(r, state, rev) ==
    /\ receipts' = [receipts EXCEPT ![Key(r)] = Receipt(state, Intent(r), Kind(r), rev, req[r].run)]
    /\ owner' = [owner EXCEPT ![Key(r)] = r]
    /\ named' = [named EXCEPT ![Key(r)] = req[r].run]

\* receipts.insert: ON CONFLICT DO NOTHING for a receipt, the trigger
\* operations_tombstoned aborts for a tombstone.
ServeInsert(r) ==
    /\ Turn(r, "commit")
    /\ IF Known(Key(r))
         THEN /\ Result(r, IF receipts[Key(r)].state = "purged" THEN "refused" ELSE "no")
              /\ UNCHANGED <<receipts, owner, named>>
         ELSE Inserted(r, "accepted", 0) /\ Result(r, "yes")
    /\ UNCHANGED <<rows, effects, rowDropped>>

\* tabs.launch: the receipt is looked up again, the preconditions hold or the
\* transaction rolls back, and the run row and the receipt are inserted together.
ServeLaunch(r) ==
    /\ Turn(r, "launch")
    /\ \/ /\ Known(Key(r))
          /\ req' = [req EXCEPT ![r].seen = receipts[Key(r)],
                                ![r].res = IF receipts[Key(r)].state = "purged" THEN "refused" ELSE "no"]
          /\ UNCHANGED <<rows, receipts, owner, named>>
       \/ /\ ~Known(Key(r)) /\ Inserted(r, "accepted", 0) /\ Result(r, "yes")
          /\ rows' = rows \cup {Row(inst, req[r].run, "starting")}
       \/ ~Known(Key(r)) /\ Result(r, "refused") /\ UNCHANGED <<rows, receipts, owner, named>>
    /\ UNCHANGED <<effects, rowDropped>>

\* receipts.write: recheck, the named change (which may refuse and roll back), and the
\* receipt, inserted as accepted and advanced to succeeded.
ServeWrite(r) ==
    /\ Turn(r, "write")
    /\ \/ /\ Known(Key(r))
          /\ req' = [req EXCEPT ![r].seen = receipts[Key(r)], ![r].res = "no"]
          /\ UNCHANGED <<receipts, owner, named, effects>>
       \/ /\ ~Known(Key(r)) /\ Inserted(r, "succeeded", 1) /\ Result(r, "yes")
          /\ effects' = [effects EXCEPT ![Key(r)] = @ + 1]
       \/ ~Known(Key(r)) /\ Result(r, "refused") /\ UNCHANGED <<receipts, owner, named, effects>>
    /\ UNCHANGED <<rows, rowDropped>>

\* recordOutcome: a launch ends with its spawn, a stop when the exit is known.
Outcome(r) ==
    CASE req[r].pc = "markSet" -> "running"
      [] req[r].pc = "readSet" -> "succeeded"
      [] req[r].out = "unknown" -> "requires_attention"
      [] req[r].out = "rejected" -> "failed"
      [] req[r].out = "accepted" /\ Kind(r) = "stop" -> "running"
      [] OTHER -> "succeeded"

\* receipts.replace: a compare-and-set on the revision that was read.
Replace(k, rev, state) ==
    [receipts EXCEPT ![k] = IF HasRecord(@) /\ @.rev = rev
                              THEN [@ EXCEPT !.state = state, !.rev = rev + 1] ELSE @]

ServeReplace(r) ==
    \E pc \in SetSteps :
      /\ Turn(r, pc)
      /\ receipts' = Replace(Key(r), req[r].seen.rev, Outcome(r))
      /\ Result(r, IF receipts' = receipts THEN "no" ELSE "yes")
      /\ UNCHANGED <<rows, history>>

\* runs.notStarted drops a row that is still starting.
NotStarted(n) == rows \ {Row(inst, n, "starting")}
Drops(n) ==
    /\ rows' = NotStarted(n)
    /\ rowDropped' = (rowDropped \/ (rows' # rows /\ \A k \in Keys : receipts[k].run # n))

\* runs.spawned or runs.notStarted, by the worker's answer.
ServeRecord(r) ==
    /\ Turn(r, "record") /\ Result(r, "yes")
    /\ \/ /\ req[r].out = "accepted"
          /\ rows' = {IF w = Row(inst, req[r].run, "starting") THEN [w EXCEPT !.life = "running"] ELSE w : w \in rows}
          /\ rowDropped' = rowDropped
       \/ req[r].out = "rejected" /\ Drops(req[r].run)
    /\ UNCHANGED <<receipts, effects, owner, named>>

\* runs.notStarted for a launch that is given up before its spawn.
ServeDrop(r) ==
    /\ Turn(r, "drop") /\ Result(r, "yes")
    /\ Drops(req[r].run)
    /\ UNCHANGED <<receipts, effects, owner, named>>

\* A full queue refuses the call, or its transaction rolls back; a failed store refuses all.
ServeRefused(r) ==
    /\ served < Len(calls) /\ calls[served + 1] = r
    /\ \/ phase = "serving" /\ Spend("refusals")
       \/ phase = "failed" /\ left' = left
    /\ Result(r, "refused")
    /\ served' = served + 1
    /\ UNCHANGED <<plan, calls, durable, memory, ret, exited, history>>

Serve(r) ==
    \/ ServeGet(r) \/ ServeNumber(r) \/ ServeStarted(r) \/ ServeInsert(r) \/ ServeLaunch(r)
    \/ ServeWrite(r) \/ ServeReplace(r) \/ ServeRecord(r) \/ ServeDrop(r) \/ ServeRefused(r)

\* Store.fail: the calls that were sent to the store's thread are answered unknown, executed
\* or not, those still queued on the main thread are refused, and nothing is executed any more.
StoreFails ==
    /\ phase = "serving" /\ Spend("failures")
    /\ phase' = "failed"
    /\ served' = Len(calls)
    /\ \E sent \in served .. Len(calls) :
         LET asked(c) == \E i \in DOMAIN calls : calls[i] = c
             told(c) == IF \E i \in 1 .. sent : calls[i] = c THEN "unknown" ELSE "refused"
         IN  /\ req' = [r \in Requests |-> IF asked(r) THEN [req[r] EXCEPT !.res = told(r)] ELSE req[r]]
             /\ ret' = IF asked(Retention) THEN [ret EXCEPT !.res = told(Retention)] ELSE ret
    /\ UNCHANGED <<plan, durable, inst, calls, reserved, counter, seeded, exited, history>>

-----------------------------------------------------------------------------
(* Requests: what follows each answer of the store. *)

\* The run registry holds the runs of this instance.
ExitKnown == exited /\ inst = 1

\* The store's oldest answer is for r, at step pc.
Answered(r, pc) ==
    /\ served > 0 /\ calls[1] = r /\ req[r].pc = pc
    /\ UNCHANGED <<plan, left, durable, inst, phase, ret, exited, history>>

Failed(r) == req[r].res \in {"refused", "unknown"}

\* lookup(): what a read receipt says about the request.
Classify(r) ==
    LET s == req[r].seen IN
    CASE Failed(r) -> "invalid"
      [] s.state = "purged" -> IF s.intent = Intent(r) THEN "expired" ELSE "conflict"
      [] s.state = "none" /\ Pending(r) -> PendingAnswer(r)
      [] s.state # "none" -> IF s.intent = Intent(r) THEN "record" ELSE "conflict"
      [] Cardinality(Held) >= Limit -> "busy"
      [] OTHER -> "reserve"

\* A client sends r; a reservation of its key answers at once.
Submit(r) ==
    /\ phase = "serving" /\ req[r].pc = "new"
    /\ plan[r].after # Nobody => req[plan[r].after].pc \in {"done", "lost"}
    /\ IF Kind(r) # "get" /\ Pending(r)
         THEN End(r, PendingAnswer(r)) /\ UNCHANGED queue
         ELSE Go(r, IF Kind(r) = "get" THEN "read" ELSE "lookup") /\ Ask(r)
    /\ UNCHANGED <<plan, left, durable, memory, ret, exited, history>>

\* The precondition of terminal.create and of a stop: the client knows this instance; the
\* run the stops name is one of the first.
MayMismatch(r) == Kind(r) \in {"create", "stop"} /\ inst > 1
MayMatch(r) == ~(Kind(r) = "stop" /\ inst > 1)

LookupAnswered(r) ==
    /\ Answered(r, "lookup")
    /\ UNCHANGED <<reserved, counter, seeded>>
    /\ LET found == Classify(r) IN
         \/ found \in {"record", "conflict", "expired"} /\ End(r, found) /\ Last
         \/ found \in {"busy", "invalid"} /\ MayMatch(r) /\ End(r, "busy") /\ Last
         \/ found \in {"busy", "invalid", "reserve"} /\ MayMismatch(r) /\ End(r, "mismatch") /\ Last
         \/ found = "reserve" /\ MayMatch(r) /\ Go(r, "prepare") /\ Then(r)

\* nextRun and reserveRun; without a worker the reservation is released.
Numbered(r, n) ==
    \/ /\ req' = [req EXCEPT ![r].pc = IF Kind(r) = "tab" THEN "launch" ELSE "started",
                             ![r].res = "none", ![r].run = n + 1]
       /\ counter' = n + 1 /\ Then(r)
    \/ End(r, "busy") /\ counter' = n + 1 /\ Last

PrepareAnswered(r) ==
    /\ Answered(r, "prepare")
    /\ \/ /\ Classify(r) # "reserve"
          /\ End(r, "busy") /\ Last /\ UNCHANGED <<reserved, counter, seeded>>
       \/ /\ Classify(r) = "reserve" /\ seeded' = seeded
          /\ \/ /\ Kind(r) \in {"write", "stop"} \/ ~seeded
                /\ Go(r, CASE Kind(r) = "write" -> "write" [] Kind(r) = "stop" -> "commit" [] OTHER -> "number")
                /\ reserved' = [reserved EXCEPT ![Key(r)] = r]
                /\ Then(r) /\ counter' = counter
             \/ /\ Kind(r) \in {"create", "tab"} /\ seeded /\ Numbered(r, counter)
                /\ reserved' = [reserved EXCEPT ![Key(r)] = IF req'[r].pc = "done" THEN Nobody ELSE r]

NumberAnswered(r) ==
    /\ Answered(r, "number")
    /\ \/ /\ Failed(r) /\ End(r, "busy") /\ Last /\ Free(r) /\ UNCHANGED <<counter, seeded>>
       \/ /\ ~Failed(r) /\ seeded' = TRUE
          /\ Numbered(r, IF req[r].run > counter THEN req[r].run ELSE counter)
          /\ IF req'[r].pc = "done" THEN Free(r) ELSE reserved' = reserved

\* Mutant: a refused run record leaves the reservation behind.
StartedAnswered_KeepReserved(r) ==
    /\ Answered(r, "started")
    /\ \/ req[r].res = "yes" /\ Go(r, "commit") /\ Then(r)
       \/ req[r].res # "yes" /\ End(r, "busy") /\ Last
    /\ UNCHANGED <<reserved, counter, seeded>>

StartedAnswered(r) ==
    /\ Answered(r, "started")
    /\ \/ req[r].res = "yes" /\ Go(r, "commit") /\ Then(r) /\ reserved' = reserved
       \/ req[r].res # "yes" /\ End(r, "busy") /\ Last /\ Free(r)
    /\ UNCHANGED <<counter, seeded>>

\* Mutant: a launch that is given up keeps its run record.
GiveUp_KeepRow(r, ans) == Free(r) /\ End(r, ans) /\ Last

\* A launch given up before its spawn drops its run record and then answers.
GiveUp(r, ans) ==
    /\ Free(r)
    /\ \/ /\ Kind(r) # "stop"
          /\ req' = [req EXCEPT ![r].pc = "drop", ![r].res = "none", ![r].ans = ans]
          /\ Then(r)
       \/ Kind(r) = "stop" /\ End(r, ans) /\ Last

\* Mutant: the command is sent before the receipt says running.
CommitAnswered_SendFirst(r) ==
    /\ Answered(r, "commit")
    /\ \/ /\ req[r].res = "yes" /\ Free(r) /\ Last
          /\ req' = [req EXCEPT ![r].pc = "spawn", ![r].res = "none", ![r].work = "sent"]
       \/ req[r].res # "yes" /\ GiveUp(r, IF req[r].res = "unknown" THEN "unknown" ELSE "busy")
    /\ UNCHANGED <<counter, seeded>>
\* Mutant: a commit whose fate is unknown is answered as refused.
CommitAnswered_AllBusy(r) ==
    /\ Answered(r, "commit")
    /\ \/ req[r].res = "yes" /\ Go(r, "markGet") /\ Then(r) /\ Free(r)
       \/ req[r].res # "yes" /\ GiveUp(r, "busy")
    /\ UNCHANGED <<counter, seeded>>

CommitAnswered(r) ==
    /\ Answered(r, "commit")
    /\ \/ req[r].res = "yes" /\ Go(r, "markGet") /\ Then(r) /\ Free(r)
       \/ req[r].res # "yes" /\ GiveUp(r, IF req[r].res = "unknown" THEN "unknown" ELSE "busy")
    /\ UNCHANGED <<counter, seeded>>

LaunchAnswered(r) ==
    /\ Answered(r, "launch")
    /\ \/ req[r].res = "yes" /\ Go(r, "markGet") /\ Then(r) /\ Free(r)
       \/ /\ req[r].res = "no" /\ Last /\ Free(r)
          /\ End(r, IF req[r].seen.intent = Intent(r) THEN "record" ELSE "conflict")
       \/ req[r].res = "refused" /\ End(r, "busy") /\ Last /\ Free(r)
       \/ req[r].res = "unknown" /\ GiveUp(r, "unknown")
    /\ UNCHANGED <<counter, seeded>>

WriteAnswered(r) ==
    /\ Answered(r, "write") /\ Last /\ Free(r)
    /\ End(r, CASE req[r].res = "yes" -> "record"
                [] req[r].res = "unknown" -> "unknown"
                [] req[r].res = "refused" -> "busy"
                [] req[r].seen.intent # Intent(r) -> "conflict"
                [] req[r].seen.state = "purged" -> "expired"
                [] OTHER -> "record")
    /\ UNCHANGED <<counter, seeded>>

\* Mutant: an ended receipt is updated again.
Follows_Ended(r) == HasRecord(req[r].seen) /\ req[r].seen.rev = req[r].base

\* successor(): the receipt read is the one the update follows.
Follows(r) == HasRecord(req[r].seen) /\ req[r].seen.rev = req[r].base /\ req[r].seen.state \notin Terminal

\* runtime.spawn or runtime.stop
Send(r) == req' = [req EXCEPT ![r].pc = "spawn", ![r].res = "none", ![r].work = "sent"]

\* update(running): a refused update is not looked at, a failed one gives the launch up.
MarkGetAnswered(r) ==
    /\ Answered(r, "markGet")
    /\ \/ Failed(r) /\ GiveUp(r, "unknown")
       \/ ~Failed(r) /\ Follows(r) /\ Go(r, "markSet") /\ Then(r) /\ reserved' = reserved
       \/ ~Failed(r) /\ ~Follows(r) /\ Send(r) /\ Last /\ reserved' = reserved
    /\ UNCHANGED <<counter, seeded>>

MarkSetAnswered(r) ==
    /\ Answered(r, "markSet")
    /\ \/ Failed(r) /\ GiveUp(r, "unknown")
       \/ ~Failed(r) /\ Send(r) /\ Last /\ reserved' = reserved
    /\ UNCHANGED <<counter, seeded>>

\* The worker executes a command it was sent, also after the caller stopped waiting.
WorkerRuns(r) ==
    /\ req[r].work = "sent"
    /\ req' = [req EXCEPT ![r].work = "ran"]
    /\ effects' = [effects EXCEPT ![Key(r)] = @ + 1]
    /\ UNCHANGED <<plan, left, durable, memory, queue, ret, exited, owner, named, rowDropped>>

\* Or refuses it; a refusal of a spawn that was already answered drops the run record
\* (RecordingRunRegistry.retireRefusedSpawn).
WorkerRefuses(r) ==
    /\ req[r].work = "sent"
    /\ req' = [req EXCEPT ![r].work = "refused"]
    /\ IF req[r].pc = "spawn" \/ Kind(r) = "stop" \/ phase # "serving"
         THEN UNCHANGED <<rows, rowDropped>> ELSE Drops(req[r].run)
    /\ UNCHANGED <<plan, left, receipts, memory, queue, ret, exited, effects, owner, named>>

\* Mutant: a command whose outcome is unknown is sent again.
WorkerAnswers_Resend(r) ==
    \E out \in {"accepted", "rejected", "unknown"} :
      /\ req[r].pc = "spawn"
      /\ out = "rejected" => req[r].work = "refused"
      /\ out = "accepted" => req[r].work = "ran"
      /\ req' = [req EXCEPT ![r].out = out,
                            ![r].work = IF out = "unknown" THEN "sent" ELSE @,
                            ![r].pc = IF out = "unknown" THEN "spawn" ELSE IF Kind(r) = "stop" THEN "endGet" ELSE "record"]
      /\ IF out = "unknown" THEN UNCHANGED queue ELSE Ask(r)
      /\ UNCHANGED <<plan, left, durable, memory, ret, exited, history>>

\* What the runtime answers the request: definite, or unknown when it waited too long.
WorkerAnswers(r) ==
    \E out \in Outcomes \ {"none"} :
      /\ req[r].pc = "spawn"
      /\ out = "rejected" => req[r].work = "refused"
      /\ out = "accepted" => req[r].work = "ran"
      /\ out = "exited" => req[r].work = "ran" /\ Kind(r) = "stop" /\ ExitKnown
      /\ req' = [req EXCEPT ![r].out = out,
                            ![r].pc = IF Kind(r) = "stop" \/ out = "unknown" THEN "endGet" ELSE "record"]
      /\ Ask(r)
      /\ UNCHANGED <<plan, left, durable, memory, ret, exited, history>>

\* recordRun: a failed record changes nothing for the launch.
RecordAnswered(r) ==
    /\ Answered(r, "record") /\ Go(r, "endGet") /\ Then(r)
    /\ UNCHANGED <<reserved, counter, seeded>>

\* recordOutcome: read, update (read and replace), read.
EndGetAnswered(r) ==
    /\ Answered(r, "endGet")
    /\ \/ Failed(r) /\ End(r, "unknown") /\ Last
       \/ ~Failed(r) /\ ~HasRecord(req[r].seen) /\ End(r, "notFound") /\ Last
       \/ /\ ~Failed(r) /\ HasRecord(req[r].seen) /\ Then(r)
          /\ req' = [req EXCEPT ![r].pc = "endGet2", ![r].res = "none", ![r].base = req[r].seen.rev]
    /\ UNCHANGED <<reserved, counter, seeded>>

EndGet2Answered(r) ==
    /\ Answered(r, "endGet2")
    /\ \/ Failed(r) /\ End(r, "unknown") /\ Last
       \/ ~Failed(r) /\ Go(r, IF Follows(r) THEN "endSet" ELSE "final") /\ Then(r)
    /\ UNCHANGED <<reserved, counter, seeded>>

EndSetAnswered(r) ==
    /\ Answered(r, "endSet")
    /\ \/ Failed(r) /\ End(r, "unknown") /\ Last
       \/ ~Failed(r) /\ Go(r, "final") /\ Then(r)
    /\ UNCHANGED <<reserved, counter, seeded>>

FinalAnswered(r) ==
    /\ \/ Answered(r, "final") /\ End(r, IF Failed(r) THEN "unknown" ELSE IF HasRecord(req[r].seen) THEN "record" ELSE "notFound")
       \/ Answered(r, "reread") /\ End(r, IF Failed(r) THEN "busy" ELSE IF HasRecord(req[r].seen) THEN "record" ELSE "notFound")
    /\ Last
    /\ UNCHANGED <<reserved, counter, seeded>>

DropAnswered(r) ==
    /\ Answered(r, "drop") /\ End(r, req[r].ans) /\ Last
    /\ UNCHANGED <<reserved, counter, seeded>>

Completes(r) == req[r].seen.method = "stop" /\ req[r].seen.state = "running" /\ ExitKnown

\* operation.get; a stop still running ends here once the run is known to have exited.
ReadAnswered(r) ==
    /\ Answered(r, "read")
    /\ LET s == req[r].seen IN
         \/ Failed(r) /\ End(r, "busy") /\ Last
         \/ ~Failed(r) /\ s.state = "purged" /\ End(r, "expired") /\ Last
         \/ ~Failed(r) /\ s.state = "none" /\ End(r, "notFound") /\ Last
         \/ ~Failed(r) /\ HasRecord(s) /\ ~Completes(r) /\ End(r, "record") /\ Last
         \/ /\ ~Failed(r) /\ Completes(r) /\ Then(r)
            /\ req' = [req EXCEPT ![r].pc = "readGet", ![r].res = "none", ![r].base = s.rev]
    /\ UNCHANGED <<reserved, counter, seeded>>

ReadGetAnswered(r) ==
    /\ Answered(r, "readGet")
    /\ \/ Failed(r) /\ End(r, "busy") /\ Last
       \/ ~Failed(r) /\ Go(r, IF Follows(r) THEN "readSet" ELSE "reread") /\ Then(r)
    /\ UNCHANGED <<reserved, counter, seeded>>

ReadSetAnswered(r) ==
    /\ Answered(r, "readSet")
    /\ \/ Failed(r) /\ End(r, "busy") /\ Last
       \/ ~Failed(r) /\ Go(r, "reread") /\ Then(r)
    /\ UNCHANGED <<reserved, counter, seeded>>

Deliver(r) ==
    \/ LookupAnswered(r) \/ PrepareAnswered(r) \/ NumberAnswered(r) \/ StartedAnswered(r)
    \/ CommitAnswered(r) \/ LaunchAnswered(r) \/ WriteAnswered(r) \/ MarkGetAnswered(r)
    \/ MarkSetAnswered(r) \/ RecordAnswered(r) \/ EndGetAnswered(r) \/ EndGet2Answered(r)
    \/ EndSetAnswered(r) \/ FinalAnswered(r) \/ DropAnswered(r) \/ ReadAnswered(r)
    \/ ReadGetAnswered(r) \/ ReadSetAnswered(r)

-----------------------------------------------------------------------------
(* Receipt retention. *)

Resting == [pc |-> "idle", res |-> "none", mark |-> 0]
PassRecords == [pc : {"idle", "mark", "purge"}, res : Results, mark : Nat]

PassBegins ==
    /\ phase = "serving" /\ ret.pc = "idle" /\ Spend("passes")
    /\ ret' = [ret EXCEPT !.pc = "mark"]
    /\ Ask(Retention)
    /\ UNCHANGED <<plan, durable, memory, req, exited, history>>

RetentionTurn(pc) ==
    /\ served < Len(calls) /\ calls[served + 1] = Retention
    /\ phase = "serving" /\ ret.pc = pc
    /\ served' = served + 1
    /\ UNCHANGED <<plan, left, calls, memory, req, exited>>

ServeMark ==
    /\ RetentionTurn("mark")
    /\ ret' = [ret EXCEPT !.res = "yes", !.mark = HighestNumber]
    /\ UNCHANGED <<durable, history>>

\* Mutant: the receipt with the highest run number is not spared.
Purgeable_Highest(k) == receipts[k].state \in Ended

\* An ended receipt, unless it may hold the highest run number.
Purgeable(k) ==
    /\ receipts[k].state \in Ended
    /\ ~(receipts[k].run > 0 /\ receipts[k].run >= ret.mark)

\* receipts.purge with batches of one: a due receipt becomes a tombstone, or none is due.
\* Which is due is a matter of the wall clock, which may be set forward.
ServePurge ==
    /\ RetentionTurn("purge")
    /\ \/ \E k \in Keys :
            /\ Purgeable(k)
            /\ receipts' = [receipts EXCEPT ![k] = Receipt("purged", @.intent, @.method, 0, 0)]
            /\ ret' = [ret EXCEPT !.res = "yes"]
       \/ receipts' = receipts /\ ret' = [ret EXCEPT !.res = "no"]
    /\ UNCHANGED <<rows, history>>

ServePassRefused ==
    /\ served < Len(calls) /\ calls[served + 1] = Retention
    /\ phase = "serving" /\ Spend("refusals")
    /\ ret' = [ret EXCEPT !.res = "refused"]
    /\ served' = served + 1
    /\ UNCHANGED <<plan, calls, durable, memory, req, exited, history>>

\* A full batch is followed by another; a failure ends the pass.
PassAnswered ==
    /\ served > 0 /\ calls[1] = Retention
    /\ \/ /\ ret.res = "yes"
          /\ ret' = [ret EXCEPT !.pc = "purge", !.res = "none"]
          /\ Then(Retention)
       \/ ret.res # "yes" /\ ret' = Resting /\ Last
    /\ UNCHANGED <<plan, left, durable, memory, req, exited, history>>

-----------------------------------------------------------------------------
(* The end of an instance and the start of the next. *)

\* The server dies: memory and unanswered calls are gone, and with the server its worker.
Crash ==
    /\ Spend("crashes")
    /\ phase' = "starting" /\ inst' = inst + 1
    /\ calls' = <<>> /\ served' = 0
    /\ reserved' = [k \in Keys |-> Nobody]
    /\ counter' = 0 /\ seeded' = FALSE
    /\ req' = [r \in Requests |-> IF req[r].pc = "new" THEN req[r]
                                    ELSE [Idle EXCEPT !.pc = IF req[r].pc = "done" THEN "done" ELSE "lost",
                                                      !.ans = IF req[r].pc = "done" THEN req[r].ans ELSE "none"]]
    /\ ret' = Resting
    /\ UNCHANGED <<plan, durable, exited, history>>

\* recoverInterrupted, one receipt after the other: recovering is committed first.
Verify(k) ==
    /\ phase = "starting"
    /\ \/ /\ receipts[k].state \in {"accepted", "running"}
          /\ \A j \in Keys : receipts[j].state # "recovering"
          /\ receipts' = Replace(k, receipts[k].rev, "recovering")
       \/ /\ receipts[k].state = "recovering"
          /\ receipts' = Replace(k, receipts[k].rev, "requires_attention")
    /\ UNCHANGED <<plan, left, rows, memory, queue, req, ret, exited, history>>

\* Mutant: the server serves before every interrupted receipt is verified.
Serving_Early ==
    /\ phase = "starting"
    /\ rows' = {IF w.inst # inst THEN [w EXCEPT !.life = "ended"] ELSE w : w \in rows}
    /\ phase' = "serving"
    /\ UNCHANGED <<plan, left, receipts, inst, reserved, counter, seeded, queue, req, ret, exited, history>>
\* interruptEarlier, and the server begins to serve.
Serving ==
    /\ phase = "starting"
    /\ \A k \in Keys : receipts[k].state \notin Unfinished
    /\ rows' = {IF w.inst # inst THEN [w EXCEPT !.life = "ended"] ELSE w : w \in rows}
    /\ phase' = "serving"
    /\ UNCHANGED <<plan, left, receipts, inst, reserved, counter, seeded, queue, req, ret, exited, history>>

\* The run the stops name exits.
RunExits ==
    /\ phase = "serving" /\ inst = 1 /\ ~exited
    /\ \E r \in Requests : Kind(r) = "stop"
    /\ exited' = TRUE
    /\ UNCHANGED <<plan, left, durable, memory, queue, req, ret, history>>

Init ==
    /\ \E s \in Scenarios : plan = s.plan /\ left = s.faults
    /\ receipts = [k \in Keys |-> NoReceipt] /\ rows = {}
    /\ inst = 1 /\ phase = "serving"
    /\ calls = <<>> /\ served = 0
    /\ reserved = [k \in Keys |-> Nobody]
    /\ counter = 0 /\ seeded = FALSE
    /\ req = [r \in Requests |-> Idle]
    /\ ret = Resting /\ exited = FALSE
    /\ effects = [k \in Keys |-> 0]
    /\ owner = [k \in Keys |-> Nobody]
    /\ named = [k \in Keys |-> 0]
    /\ rowDropped = FALSE

Next ==
    \/ \E r \in Requests :
         Submit(r) \/ Serve(r) \/ Deliver(r) \/ WorkerRuns(r) \/ WorkerRefuses(r) \/ WorkerAnswers(r)
    \/ PassBegins \/ ServeMark \/ ServePurge \/ ServePassRefused \/ PassAnswered
    \/ StoreFails \/ Crash \/ Serving \/ RunExits
    \/ \E k \in Keys : Verify(k)

Spec == Init /\ [][Next]_vars

-----------------------------------------------------------------------------
(* Properties. *)

\* Every variable keeps the shape the code gives it.
TypeOK ==
    /\ plan \in [Requests -> Plans] /\ left \in [Faults -> Nat]
    /\ receipts \in [Keys -> ReceiptRecords]
    /\ rows \subseteq RowRecords
    /\ inst \in Nat /\ phase \in {"starting", "serving", "failed"}
    /\ calls \in Seq(Requests \cup {Retention}) /\ served \in 0..Len(calls)
    /\ reserved \in [Keys -> Requests \cup {Nobody}]
    /\ counter \in Nat /\ seeded \in BOOLEAN
    /\ req \in [Requests -> RequestRecords]
    /\ ret \in PassRecords
    /\ exited \in BOOLEAN
    /\ effects \in [Keys -> Nat] /\ owner \in [Keys -> Requests \cup {Nobody}]
    /\ named \in [Keys -> Nat] /\ rowDropped \in BOOLEAN

\* An operation ID is executed at most once: not by a resend, a concurrent request with the
\* same ID, a request after a restart, or one after its receipt was purged
\* (TerminalOperations.launch and stopRun, executeDatabaseWrite, receipts.purge).
AtMostOnce == \A k \in Keys : effects[k] <= 1

\* Nothing runs that the database does not know of, and a receipt's outcome is what happened:
\* accepted and failed say nothing was executed, succeeded says it was, or that the run a
\* stop names has exited (recordOutcome, get).
OutcomeTruthful ==
    \A k \in Keys :
      /\ receipts[k].state \in {"none", "accepted", "failed"} => effects[k] = 0
      /\ receipts[k].state = "succeeded" => IF receipts[k].method = "stop" THEN exited ELSE effects[k] = 1

\* A request that was answered with a definite refusal left no receipt and will not be
\* executed, whatever the store did with its calls (launch, stopRun, executeDatabaseWrite).
RefusalTruthful ==
    \A r \in Requests : req[r].pc = "done" /\ req[r].ans \in NotAccepted \ {"notFound"} => owner[Key(r)] # r

\* The run number in one operation's receipt is never handed to another, after restarts and
\* purges, as long as no run row disappears that no receipt names (nextRun,
\* runs.highestNumber, receipts.purge).
NumbersUnique ==
    \A j, k \in Keys : j # k /\ named[j] > 0 => named[j] # named[k]
NumbersUniqueIfNamed == rowDropped \/ NumbersUnique

\* While the server serves, an unfinished receipt has an executor: the request that made it
\* still runs, or it could not record its progress because the store refused or failed, or it
\* is a stop waiting for the exit of its run (launch, stopRun, recoverInterrupted).
ExecutorAlive ==
    phase = "serving" => \A k \in Keys : receipts[k].state \in Unfinished =>
      /\ owner[k] # Nobody /\ receipts[k].state # "recovering"
      /\ \/ req[owner[k]].pc \notin {"new", "done", "lost"}
         \/ req[owner[k]].ans = "unknown"
         \/ receipts[k].method = "stop" /\ req[owner[k]].out = "accepted"

\* A reservation is held by a request that will release it: a key is never left busy
\* (prepare, commit and cancel on every path of launch, stopRun and executeDatabaseWrite).
ReservationsReleased ==
    \A k \in Keys : reserved[k] # Nobody =>
      /\ Key(reserved[k]) = k
      /\ req[reserved[k]].pc \in {"number", "started", "commit", "launch", "write"}

\* A launch that is given up before its receipt took hold leaves no run record behind: its row
\* is gone when it is answered, unless the store refused or failed the call that would have
\* removed it, or failed while it recorded the run (create, launch, runs.notStarted).
AbandonedRunDropped ==
    [][\A r \in Requests :
          /\ req[r].pc \in {"started", "commit", "launch", "drop"} /\ req'[r].pc = "done"
          /\ owner[Key(r)] # r
          => \/ Row(inst, req[r].run, "starting") \notin rows'
             \/ req[r].pc \in {"started", "drop"} /\ Failed(r)]_vars

\* What progress, startup verification and retention may make of a receipt: an ended one is
\* never changed, except into its tombstone; revisions grow by one, and the request and the
\* run of a receipt stay (update, recoverInterrupted, receipts.replace, receipts.purge).
\* requires_attention is left to an explicit operation.continue or operation.abandon, which
\* for the requests of this module is always refused (WorktreeService.target acts on worktree
\* methods only) and is not modelled; no late executor or verification moves it.
ReceiptStep(old, new) ==
    \/ new = old
    \/ old.state = "none" /\ new.state \in {"accepted", "succeeded"}
    \/ /\ old.state \in Unfinished /\ HasRecord(new) /\ new.rev = old.rev + 1
       /\ new.intent = old.intent /\ new.run = old.run
    \/ old.state \in Ended /\ new.state = "purged" /\ new.intent = old.intent
ReceiptsMoveForward == [][\A k \in Keys : ReceiptStep(receipts[k], receipts'[k])]_vars
=============================================================================
