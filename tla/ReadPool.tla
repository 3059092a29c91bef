------------------------------- MODULE ReadPool -------------------------------
(***************************************************************************)
(* The reads of one Qianchuan batch: goroutines read the materials of      *)
(* plans, page by page.  Every page takes one of the pool's slots; the     *)
(* first goroutine that wants a plan's materials reads them and the others *)
(* wait for its answer, whatever it is; after a write the goroutine that   *)
(* wrote has the answer forgotten and asks anew.                           *)
(***************************************************************************)
EXTENDS Integers, FiniteSets, FiniteSetsExt

CONSTANTS
    Readers,      \* goroutines
    PlanOf,       \* the plan each reads: two of them may share one
    PageCount,    \* pages of a plan's materials
    Slots,        \* the concurrency of the command
    MaxWrites,    \* bound: writes of one goroutine
    Unset

PlanIds == {PlanOf[r] : r \in Readers}
Rounds == 0..MaxWrites   \* a goroutine reads, writes and reads again
Calls == Readers \X Rounds

ASSUME ReadPoolAssumption ==
    /\ DOMAIN PlanOf = Readers /\ PageCount \in Nat \ {0} /\ Slots \in 1..10
    /\ MaxWrites \in Nat /\ Unset \notin Calls

VARIABLES
    written,   \* how often each plan's materials were written
    reads,     \* the call the readers of each plan share, Unset if there is none
    call,      \* each shared read: pages to read, what they showed, its answer
    reader,    \* each goroutine: its round, the call it is in, the write it must see
    slots,     \* pages under way: <<call, page>>
    stopped    \* the context of the batch was cancelled

poolVars == <<written, reads, call, reader, slots, stopped>>

NoCall == [state |-> "open", todo |-> {1}, seen |-> {}, failed |-> FALSE]

ReadPoolInit ==
    /\ written = [p \in PlanIds |-> 0] /\ reads = [p \in PlanIds |-> Unset]
    /\ call = [k \in Calls |-> NoCall]
    /\ reader = [r \in Readers |-> [pc |-> "ask", round |-> 0, call |-> Unset, wrote |-> 0]]
    /\ slots = {} /\ stopped = FALSE

Own(r) == <<r, reader[r].round>>
Held(k) == {page \in 1..PageCount : <<k, page>> \in slots}

(* Mutant: a goroutine takes its slot before it joins the read.            *)
WaiterHoldsSlot(r) == {<<Own(r), 1>>}

(* Waiting for another goroutine's read takes no slot.                     *)
WaiterHolds(r) == {}

RunReadOnce(r) ==
    /\ reader[r].pc = "ask"
    /\ LET p == PlanOf[r]
       IN IF reads[p] = Unset
          THEN /\ reads' = [reads EXCEPT ![p] = Own(r)]
               /\ reader' = [reader EXCEPT ![r].pc = "read", ![r].call = Own(r)]
               /\ UNCHANGED slots
          ELSE /\ reader' = [reader EXCEPT ![r].pc = "wait", ![r].call = reads[p]]
               /\ slots' = slots \cup WaiterHolds(r)
               /\ UNCHANGED reads
    /\ UNCHANGED <<written, call, stopped>>

(* The first page says how many there are; the others are read in parallel. *)
RunRead(r) ==
    /\ reader[r].pc = "read" /\ Cardinality(slots) < Slots
    /\ \E page \in call[Own(r)].todo :
          /\ slots' = slots \cup {<<Own(r), page>>}
          /\ call' = [call EXCEPT ![Own(r)].todo = @ \ {page}]
    /\ UNCHANGED <<written, reads, reader, stopped>>

(* A page shows the materials as they are, or fails, and its slot is free. *)
FetchPage(r) ==
    /\ reader[r].pc = "read"
    /\ \E page \in Held(Own(r)), ok \in BOOLEAN :
          /\ slots' = slots \ {<<Own(r), page>>}
          /\ call' = [call EXCEPT ![Own(r)].failed = @ \/ ~ok,
                                  ![Own(r)].seen = IF ok THEN @ \cup {written[PlanOf[r]]} ELSE @,
                                  ![Own(r)].todo = IF page = 1 /\ ok THEN 2..PageCount ELSE @]
    /\ UNCHANGED <<written, reads, reader, stopped>>

(* A cancelled context ends the wait for a slot.                           *)
GiveUpPages(r) ==
    /\ reader[r].pc = "read" /\ stopped /\ call[Own(r)].todo # {}
    /\ call' = [call EXCEPT ![Own(r)].failed = TRUE, ![Own(r)].todo = {}]
    /\ UNCHANGED <<written, reads, reader, slots, stopped>>

(* The read ends when all its pages have; pages whose totals differ, since *)
(* something was written meanwhile, fail it.  The answer is kept for all   *)
(* later readers, a failure too.                                           *)
EndRead(r) ==
    LET k == Own(r)
    IN /\ reader[r].pc = "read" /\ call[k].todo = {} /\ Held(k) = {}
       /\ call' = [call EXCEPT ![k].state =
                     IF call[k].failed \/ Cardinality(call[k].seen) # 1 THEN "failed" ELSE "ok"]
       /\ reader' = [reader EXCEPT ![r].pc = IF call'[k].state = "ok" THEN "has" ELSE "ended"]
       /\ UNCHANGED <<written, reads, slots, stopped>>

WaitEnds(r) ==
    /\ reader[r].pc = "wait"
    /\ LET k == reader[r].call
       IN \/ /\ call[k].state # "open"
             /\ reader' = [reader EXCEPT ![r].pc = IF call[k].state = "ok" THEN "has" ELSE "ended"]
          \/ stopped /\ reader' = [reader EXCEPT ![r].pc = "ended"]
    /\ UNCHANGED <<written, reads, call, slots, stopped>>

(* Mutant: the answer from before the write is still shared.               *)
KeepRead(p) == reads

ForgetRead(p) == [reads EXCEPT ![p] = Unset]

(* A goroutine with its answer is done, or adds materials to the plan and  *)
(* reads them back.                                                        *)
Done(r) ==
    /\ reader[r].pc = "has"
    /\ reader' = [reader EXCEPT ![r].pc = "ended"]
    /\ UNCHANGED <<written, reads, call, slots, stopped>>
WriteMaterials(r) ==
    /\ reader[r].pc = "has" /\ reader[r].round < MaxWrites
    /\ written' = [written EXCEPT ![PlanOf[r]] = @ + 1]
    /\ reader' = [reader EXCEPT ![r].pc = "wrote", ![r].wrote = written[PlanOf[r]] + 1]
    /\ UNCHANGED <<reads, call, slots, stopped>>
RefreshPlanMaterials(r) ==
    /\ reader[r].pc = "wrote"
    /\ reads' = ForgetRead(PlanOf[r])
    /\ reader' = [reader EXCEPT ![r].pc = "ask", ![r].round = @ + 1]
    /\ UNCHANGED <<written, call, slots, stopped>>

StopBatch == ~stopped /\ stopped' = TRUE /\ UNCHANGED <<written, reads, call, reader, slots>>

ReaderStep(r) ==
    \/ RunReadOnce(r) \/ RunRead(r) \/ FetchPage(r) \/ GiveUpPages(r) \/ EndRead(r) \/ WaitEnds(r)
    \/ Done(r) \/ WriteMaterials(r) \/ RefreshPlanMaterials(r)
ReadPoolNext == StopBatch \/ \E r \in Readers : ReaderStep(r)
ReadPoolSpec == ReadPoolInit /\ [][ReadPoolNext]_poolVars

-----------------------------------------------------------------------------
(* Properties                                                              *)

(* What a goroutine reads back after its write is not older than the       *)
(* write, though others read the same plan at the same time and share      *)
(* their answers.                                                          *)
RefreshSeesWrite ==
    \A r \in Readers : reader[r].pc = "has"
    => \A seen \in call[reader[r].call].seen : seen >= reader[r].wrote

(* Nobody waits for a goroutine that waits: a slot is held by a page under *)
(* way, and a shared read that is open is being read.  So a batch ends     *)
(* with a single slot.                                                     *)
NobodyWaitsForAWaiter ==
    /\ \A s \in slots : reader[s[1][1]].pc = "read" /\ Own(s[1][1]) = s[1]
    /\ \A r \in Readers : LET k == reader[r].call
                         IN reader[r].pc = "wait" /\ call[k].state = "open"
                            => reader[k[1]].pc = "read" /\ Own(k[1]) = k
=============================================================================
