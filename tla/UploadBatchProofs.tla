------------------------- MODULE UploadBatchProofs -------------------------
(***************************************************************************)
(* What holds of UploadBatch for any runs, accounts, libraries, templates  *)
(* and limits.                                                             *)
(***************************************************************************)
EXTENDS UploadBatch, FiniteSetTheorems, SequenceTheorems, TLAPS

-----------------------------------------------------------------------------
(* At most one unfinished batch                                            *)

Active(r) == run[r].pc \in {"find", "prepare", "create"}
OthersDone(b) == \A d \in DOMAIN catalog : d # b => Completed(catalog[d])

(* The state is made of runs and of a sequence of journals.                *)
Shape ==
    /\ DOMAIN run = Runs
    /\ \A r \in Runs : {"pc", "batch", "rows", "plans"} \subseteq DOMAIN run[r]
    /\ \E S : catalog \in Seq(S)

(* A run that is under way holds the scope.                                *)
ScopeHeld == \A r \in Runs : Active(r) => scope = r

(* Every batch but the one a run has chosen is completed: it stays so, as  *)
(* only the holder of the scope writes to a journal.                       *)
Chosen ==
    \A r \in Runs : /\ run[r].pc = "prepare" => run[r].batch \in 1..Len(catalog) + 1 /\ OthersDone(run[r].batch)
                    /\ run[r].pc = "create" => run[r].batch \in DOMAIN catalog /\ OthersDone(run[r].batch)

Inv == Shape /\ ScopeHeld /\ Chosen /\ OneOpenBatch

(* Only one run is under way.                                              *)
LEMMA OneActive ==
    ASSUME Inv, NEW r \in Runs, NEW q \in Runs, Active(r), Active(q)
    PROVE  r = q
  BY DEF Inv, ScopeHeld

(* A step of a run that leaves the catalog alone or changes the journal of *)
(* its own batch.                                                          *)
LEMMA OwnJournal ==
    ASSUME Inv, NEW r \in Runs, run[r].pc = "create",
           DOMAIN run' = Runs, \A q \in Runs : {"pc", "batch", "rows", "plans"} \subseteq DOMAIN run'[q],
           \A q \in Runs : run'[q].pc = run[q].pc /\ run'[q].batch = run[q].batch,
           UNCHANGED scope,
           \E S : catalog' \in Seq(S),
           DOMAIN catalog' = DOMAIN catalog, Len(catalog') = Len(catalog),
           \A d \in DOMAIN catalog : d # run[r].batch => catalog'[d] = catalog[d]
    PROVE  Inv'
  <1>1. Shape'
    BY DEF Shape
  <1>2. ScopeHeld'
    BY DEF Inv, ScopeHeld, Active
  <1>3. run[r].batch \in DOMAIN catalog /\ OthersDone(run[r].batch)
    BY DEF Inv, Chosen
  <1>4. \A d \in DOMAIN catalog' : d # run[r].batch => Completed(catalog'[d])
    BY <1>3 DEF OthersDone
  <1>5. Chosen'
    <2>1. SUFFICES ASSUME NEW q \in Runs, run[q].pc \in {"prepare", "create"}
                   PROVE  q = r
      BY <1>3, <1>4 DEF Chosen, OthersDone
    <2> QED BY <2>1, OneActive DEF Active
  <1>6. OneOpenBatch'
    BY <1>4 DEF OneOpenBatch
  <1> QED BY <1>1, <1>2, <1>5, <1>6 DEF Inv

(* A run leaves: its journal may have been written by its last save.       *)
LEMMA LeaveKeeps ==
    ASSUME Inv, NEW r \in Runs, NEW report, Active(r), Leave(r, report),
           \E S : catalog' \in Seq(S), OneOpenBatch'
    PROVE  Inv'
  <1>1. /\ DOMAIN run' = Runs /\ run'[r].pc = "done"
        /\ \A q \in Runs \ {r} : run'[q] = run[q]
        /\ \A q \in Runs : {"pc", "batch", "rows", "plans"} \subseteq DOMAIN run'[q]
    BY DEF Leave, Inv, Shape, Fresh
  <1>2. \A q \in Runs : ~Active(q)'
    BY <1>1, OneActive DEF Active
  <1>3. ScopeHeld' /\ Chosen'
    BY <1>2 DEF ScopeHeld, Chosen, Active
  <1> QED BY <1>1, <1>3 DEF Inv, Shape

LEMMA ReplacedIsSeq ==
    ASSUME \E S : catalog \in Seq(S), NEW b \in DOMAIN catalog, NEW journal,
           catalog' = [catalog EXCEPT ![b] = journal]
    PROVE  /\ \E S : catalog' \in Seq(S)
           /\ DOMAIN catalog' = DOMAIN catalog /\ Len(catalog') = Len(catalog)
           /\ \A d \in DOMAIN catalog : d # b => catalog'[d] = catalog[d]
  <1>1. PICK S : catalog \in Seq(S)
    OBVIOUS
  <1>2. catalog \in Seq(S \cup {journal})
    BY <1>1, SeqMonotonic
  <1>3. catalog' \in Seq(S \cup {journal}) /\ Len(catalog') = Len(catalog)
    BY <1>2, ExceptSeq
  <1> QED BY <1>1, <1>3

LEMMA AppendedIsSeq ==
    ASSUME \E S : catalog \in Seq(S), NEW journal, catalog' = Append(catalog, journal)
    PROVE  /\ \E S : catalog' \in Seq(S)
           /\ Len(catalog') = Len(catalog) + 1 /\ DOMAIN catalog' = 1..Len(catalog')
           /\ \A d \in DOMAIN catalog : catalog'[d] = catalog[d]
           /\ DOMAIN catalog = 1..Len(catalog) /\ Len(catalog) \in Nat
  <1>1. PICK S : catalog \in Seq(S)
    OBVIOUS
  <1>2. catalog \in Seq(S \cup {journal})
    BY <1>1, SeqMonotonic
  <1> QED BY <1>2, AppendProperties

(* Saving a chosen batch leaves the others completed.                      *)
LEMMA SaveKeeps ==
    ASSUME Inv, NEW r \in Runs, Save(r)
    PROVE  Inv'
  <1> DEFINE saved == IF run[r].batch \in DOMAIN catalog
                      THEN [catalog EXCEPT ![run[r].batch] = Written(@, run[r].plans)]
                      ELSE Append(catalog, Written(NewBatch, run[r].plans))
  <1>1. run[r].pc = "prepare" /\ Active(r)
    BY DEF Save, Active
  <1>2. run[r].batch \in 1..Len(catalog) + 1 /\ OthersDone(run[r].batch)
    BY <1>1 DEF Inv, Chosen
  <1>3. ASSUME catalog' = saved
        PROVE  /\ \E S : catalog' \in Seq(S)
               /\ run[r].batch \in DOMAIN catalog'
               /\ \A d \in DOMAIN catalog' : d # run[r].batch => Completed(catalog'[d])
    <2>1. CASE run[r].batch \in DOMAIN catalog
      <3>1. catalog' = [catalog EXCEPT ![run[r].batch] = Written(catalog[run[r].batch], run[r].plans)]
        BY <1>3, <2>1
      <3> HIDE DEF saved
      <3> QED BY <1>2, <2>1, <3>1, ReplacedIsSeq DEF Inv, Shape, OthersDone
    <2>2. CASE run[r].batch \notin DOMAIN catalog
      <3>1. catalog' = Append(catalog, Written(NewBatch, run[r].plans))
        BY <1>3, <2>2
      <3> HIDE DEF saved
      <3>2. /\ \E S : catalog' \in Seq(S)
            /\ Len(catalog') = Len(catalog) + 1 /\ DOMAIN catalog' = 1..Len(catalog')
            /\ \A d \in DOMAIN catalog : catalog'[d] = catalog[d]
            /\ DOMAIN catalog = 1..Len(catalog) /\ Len(catalog) \in Nat
        BY <3>1, AppendedIsSeq DEF Inv, Shape
      <3>3. run[r].batch = Len(catalog) + 1
        BY <1>2, <2>2, <3>2
      <3> QED BY <1>2, <3>2, <3>3 DEF OthersDone
    <2> QED BY <2>1, <2>2
  <1>4. CASE /\ catalog' = saved /\ run' = [run EXCEPT ![r].pc = "create"] /\ UNCHANGED scope
    <2> HIDE DEF saved
    <2>1. /\ DOMAIN run' = Runs
          /\ run'[r].pc = "create" /\ run'[r].batch = run[r].batch
          /\ \A q \in Runs \ {r} : run'[q] = run[q]
          /\ \A q \in Runs : {"pc", "batch", "rows", "plans"} \subseteq DOMAIN run'[q]
      BY <1>4 DEF Inv, Shape
    <2>2. \A q \in Runs \ {r} : ~Active(q)'
      BY <1>1, <2>1, OneActive DEF Active
    <2>3. ScopeHeld'
      BY <1>1, <1>4, <2>2 DEF Inv, ScopeHeld
    <2>4. Chosen'
      BY <1>3, <1>4, <2>1, <2>2 DEF Chosen, Active, OthersDone
    <2>5. OneOpenBatch'
      BY <1>3, <1>4 DEF OneOpenBatch
    <2> QED BY <1>3, <1>4, <2>1, <2>3, <2>4, <2>5 DEF Inv, Shape
  <1>5. CASE catalog' \in {catalog, saved} /\ Leave(r, None)
    <2> HIDE DEF saved
    <2>1. (\E S : catalog' \in Seq(S)) /\ OneOpenBatch'
      <3>1. CASE catalog' = catalog
        BY <3>1 DEF Inv, Shape, OneOpenBatch
      <3>2. CASE catalog' = saved
        BY <1>3, <3>2 DEF OneOpenBatch
      <3> QED BY <1>5, <3>1, <3>2
    <2> QED BY <1>1, <1>5, <2>1, LeaveKeeps
  <1> QED BY <1>4, <1>5 DEF Save

(* A step on a unit writes to the journal of the run's own batch.          *)
LEMMA UnitKeeps ==
    ASSUME Inv, NEW r \in Runs, NEW a \in Accounts,
           Settled(r, a) \/ Blocked(r, a) \/ Recover(r, a) \/ Create(r, a)
    PROVE  Inv'
  <1>1. run[r].pc = "create" /\ UNCHANGED scope
    BY DEF Settled, Blocked, Recover, Create, Pending
  <1>2. \E row : Row(r, a, row)
    BY DEF Settled, Blocked, Recover, Create
  <1>3. /\ DOMAIN run' = Runs
        /\ \A q \in Runs : {"pc", "batch", "rows", "plans"} \subseteq DOMAIN run'[q]
        /\ \A q \in Runs : run'[q].pc = run[q].pc /\ run'[q].batch = run[q].batch
    BY <1>2 DEF Row, Inv, Shape
  <1>4. catalog' = catalog \/ \E status : Recorded(r, a, status)
    BY DEF Settled, Blocked, Recover, Create
  <1>5. run[r].batch \in DOMAIN catalog
    BY <1>1 DEF Inv, Chosen
  <1>6. \E journal : catalog' = [catalog EXCEPT ![run[r].batch] = journal] \/ catalog' = catalog
    BY <1>4 DEF Recorded
  <1>7. /\ \E S : catalog' \in Seq(S)
        /\ DOMAIN catalog' = DOMAIN catalog /\ Len(catalog') = Len(catalog)
        /\ \A d \in DOMAIN catalog : d # run[r].batch => catalog'[d] = catalog[d]
    BY <1>5, <1>6, ReplacedIsSeq DEF Inv, Shape
  <1> QED BY <1>1, <1>3, <1>7, OwnJournal

LEMMA InvStep == Inv /\ [Next]_vars => Inv'
  <1>1. ASSUME Inv, UNCHANGED vars
        PROVE  Inv'
    BY <1>1 DEF vars, Inv, Shape, ScopeHeld, Chosen, OneOpenBatch, Active, OthersDone
  <1>2. ASSUME Inv, NEW r \in Runs, Begin(r)
        PROVE  Inv'
    <2>1. /\ DOMAIN run' = Runs
          /\ run'[r].pc = "find"
          /\ \A q \in Runs \ {r} : run'[q] = run[q] /\ ~Active(q)
          /\ \A q \in Runs : {"pc", "batch", "rows", "plans"} \subseteq DOMAIN run'[q]
      BY <1>2, NoneAssumption DEF Begin, Inv, Shape, ScopeHeld
    <2>2. ScopeHeld' /\ Chosen'
      BY <1>2, <2>1 DEF Begin, ScopeHeld, Chosen, Active
    <2> QED BY <1>2, <2>1, <2>2 DEF Begin, Inv, Shape, OneOpenBatch
  <1>3. ASSUME Inv, NEW r \in Runs, Find(r)
        PROVE  Inv'
    <2>1. Active(r) /\ UNCHANGED catalog
      BY <1>3 DEF Find, Active
    <2>2. (\E S : catalog' \in Seq(S)) /\ OneOpenBatch'
      BY <1>3, <2>1 DEF Inv, Shape, OneOpenBatch
    <2>3. CASE Leave(r, None)
      BY <1>3, <2>1, <2>2, <2>3, LeaveKeeps
    <2>4. CASE /\ run' = [run EXCEPT ![r].pc = "prepare",
                                     ![r].batch = IF Open = {} THEN Len(catalog) + 1 ELSE CHOOSE b \in Open : TRUE]
               /\ UNCHANGED scope
      <3> DEFINE batch == IF Open = {} THEN Len(catalog) + 1 ELSE CHOOSE b \in Open : TRUE
      <3>1. Len(catalog) \in Nat /\ DOMAIN catalog = 1..Len(catalog)
        BY <1>3 DEF Inv, Shape
      <3>2. batch \in 1..Len(catalog) + 1 /\ OthersDone(batch)
        <4>1. CASE Open = {}
          BY <3>1, <4>1 DEF Open, OthersDone
        <4>2. CASE Open # {}
          <5>1. batch \in Open
            BY <4>2
          <5>2. batch \in DOMAIN catalog /\ ~Completed(catalog[batch])
            BY <5>1 DEF Open
          <5> HIDE DEF batch
          <5> QED BY <1>3, <3>1, <5>2 DEF Inv, OneOpenBatch, OthersDone
        <4> QED BY <4>1, <4>2
      <3> HIDE DEF batch
      <3>3. /\ DOMAIN run' = Runs
            /\ run'[r].pc = "prepare" /\ run'[r].batch = batch
            /\ \A q \in Runs \ {r} : run'[q] = run[q] /\ ~Active(q)
            /\ \A q \in Runs : {"pc", "batch", "rows", "plans"} \subseteq DOMAIN run'[q]
        BY <1>3, <2>1, <2>4, OneActive DEF Inv, Shape, batch
      <3>4. \A q \in Runs \ {r} : ~Active(q)'
        BY <3>3 DEF Active
      <3>5. ScopeHeld'
        BY <1>3, <2>1, <2>4, <3>4 DEF Inv, ScopeHeld
      <3>6. Chosen'
        BY <2>1, <3>2, <3>3, <3>4 DEF Chosen, Active, OthersDone
      <3> QED BY <1>3, <2>1, <2>2, <3>3, <3>5, <3>6 DEF Inv, Shape
    <2> QED BY <1>3, <2>3, <2>4 DEF Find
  <1>4. ASSUME Inv, NEW r \in Runs, NEW a \in Accounts, Prepare(r, a)
        PROVE  Inv'
    <2>1. PICK plan : run' = [run EXCEPT ![r].plans[a] = plan]
      BY <1>4 DEF Prepare
    <2>2. /\ DOMAIN run' = Runs
          /\ \A q \in Runs : {"pc", "batch", "rows", "plans"} \subseteq DOMAIN run'[q]
          /\ \A q \in Runs : run'[q].pc = run[q].pc /\ run'[q].batch = run[q].batch
      BY <1>4, <2>1 DEF Inv, Shape
    <2> QED BY <1>4, <2>2 DEF Prepare, Inv, Shape, ScopeHeld, Chosen, OneOpenBatch, Active, OthersDone
  <1>5. ASSUME Inv, NEW r \in Runs, End(r) \/ Crash(r)
        PROVE  Inv'
    <2>2. CASE Active(r)
      BY <1>5, <2>2, LeaveKeeps DEF End, Crash, Inv, Shape, OneOpenBatch
    <2>3. CASE ~Active(r)
      <3>1. (\E report : Leave(r, report)) /\ UNCHANGED catalog
        BY <1>5 DEF End, Crash
      <3>2. /\ DOMAIN run' = Runs /\ run'[r].pc = "done"
            /\ \A q \in Runs \ {r} : run'[q] = run[q]
            /\ \A q \in Runs : {"pc", "batch", "rows", "plans"} \subseteq DOMAIN run'[q]
        BY <1>5, <3>1 DEF Leave, Fresh, Inv, Shape
      <3>3. \A q \in Runs \ {r} : Active(q) => scope' = scope
        BY <1>5, <3>1 DEF Leave, Inv, ScopeHeld
      <3>4. ScopeHeld' /\ Chosen'
        BY <1>5, <3>1, <3>2, <3>3 DEF Inv, ScopeHeld, Chosen, Active, OthersDone
      <3> QED BY <1>5, <3>1, <3>2, <3>4 DEF Inv, Shape, OneOpenBatch
    <2> QED BY <2>2, <2>3
  <1> QED BY <1>1, <1>2, <1>3, <1>4, <1>5, SaveKeeps, UnitKeeps DEF Next

(* However many runs start one upload, and wherever they die, at most one  *)
(* of its batches is unfinished: a further run always knows what to do.    *)
THEOREM OneOpen == Spec => []OneOpenBatch
  <1>1. Init => Inv
    BY DEF Init, Inv, Shape, ScopeHeld, Chosen, OneOpenBatch, Active, Fresh
  <1>2. Inv => OneOpenBatch
    BY DEF Inv
  <1> QED BY <1>1, <1>2, InvStep, PTL DEF Spec

-----------------------------------------------------------------------------
(* Units are created as they were frozen                                   *)

JournalShape ==
    \A b \in DOMAIN catalog :
        /\ DOMAIN catalog[b] = Accounts
        /\ \A a \in Accounts : DOMAIN catalog[b][a] = {"config", "groups", "status"}

(* A plan goes by what is frozen of the account.                           *)
Follows(plan, frozen) ==
    frozen.groups # <<>> => plan.groups = frozen.groups /\ plan.config = frozen.config

(* What a run has planned follows its journal, and once it is saved the    *)
(* journal follows the plan too.                                           *)
PlansFollow ==
    \A r \in Runs :
        /\ run[r].pc # "done" => DOMAIN run[r].plans = Accounts
        /\ run[r].pc \in {"idle", "find"} => \A a \in Accounts : run[r].plans[a] = None
        /\ run[r].pc = "prepare" =>
              \A a \in Accounts : run[r].plans[a] # None => Follows(run[r].plans[a], Batch(r)[a])
        /\ run[r].pc = "create" =>
              \A a \in Accounts : /\ run[r].plans[a].groups = catalog[run[r].batch][a].groups
                                  /\ Follows(run[r].plans[a], catalog[run[r].batch][a])

UnitsRefer == \A u \in units : u.batch \in DOMAIN catalog /\ u.account \in Accounts

FrozenInv == Inv /\ JournalShape /\ PlansFollow /\ UnitsRefer /\ UnitsAsFrozen

(* Journals are added, and keep what they have frozen.                     *)
Keeps ==
    /\ DOMAIN catalog \subseteq DOMAIN catalog'
    /\ \A b \in DOMAIN catalog, a \in Accounts :
          catalog[b][a].groups # <<>> => /\ catalog'[b][a].groups = catalog[b][a].groups
                                        /\ catalog'[b][a].config = catalog[b][a].config

LEMMA UnitsStay ==
    ASSUME FrozenInv, Keeps, UNCHANGED units
    PROVE  UnitsRefer' /\ UnitsAsFrozen'
  <1>1. ASSUME NEW u \in units
        PROVE  /\ catalog'[u.batch][u.account].groups = catalog[u.batch][u.account].groups
               /\ catalog'[u.batch][u.account].config = catalog[u.batch][u.account].config
    BY DEF FrozenInv, Keeps, UnitsRefer, UnitsAsFrozen
  <1>2. UnitsRefer'
    BY DEF FrozenInv, Keeps, UnitsRefer
  <1> QED BY <1>1, <1>2 DEF FrozenInv, UnitsAsFrozen

LEMMA RecordedKeeps ==
    ASSUME FrozenInv, NEW r \in Runs, NEW a \in Accounts, NEW status,
           run[r].batch \in DOMAIN catalog, Recorded(r, a, status)
    PROVE  /\ JournalShape' /\ DOMAIN catalog' = DOMAIN catalog
           /\ \A b \in DOMAIN catalog, c \in Accounts :
                 catalog'[b][c].groups = catalog[b][c].groups /\ catalog'[b][c].config = catalog[b][c].config
  <1> DEFINE b == run[r].batch
             statuses == [catalog[b][a].status EXCEPT ![Job(r, a)] = status]
             account == [catalog[b][a] EXCEPT !.status = statuses]
             journal == [catalog[b] EXCEPT ![a] = account]
  <1>1. catalog' = [catalog EXCEPT ![b] = journal]
    BY DEF Recorded
  <1>2. /\ DOMAIN account = {"config", "groups", "status"}
        /\ account.groups = catalog[b][a].groups /\ account.config = catalog[b][a].config
    BY DEF FrozenInv, JournalShape
  <1> HIDE DEF account, b
  <1>3. /\ DOMAIN journal = Accounts /\ journal[a] = account
        /\ \A c \in Accounts \ {a} : journal[c] = catalog[b][c]
    BY DEF FrozenInv, JournalShape, b
  <1> HIDE DEF journal
  <1>4. /\ DOMAIN catalog' = DOMAIN catalog /\ catalog'[b] = journal
        /\ \A d \in DOMAIN catalog \ {b} : catalog'[d] = catalog[d]
    BY <1>1 DEF b
  <1>5. JournalShape'
    BY <1>2, <1>3, <1>4 DEF FrozenInv, JournalShape
  <1> QED BY <1>2, <1>3, <1>4, <1>5

(* No run but the one that moves is under way, so only its plan matters.   *)
LEMMA OthersIdle ==
    ASSUME FrozenInv, NEW r \in Runs, Active(r), Inv',
           \A q \in Runs \ {r} : run'[q] = run[q],
           /\ run'[r].pc # "done" => DOMAIN run'[r].plans = Accounts
           /\ run'[r].pc \in {"idle", "find"} => \A a \in Accounts : run'[r].plans[a] = None
           /\ run'[r].pc = "prepare" =>
                 \A a \in Accounts : run'[r].plans[a] # None => Follows(run'[r].plans[a], Batch(r)'[a])
           /\ run'[r].pc = "create" =>
                 \A a \in Accounts : /\ run'[r].plans[a].groups = catalog'[run'[r].batch][a].groups
                                     /\ Follows(run'[r].plans[a], catalog'[run'[r].batch][a])
    PROVE  PlansFollow'
  <1>1. ASSUME NEW q \in Runs \ {r}
        PROVE  run'[q].pc \notin {"find", "prepare", "create"}
    BY <1>1, OneActive DEF Active, FrozenInv
  <1> QED BY <1>1 DEF PlansFollow, FrozenInv

LEMMA LeaveFollows ==
    ASSUME FrozenInv, NEW r \in Runs, NEW report, Leave(r, report), Inv',
           JournalShape', Keeps, UNCHANGED units, Active(r) \/ UNCHANGED catalog
    PROVE  FrozenInv'
  <1>1. /\ run'[r].pc = "done"
        /\ \A q \in Runs \ {r} : run'[q] = run[q]
    BY DEF Leave, Fresh, FrozenInv, Inv, Shape
  <1>2. PlansFollow'
    <2>1. CASE Active(r)
      BY <1>1, <2>1, OthersIdle
    <2>2. CASE UNCHANGED catalog
      BY <1>1, <2>2 DEF FrozenInv, PlansFollow, Batch
    <2> QED BY <2>1, <2>2
  <1> QED BY <1>2, UnitsStay DEF FrozenInv

(* What comes of a preparation follows what was frozen.                    *)
LEMMA PreparedFollows ==
    ASSUME NEW frozen, NEW a, NEW plan \in Prepared(frozen, a)
    PROVE  Follows(plan, frozen)
  <1>1. SUFFICES ASSUME frozen.groups # <<>>
                 PROVE  plan.groups = frozen.groups /\ plan.config = frozen.config
    BY DEF Follows
  <1>2. CASE plan = Withheld(frozen)
    BY <1>2 DEF Withheld
  <1>3. CASE \E c, p, k : plan = FrozenPlan(frozen, c, p, k)
    BY <1>3 DEF FrozenPlan, Withheld
  <1> QED BY <1>1, <1>2, <1>3 DEF Prepared

(* Saving freezes the plan of an account that had none, and nothing else.  *)
LEMMA WrittenFollows ==
    ASSUME NEW batch, NEW plans, NEW a \in Accounts, Follows(plans[a], batch[a])
    PROVE  /\ DOMAIN Written(batch, plans) = Accounts
           /\ batch[a].groups # <<>> => Written(batch, plans)[a] = batch[a]
           /\ plans[a].groups = Written(batch, plans)[a].groups
           /\ Follows(plans[a], Written(batch, plans)[a])
  BY DEF Written, Frozen, Follows

(* What Save makes of the journals.                                        *)
Saved(r) ==
    IF run[r].batch \in DOMAIN catalog
    THEN [catalog EXCEPT ![run[r].batch] = Written(@, run[r].plans)]
    ELSE Append(catalog, Written(NewBatch, run[r].plans))

LEMMA SavedJournal ==
    ASSUME FrozenInv, NEW r \in Runs, Save(r), catalog' = Saved(r)
    PROVE  LET new == Written(Batch(r), run[r].plans) IN
           /\ \A a \in Accounts : /\ run[r].plans[a].groups = new[a].groups
                                  /\ Follows(run[r].plans[a], new[a])
           /\ JournalShape' /\ Keeps
           /\ DOMAIN catalog' = DOMAIN catalog \cup {run[r].batch}
           /\ catalog'[run[r].batch] = new
           /\ \A b \in DOMAIN catalog \ {run[r].batch} : catalog'[b] = catalog[b]
  <1> DEFINE plans == run[r].plans
             new == Written(Batch(r), plans)
  <1>1. /\ run[r].pc = "prepare"
        /\ \A a \in Accounts : Follows(plans[a], Batch(r)[a])
    BY DEF Save, FrozenInv, PlansFollow
  <1>2. \A a \in Accounts : DOMAIN Batch(r)[a] = {"config", "groups", "status"}
    BY DEF Batch, NewBatch, Frozen, FrozenInv, JournalShape
  <1>3. /\ DOMAIN new = Accounts
        /\ \A a \in Accounts : DOMAIN new[a] = {"config", "groups", "status"}
        /\ \A a \in Accounts : /\ plans[a].groups = new[a].groups /\ Follows(plans[a], new[a])
                               /\ Batch(r)[a].groups # <<>> => new[a] = Batch(r)[a]
    <2>1. \A a \in Accounts : /\ plans[a].groups = new[a].groups /\ Follows(plans[a], new[a])
                              /\ Batch(r)[a].groups # <<>> => new[a] = Batch(r)[a]
      BY <1>1, WrittenFollows
    <2>2. DOMAIN new = Accounts
      BY DEF Written
    <2>3. \A a \in Accounts : new[a] = Batch(r)[a] \/ new[a] = Frozen(plans[a])
      BY DEF Written
    <2>4. \A a \in Accounts : DOMAIN Frozen(plans[a]) = {"config", "groups", "status"}
      BY DEF Frozen
    <2>5. ASSUME NEW a \in Accounts
          PROVE  DOMAIN new[a] = {"config", "groups", "status"}
      <3> HIDE DEF new
      <3>1. CASE new[a] = Batch(r)[a]
        BY <1>2, <3>1
      <3>2. CASE new[a] = Frozen(plans[a])
        BY <2>4, <3>2
      <3> QED BY <2>3, <3>1, <3>2
    <2> HIDE DEF new
    <2> QED BY <2>1, <2>2, <2>5
  <1>4. /\ JournalShape' /\ Keeps
        /\ DOMAIN catalog' = DOMAIN catalog \cup {run[r].batch}
        /\ catalog'[run[r].batch] = new
        /\ \A b \in DOMAIN catalog \ {run[r].batch} : catalog'[b] = catalog[b]
    <2>3. ASSUME \A b \in DOMAIN catalog' : \/ b \in DOMAIN catalog /\ catalog'[b] = catalog[b]
                                           \/ catalog'[b] = new
          PROVE  JournalShape'
      <3> HIDE DEF new
      <3>1. SUFFICES ASSUME NEW b \in DOMAIN catalog'
                     PROVE  /\ DOMAIN catalog'[b] = Accounts
                            /\ \A a \in Accounts : DOMAIN catalog'[b][a] = {"config", "groups", "status"}
        BY DEF JournalShape
      <3>2. CASE catalog'[b] = new
        BY <1>3, <3>2
      <3>3. CASE b \in DOMAIN catalog /\ catalog'[b] = catalog[b]
        BY <3>3 DEF FrozenInv, JournalShape
      <3> QED BY <2>3, <3>2, <3>3
    <2>1. CASE run[r].batch \in DOMAIN catalog
      <3>1. catalog' = [catalog EXCEPT ![run[r].batch] = new]
        BY <2>1 DEF Saved, Batch
      <3>2. /\ DOMAIN catalog' = DOMAIN catalog /\ catalog'[run[r].batch] = new
            /\ \A b \in DOMAIN catalog \ {run[r].batch} : catalog'[b] = catalog[b]
        BY <2>1, <3>1
      <3> HIDE DEF new
      <3>3. catalog[run[r].batch] = Batch(r)
        BY <2>1 DEF Batch
      <3>4. JournalShape'
        BY <2>3, <3>2
      <3>5. Keeps
        BY <1>3, <2>1, <3>2, <3>3 DEF Keeps
      <3> QED BY <2>1, <3>2, <3>4, <3>5
    <2>2. CASE run[r].batch \notin DOMAIN catalog
      <3>1. catalog' = Append(catalog, new)
        BY <2>2 DEF Saved, Batch
      <3> HIDE DEF new
      <3>2. /\ Len(catalog') = Len(catalog) + 1 /\ DOMAIN catalog' = 1..Len(catalog')
            /\ \A b \in DOMAIN catalog : catalog'[b] = catalog[b]
            /\ DOMAIN catalog = 1..Len(catalog) /\ Len(catalog) \in Nat
        BY <3>1, AppendedIsSeq DEF FrozenInv, Inv, Shape
      <3>3. run[r].batch = Len(catalog) + 1
        BY <1>1, <2>2, <3>2 DEF FrozenInv, Inv, Chosen
      <3>4. catalog'[Len(catalog) + 1] = new
        <4>1. PICK S : catalog \in Seq(S)
          BY DEF FrozenInv, Inv, Shape
        <4>2. catalog \in Seq(S \cup {new})
          BY <4>1, SeqMonotonic
        <4> QED BY <3>1, <4>2, AppendProperties
      <3>5. /\ DOMAIN catalog' = DOMAIN catalog \cup {run[r].batch}
            /\ catalog'[run[r].batch] = new
        BY <3>2, <3>3, <3>4
      <3>6. JournalShape'
        BY <2>3, <3>2, <3>5
      <3>7. Keeps
        BY <3>2, <3>5 DEF Keeps
      <3> QED BY <3>2, <3>5, <3>6, <3>7
    <2> QED BY <2>1, <2>2
  <1> QED BY <1>3, <1>4

LEMMA SaveFollows ==
    ASSUME FrozenInv, NEW r \in Runs, Save(r), Inv'
    PROVE  FrozenInv'
  <1> DEFINE plans == run[r].plans
  <1>1. /\ run[r].pc = "prepare" /\ Active(r) /\ UNCHANGED units
        /\ \/ catalog' = Saved(r) /\ run' = [run EXCEPT ![r].pc = "create"] /\ UNCHANGED scope
           \/ catalog' \in {catalog, Saved(r)} /\ Leave(r, None)
    BY DEF Save, Saved, Active
  <1>2. CASE catalog' = Saved(r) /\ run' = [run EXCEPT ![r].pc = "create"] /\ UNCHANGED scope
    <2>1. /\ run'[r].pc = "create" /\ run'[r].batch = run[r].batch /\ run'[r].plans = plans
          /\ \A q \in Runs \ {r} : run'[q] = run[q]
      BY <1>2 DEF FrozenInv, Inv, Shape
    <2>2. DOMAIN plans = Accounts
      BY <1>1 DEF FrozenInv, PlansFollow
    <2>3. /\ \A a \in Accounts : /\ plans[a].groups = Written(Batch(r), plans)[a].groups
                                  /\ Follows(plans[a], Written(Batch(r), plans)[a])
          /\ JournalShape' /\ Keeps
          /\ catalog'[run[r].batch] = Written(Batch(r), plans)
      BY <1>2, SavedJournal
    <2>4. \A a \in Accounts : /\ run'[r].plans[a].groups = catalog'[run'[r].batch][a].groups
                              /\ Follows(run'[r].plans[a], catalog'[run'[r].batch][a])
      BY <2>1, <2>3
    <2>5. PlansFollow'
      <3> HIDE DEF plans
      <3>1. run'[r].pc \notin {"idle", "find", "prepare", "done"} /\ DOMAIN run'[r].plans = Accounts
        BY <2>1, <2>2
      <3> QED BY <1>1, <2>1, <2>4, <3>1, OthersIdle
    <2> QED BY <1>1, <1>2, <2>3, <2>5, UnitsStay DEF FrozenInv
  <1>3. CASE catalog' \in {catalog, Saved(r)} /\ Leave(r, None)
    <2>1. JournalShape' /\ Keeps
      <3>1. CASE catalog' = catalog
        BY <3>1 DEF FrozenInv, JournalShape, Keeps
      <3> QED BY <1>3, <3>1, SavedJournal
    <2> QED BY <1>1, <1>3, <2>1, LeaveFollows
  <1> QED BY <1>1, <1>2, <1>3

LEMMA UnitFollows ==
    ASSUME FrozenInv, NEW r \in Runs, NEW a \in Accounts, Inv',
           Settled(r, a) \/ Blocked(r, a) \/ Recover(r, a) \/ Create(r, a)
    PROVE  FrozenInv'
  <1>1. /\ run[r].pc = "create" /\ Active(r)
        /\ Job(r, a) \in DOMAIN run[r].plans[a].groups
    BY DEF Settled, Blocked, Recover, Create, Pending, Active
  <1>2. /\ run[r].batch \in DOMAIN catalog /\ DOMAIN run[r].plans = Accounts
        /\ \A c \in Accounts : /\ run[r].plans[c].groups = catalog[run[r].batch][c].groups
                               /\ Follows(run[r].plans[c], catalog[run[r].batch][c])
    BY <1>1 DEF FrozenInv, Inv, Chosen, PlansFollow
  <1>3. PICK row : Row(r, a, row)
    BY DEF Settled, Blocked, Recover, Create
  <1>4. /\ run'[r].pc = "create" /\ run'[r].batch = run[r].batch /\ run'[r].plans = run[r].plans
        /\ \A q \in Runs \ {r} : run'[q] = run[q]
    BY <1>1, <1>3 DEF Row, FrozenInv, Inv, Shape
  <1>5. catalog' = catalog \/ \E status : Recorded(r, a, status)
    BY DEF Settled, Blocked, Recover, Create
  <1>6. /\ JournalShape' /\ DOMAIN catalog' = DOMAIN catalog
        /\ \A b \in DOMAIN catalog, c \in Accounts :
              catalog'[b][c].groups = catalog[b][c].groups /\ catalog'[b][c].config = catalog[b][c].config
    BY <1>2, <1>5, RecordedKeeps DEF FrozenInv, JournalShape
  <1>7. PlansFollow'
    <2>1. \A c \in Accounts : /\ run'[r].plans[c].groups = catalog'[run'[r].batch][c].groups
                              /\ Follows(run'[r].plans[c], catalog'[run'[r].batch][c])
      BY <1>2, <1>4, <1>6 DEF Follows
    <2> QED BY <1>1, <1>2, <1>4, <2>1, OthersIdle
  <1>8. units' \subseteq units \cup {Unit(r, a, Job(r, a))}
    BY DEF Settled, Blocked, Recover, Create
  <1>9. UnitsRefer' /\ UnitsAsFrozen'
    <2>1. ASSUME NEW u \in units'
          PROVE  /\ u.batch \in DOMAIN catalog /\ u.account \in Accounts
                 /\ u.group \in DOMAIN catalog[u.batch][u.account].groups
                 /\ catalog[u.batch][u.account].groups[u.group] = u.videos
                 /\ catalog[u.batch][u.account].config = u.config
      <3>1. CASE u \in units
        BY <3>1 DEF FrozenInv, UnitsRefer, UnitsAsFrozen
      <3>2. CASE u = Unit(r, a, Job(r, a))
        <4>1. /\ u.batch = run[r].batch /\ u.account = a /\ u.group = Job(r, a)
              /\ u.videos = run[r].plans[a].groups[Job(r, a)] /\ u.config = run[r].plans[a].config
          BY <3>2 DEF Unit
        <4>2. catalog[run[r].batch][a].groups # <<>>
          BY <1>1, <1>2
        <4> QED BY <1>1, <1>2, <4>1, <4>2 DEF Follows
      <3> QED BY <1>8, <3>1, <3>2
    <2> QED BY <1>6, <2>1 DEF UnitsRefer, UnitsAsFrozen
  <1> QED BY <1>6, <1>7, <1>9 DEF FrozenInv

LEMMA FrozenStep == FrozenInv /\ [Next]_vars => FrozenInv'
  <1>1. ASSUME FrozenInv, [Next]_vars
        PROVE  Inv'
    BY <1>1, InvStep DEF FrozenInv
  <1>2. ASSUME FrozenInv, UNCHANGED vars
        PROVE  FrozenInv'
    BY <1>1, <1>2 DEF vars, FrozenInv, JournalShape, PlansFollow, Batch, UnitsRefer, UnitsAsFrozen
  <1>3. ASSUME FrozenInv, Inv', NEW r \in Runs, Begin(r)
        PROVE  FrozenInv'
    <2>1. /\ run'[r].pc = "find" /\ run'[r].plans = run[r].plans /\ run[r].pc = "idle"
          /\ \A q \in Runs \ {r} : run'[q] = run[q]
      BY <1>3 DEF Begin, FrozenInv, Inv, Shape
    <2>2. PlansFollow'
      BY <1>3, <2>1 DEF Begin, FrozenInv, PlansFollow, Batch
    <2> QED BY <1>3, <2>2 DEF Begin, FrozenInv, JournalShape, UnitsRefer, UnitsAsFrozen
  <1>4. ASSUME FrozenInv, Inv', NEW r \in Runs, Find(r)
        PROVE  FrozenInv'
    <2>1. UNCHANGED <<catalog, units>> /\ run[r].pc = "find" /\ Active(r)
      BY <1>4 DEF Find, Active
    <2>2. JournalShape' /\ Keeps
      BY <1>4, <2>1 DEF FrozenInv, JournalShape, Keeps
    <2>3. CASE Leave(r, None)
      BY <1>4, <2>1, <2>2, <2>3, LeaveFollows
    <2>4. CASE run' = [run EXCEPT ![r].pc = "prepare",
                                  ![r].batch = IF Open = {} THEN Len(catalog) + 1 ELSE CHOOSE b \in Open : TRUE]
      <3>1. /\ run'[r].pc = "prepare" /\ run'[r].plans = run[r].plans
            /\ \A q \in Runs \ {r} : run'[q] = run[q]
        BY <1>4, <2>4 DEF FrozenInv, Inv, Shape
      <3>2. /\ DOMAIN run[r].plans = Accounts
            /\ \A a \in Accounts : run[r].plans[a] = None
        BY <1>4, <2>1 DEF FrozenInv, PlansFollow
      <3>3. PlansFollow'
        BY <1>4, <2>1, <3>1, <3>2, OthersIdle
      <3> QED BY <1>4, <2>1, <2>2, <3>3, UnitsStay DEF FrozenInv
    <2> QED BY <1>4, <2>3, <2>4 DEF Find
  <1>5. ASSUME FrozenInv, Inv', NEW r \in Runs, NEW a \in Accounts, Prepare(r, a)
        PROVE  FrozenInv'
    <2>1. PICK plan \in Prepared(Batch(r)[a], a) : run' = [run EXCEPT ![r].plans[a] = plan]
      BY <1>5 DEF Prepare
    <2>2. /\ run[r].pc = "prepare" /\ Active(r) /\ UNCHANGED <<catalog, units>>
          /\ DOMAIN run[r].plans = Accounts
          /\ \A c \in Accounts : run[r].plans[c] # None => Follows(run[r].plans[c], Batch(r)[c])
      BY <1>5 DEF Prepare, Active, FrozenInv, PlansFollow
    <2>3. /\ run'[r].pc = "prepare" /\ run'[r].batch = run[r].batch
          /\ run'[r].plans = [run[r].plans EXCEPT ![a] = plan]
          /\ \A q \in Runs \ {r} : run'[q] = run[q]
      BY <1>5, <2>1, <2>2 DEF FrozenInv, Inv, Shape
    <2>4. Batch(r)' = Batch(r)
      BY <2>2, <2>3 DEF Batch
    <2>5. /\ DOMAIN run'[r].plans = Accounts
          /\ \A c \in Accounts : run'[r].plans[c] # None => Follows(run'[r].plans[c], Batch(r)'[c])
      BY <2>2, <2>3, <2>4, PreparedFollows
    <2>6. PlansFollow'
      BY <1>5, <2>2, <2>3, <2>5, OthersIdle
    <2>7. JournalShape' /\ Keeps
      BY <1>5, <2>2 DEF FrozenInv, JournalShape, Keeps
    <2> QED BY <1>5, <2>2, <2>6, <2>7, UnitsStay DEF FrozenInv
  <1>6. ASSUME FrozenInv, Inv', NEW r \in Runs, End(r) \/ Crash(r)
        PROVE  FrozenInv'
    <2>1. (\E report : Leave(r, report)) /\ UNCHANGED <<catalog, units>>
      BY <1>6 DEF End, Crash
    <2>2. JournalShape' /\ Keeps
      BY <1>6, <2>1 DEF FrozenInv, JournalShape, Keeps
    <2> QED BY <1>6, <2>1, <2>2, LeaveFollows
  <1>7. SUFFICES ASSUME FrozenInv, Next, Inv'
                 PROVE  FrozenInv'
    BY <1>1, <1>2
  <1> QED BY <1>3, <1>4, <1>5, <1>6, <1>7, SaveFollows, UnitFollows DEF Next

(* Whatever changes between the runs that work on an upload - templates,   *)
(* assets, library, covers - a unit on the platform has the videos and the *)
(* template its journal froze before the first of them was created.        *)
THEOREM FrozenUnits == Spec => []UnitsAsFrozen
  <1>1. Init => FrozenInv
    BY DEF Init, FrozenInv, Inv, Shape, ScopeHeld, Chosen, OneOpenBatch, Active, Fresh, JournalShape,
           PlansFollow, UnitsRefer, UnitsAsFrozen
  <1>2. FrozenInv => UnitsAsFrozen
    BY DEF FrozenInv
  <1> QED BY <1>1, <1>2, FrozenStep, PTL DEF Spec
-----------------------------------------------------------------------------
(* Nothing twice, nothing missing                                          *)

Rows == {"completed", "skipped_completed", "ambiguous", "blocked", "failed"}
Distinct(s) == \A i, j \in DOMAIN s : i # j => s[i] # s[j]
Apart(groups) == \A i, j \in DOMAIN groups : i # j => ToSet(groups[i]) \cap ToSet(groups[j]) = {}

(* The units that are planned, or frozen, for an account.                  *)
GroupsSound(a, groups, config) ==
    /\ groups \in Seq(Seq(VideosOf[a])) /\ Apart(groups)
    /\ config \in Configs \/ groups = <<>>
PlanSound(a, plan) ==
    /\ plan \in Plans(a)
    /\ GroupsSound(a, plan.groups, plan.config)
AccountSound(a, account) ==
    /\ GroupsSound(a, account.groups, account.config)
    /\ account.status \in [DOMAIN account.groups -> Statuses]
JournalsSound == \A b \in DOMAIN catalog, a \in Accounts : AccountSound(a, catalog[b][a])

(* A run, and what it says of its batch: the units that its rows call      *)
(* completed are on the platform, and with success all of them.            *)
OnPlatform(b, a, i) == \E u \in units : u.batch = b /\ u.account = a /\ u.group = i
RunSound(r) ==
    /\ DOMAIN run[r] = {"pc", "batch", "plans", "rows", "report"}
    /\ run[r].pc \in Pcs /\ run[r].report \in {None, "success", "errors"}
    /\ run[r].rows \in [Accounts -> Seq(Rows)]
    /\ \A a \in Accounts : run[r].plans[a] # None => PlanSound(a, run[r].plans[a])
    /\ run[r].pc = "create" =>
          \A a \in Accounts : /\ run[r].plans[a] # None
                              /\ Len(run[r].rows[a]) <= Len(run[r].plans[a].groups)
    /\ run[r].pc # "create" => run[r].rows = [a \in Accounts |-> <<>>]
    /\ run[r].report # None => run[r].pc = "done"
RunTrue(r) ==
    /\ run[r].pc = "create" =>
          \A a \in Accounts : \A i \in DOMAIN run[r].rows[a] :
              run[r].rows[a][i] \in {"completed", "skipped_completed"} => OnPlatform(run[r].batch, a, i)
    /\ run[r].report = "success" =>
          /\ run[r].batch \in DOMAIN catalog
          /\ \A a \in Accounts :
                /\ catalog[run[r].batch][a].groups # <<>>
                /\ \A i \in DOMAIN catalog[run[r].batch][a].groups : OnPlatform(run[r].batch, a, i)

UnitsTyped ==
    \A u \in units : u = [batch |-> u.batch, account |-> u.account, group |-> u.group,
                          videos |-> u.videos, config |-> u.config]

(* What a journal calls completed is on the platform.                      *)
CompletedExist ==
    \A b \in DOMAIN catalog, a \in Accounts :
        \A i \in DOMAIN catalog[b][a].groups :
            catalog[b][a].status[i] = "completed" => OnPlatform(b, a, i)

CompleteInv ==
    /\ FrozenInv /\ JournalsSound /\ UnitsTyped /\ CompletedExist
    /\ \A r \in Runs : RunSound(r) /\ RunTrue(r)

-----------------------------------------------------------------------------
(* What is kept of a list                                                  *)

(* Every number up to the size of a set of places is the rank of one.      *)
LEMMA Ranked ==
    ASSUME NEW n \in Nat, NEW places \in SUBSET (1..n)
    PROVE  /\ IsFiniteSet(places) /\ Cardinality(places) \in Nat
           /\ \A m \in 1..Cardinality(places) :
                 \E i \in places : Cardinality({j \in places : j <= i}) = m
  <1> DEFINE upTo(i) == {j \in places : j <= i}
             rank == [i \in places |-> Cardinality(upTo(i))]
             c == Cardinality(places)
  <1>1. IsFiniteSet(places) /\ c \in Nat
    <2>1. IsFiniteSet(1..n)
      BY FS_Interval
    <2>2. IsFiniteSet(places)
      BY <2>1, FS_Subset
    <2> QED BY <2>2, FS_CardinalityType
  <1>2. ASSUME NEW i \in places
        PROVE  IsFiniteSet(upTo(i)) /\ Cardinality(upTo(i)) \in 1..c
    <2>1. IsFiniteSet(upTo(i)) /\ Cardinality(upTo(i)) <= c
      BY <1>1, FS_Subset
    <2>2. upTo(i) # {}
      OBVIOUS
    <2> HIDE DEF upTo
    <2>3. Cardinality(upTo(i)) \in Nat
      BY <2>1, FS_CardinalityType
    <2>4. Cardinality(upTo(i)) # 0
      BY <2>1, <2>2, FS_EmptySet
    <2> QED BY <1>1, <2>1, <2>3, <2>4
  <1>3. ASSUME NEW i \in places, NEW k \in places, i < k
        PROVE  Cardinality(upTo(i)) < Cardinality(upTo(k))
    <2>1. upTo(i) \in SUBSET upTo(k) /\ k \in upTo(k) /\ k \notin upTo(i)
      <3>1. places \subseteq Int
        OBVIOUS
      <3>2. \A j \in places : j <= i => j <= k
        BY <1>3, <3>1
      <3>3. k <= k /\ ~(k <= i)
        BY <1>3, <3>1
      <3> QED BY <3>2, <3>3
    <2>2. upTo(i) # upTo(k)
      BY <2>1
    <2> HIDE DEF upTo
    <2>3. /\ Cardinality(upTo(i)) <= Cardinality(upTo(k))
          /\ Cardinality(upTo(i)) # Cardinality(upTo(k))
      BY <1>2, <2>1, <2>2, FS_Subset
    <2> QED BY <1>2, <2>3
  <1>4. rank \in Injection(places, 1..c)
    <2>1. rank \in [places -> 1..c]
      BY <1>2
    <2>2. ASSUME NEW i \in places, NEW k \in places, i # k
          PROVE  rank[i] # rank[k]
      <3>1. i < k \/ k < i
        BY <2>2
      <3>2. Cardinality(upTo(i)) # Cardinality(upTo(k))
        <4> HIDE DEF upTo
        <4> QED BY <1>2, <1>3, <3>1
      <3> QED BY <3>2
    <2> QED BY <2>1, <2>2 DEF Injection, IsInjective
  <1>5. IsFiniteSet(1..c) /\ Cardinality(1..c) = c
    BY <1>1, FS_Interval
  <1>6. rank \in Surjection(places, 1..c)
    <2> HIDE DEF rank
    <2> QED BY <1>4, <1>5, FS_Injection
  <1>7. \A m \in 1..c : \E i \in places : rank[i] = m
    <2> HIDE DEF rank
    <2> QED BY <1>6 DEF Surjection
  <1> QED BY <1>1, <1>7

(* The rows that are kept are those at the places, and if these hold       *)
(* different rows no row is kept twice.                                    *)
LEMMA KeptRows ==
    ASSUME NEW T, NEW rows \in Seq(T), NEW places \in SUBSET (DOMAIN rows)
    PROVE  /\ Kept(rows, places) \in Seq({rows[i] : i \in places})
           /\ (\A i, j \in places : i # j => rows[i] # rows[j]) => Distinct(Kept(rows, places))
  <1> DEFINE rank(i) == Cardinality({j \in places : j <= i})
             nth(m) == CHOOSE i \in places : rank(i) = m
             c == Cardinality(places)
  <1>1. /\ c \in Nat
        /\ \A m \in 1..c : \E i \in places : rank(i) = m
    <2> DEFINE n == Len(rows)
    <2>1. n \in Nat /\ places \in SUBSET (1..n)
      OBVIOUS
    <2> HIDE DEF n
    <2> QED BY <2>1, Ranked
  <1>2. \A m \in 1..c : nth(m) \in places /\ rank(nth(m)) = m
    <2> HIDE DEF rank
    <2> QED BY <1>1
  <1>3. Kept(rows, places) = [m \in 1..c |-> rows[nth(m)]]
    <2>1. \A m \in 1..c : Ascending(places)[m] = nth(m)
      BY DEF Ascending
    <2>2. Kept(rows, places) = [m \in 1..c |-> rows[Ascending(places)[m]]]
      BY DEF Kept
    <2> HIDE DEF nth
    <2> QED BY <2>1, <2>2
  <1> HIDE DEF nth, rank
  <1>4. Kept(rows, places) \in Seq({rows[i] : i \in places})
    <2>1. \A m \in 1..c : rows[nth(m)] \in {rows[i] : i \in places}
      BY <1>2
    <2> QED BY <1>1, <1>3, <2>1
  <1>5. ASSUME \A i, j \in places : i # j => rows[i] # rows[j]
        PROVE  Distinct(Kept(rows, places))
    <2>1. DOMAIN Kept(rows, places) = 1..c
      BY <1>3
    <2>2. ASSUME NEW m \in 1..c, NEW k \in 1..c, m # k
          PROVE  rows[nth(m)] # rows[nth(k)]
      <3>1. nth(m) # nth(k)
        BY <1>2, <2>2
      <3> QED BY <1>2, <1>5, <3>1
    <2> QED BY <1>3, <2>1, <2>2 DEF Distinct
  <1> QED BY <1>4, <1>5

(* Units made of different videos have no video in common.                 *)
LEMMA GroupsApart ==
    ASSUME NEW T, NEW videos \in Seq(T), Distinct(videos)
    PROVE  Groups(videos) \in Seq(Seq(T)) /\ Apart(Groups(videos))
  <1> DEFINE k == VideosPerUnit
             n == Len(videos)
             last(i) == IF i * k < n THEN i * k ELSE n
             group(i) == SubSeq(videos, (i - 1) * k + 1, last(i))
             count == (n + k - 1) \div k
  <1>1. k \in Nat \ {0} /\ n \in Nat /\ DOMAIN videos = 1..n
    BY LimitAssumption
  <1>2. n + k - 1 \in Nat
    BY <1>1
  <1>3. count \in Nat
    BY <1>1, <1>2
  <1>4. Groups(videos) = [i \in 1..count |-> group(i)]
    BY DEF Groups
  <1>5. ASSUME NEW i \in 1..count
        PROVE  /\ i * k \in Nat /\ (i - 1) * k \in Nat
               /\ i * k = (i - 1) * k + k
    <2>1. i \in Nat /\ i - 1 \in Nat
      BY <1>3
    <2> QED BY <1>1, <2>1
  <1> HIDE DEF k, count, n
  <1>6. ASSUME NEW i \in 1..count
        PROVE  /\ group(i) \in Seq(T)
               /\ \A v \in ToSet(group(i)) :
                     \E p \in 1..n : (i - 1) * k < p /\ p <= i * k /\ v = videos[p]
    <2> DEFINE m == (i - 1) * k + 1
    <2>1. m \in Nat \ {0} /\ last(i) \in Nat /\ last(i) <= n /\ last(i) <= i * k
      BY <1>1, <1>5
    <2>2. \A p \in m..last(i) : p \in 1..n /\ videos[p] \in T
      <3> HIDE DEF m, last
      <3>1. \A p \in m..last(i) : p \in 1..n
        BY <1>1, <2>1
      <3> QED BY <3>1, <1>1, ElementOfSeq DEF n
    <2> HIDE DEF m, last
    <2>3. /\ group(i) \in Seq(T)
          /\ Len(group(i)) = IF m <= last(i) THEN last(i) - m + 1 ELSE 0
          /\ \A q \in 1..(last(i) - m + 1) : group(i)[q] = videos[m + q - 1]
      BY <2>1, <2>2, SubSeqProperties DEF m
    <2>4. ASSUME NEW v \in ToSet(group(i))
          PROVE  \E p \in 1..n : (i - 1) * k < p /\ p <= i * k /\ v = videos[p]
      <3>1. PICK q \in DOMAIN group(i) : v = group(i)[q]
        BY DEF ToSet
      <3>2. DOMAIN group(i) = 1..Len(group(i))
        BY <2>3
      <3> HIDE DEF group
      <3>3. q \in 1..(last(i) - m + 1) /\ v = videos[m + q - 1]
        BY <2>1, <2>3, <3>1, <3>2
      <3>4. m + q - 1 \in 1..n /\ m + q - 1 <= i * k /\ m + q - 1 >= m
        BY <1>1, <1>5, <2>1, <3>3
      <3>5. (i - 1) * k < m + q - 1
        BY <1>5, <3>4, <3>3, <2>1 DEF m
      <3> QED BY <3>3, <3>4, <3>5
    <2> QED BY <2>3, <2>4
  <1> HIDE DEF group
  <1>7. ASSUME NEW i \in 1..count, NEW j \in 1..count, i < j
        PROVE  ToSet(group(i)) \cap ToSet(group(j)) = {}
    <2>1. SUFFICES ASSUME NEW v \in ToSet(group(i)), v \in ToSet(group(j))
                   PROVE  FALSE
      OBVIOUS
    <2>2. PICK p \in 1..n : p <= i * k /\ v = videos[p]
      BY <1>6
    <2>3. PICK q \in 1..n : (j - 1) * k < q /\ v = videos[q]
      BY <1>6, <2>1
    <2>4. i * k <= (j - 1) * k
      <3>1. i \in Nat /\ j \in Nat /\ i <= j - 1 /\ k \in Nat
        BY <1>1, <1>3, <1>7
      <3> HIDE DEF k
      <3>2. \A x, y, z \in Nat : x <= y => x * z <= y * z
        OBVIOUS
      <3> QED BY <3>1, <3>2
    <2>5. p < q
      BY <1>1, <1>5, <2>2, <2>3, <2>4
    <2>6. p \in DOMAIN videos /\ q \in DOMAIN videos /\ p # q
      BY <1>1, <2>5
    <2> QED BY <2>2, <2>3, <2>6 DEF Distinct
  <1>8. Apart(Groups(videos))
    <2>1. \A i, j \in 1..count : i # j => i < j \/ j < i
      BY <1>3
    <2> QED BY <1>4, <1>7, <2>1 DEF Apart
  <1> QED BY <1>3, <1>4, <1>6, <1>8

LEMMA KeptOfDistinct ==
    ASSUME NEW T, NEW rows \in Seq(T), Distinct(rows), NEW places \in SUBSET (DOMAIN rows)
    PROVE  Kept(rows, places) \in Seq(T) /\ Distinct(Kept(rows, places))
  <1>1. \A i \in DOMAIN rows : rows[i] \in T
    OBVIOUS
  <1>2. {rows[i] : i \in places} \subseteq T
    BY <1>1
  <1>3. Seq({rows[i] : i \in places}) \subseteq Seq(T)
    BY <1>2, SeqMonotonic
  <1>4. \A i, j \in places : i # j => rows[i] # rows[j]
    BY DEF Distinct
  <1>5. /\ Kept(rows, places) \in Seq({rows[i] : i \in places})
        /\ Distinct(Kept(rows, places))
    BY <1>4, KeptRows
  <1> QED BY <1>3, <1>5

LEMMA PrefixOfDistinct ==
    ASSUME NEW T, NEW rows \in Seq(T), Distinct(rows), NEW n \in 1..Len(rows)
    PROVE  SubSeq(rows, 1, n) \in Seq(T) /\ Distinct(SubSeq(rows, 1, n))
  <1> DEFINE prefix == SubSeq(rows, 1, n)
  <1>1. /\ Len(rows) \in Nat /\ DOMAIN rows = 1..Len(rows)
        /\ \A i \in 1..n : i \in DOMAIN rows /\ rows[i] \in T
    OBVIOUS
  <1>2. /\ prefix \in Seq(T) /\ DOMAIN prefix = 1..n
        /\ \A i \in 1..n : prefix[i] = rows[i]
    OBVIOUS
  <1> HIDE DEF prefix
  <1> QED BY <1>1, <1>2 DEF Distinct

(* Whatever the platform lists and accepts, a new plan has sound units.    *)
LEMMA NewPlanSound ==
    ASSUME NEW a \in Accounts, NEW config \in Configs, NEW rows \in Listings(a),
           NEW promotable, NEW covers
    PROVE  PlanSound(a, NewPlan(config, rows, promotable, covers))
  <1> DEFINE T == VideosOf[a]
             compact == Compact(rows)
             limited == Limited(compact)
             validated == Validated(limited, promotable)
             ready == Covered(validated, covers)
  <1>1. compact \in Seq(T) /\ Distinct(compact)
    <2> DEFINE first == {i \in DOMAIN rows : rows[i] # None /\ \A j \in 1..(i - 1) : rows[j] # rows[i]}
    <2>1. rows \in Seq(T \cup {None})
      BY DEF Listings, BoundedSeq, SeqOf
    <2>2. DOMAIN rows = 1..Len(rows) /\ Len(rows) \in Nat /\ \A i \in DOMAIN rows : rows[i] \in T \cup {None}
      BY <2>1
    <2>3. {rows[i] : i \in first} \subseteq T
      BY <2>2
    <2>4. ASSUME NEW i \in first, NEW j \in first, i # j
          PROVE  rows[i] # rows[j]
      <3>1. i \in Nat \ {0} /\ j \in Nat \ {0}
        BY <2>2
      <3>2. i \in 1..(j - 1) \/ j \in 1..(i - 1)
        BY <2>4, <3>1
      <3> QED BY <3>2
    <2>5. compact = Kept(rows, first)
      BY DEF Compact
    <2> HIDE DEF compact
    <2>6. first \in SUBSET (DOMAIN rows)
      OBVIOUS
    <2> HIDE DEF first
    <2>7. Kept(rows, first) \in Seq({rows[i] : i \in first}) /\ Distinct(Kept(rows, first))
      BY <2>1, <2>4, <2>6, KeptRows
    <2> QED BY <2>3, <2>5, <2>7, SeqMonotonic
  <1> HIDE DEF compact
  <1>2. limited \in Seq(T) /\ Distinct(limited)
    <2>1. CASE MaxVideos > 0 /\ Len(compact) > MaxVideos
      <3>1. limited = SubSeq(compact, 1, MaxVideos)
        BY <2>1 DEF Limited
      <3>2. MaxVideos \in 1..Len(compact)
        BY <1>1, <2>1, LimitAssumption
      <3> QED BY <1>1, <3>1, <3>2, PrefixOfDistinct
    <2>2. CASE ~(MaxVideos > 0 /\ Len(compact) > MaxVideos)
      BY <1>1, <2>2 DEF Limited
    <2> QED BY <2>1, <2>2
  <1> HIDE DEF limited
  <1>3. validated \in Seq(T) /\ Distinct(validated)
    BY <1>2, KeptOfDistinct DEF Validated
  <1> HIDE DEF validated
  <1>4. ready \in Seq(T) /\ Distinct(ready)
    BY <1>3, KeptOfDistinct DEF Covered
  <1> HIDE DEF ready
  <1>5. Groups(ready) \in Seq(Seq(T)) /\ Apart(Groups(ready))
    BY <1>4, GroupsApart
  <1>6. PlanSound(a, NoPlan)
    BY EmptySeq DEF PlanSound, GroupsSound, Plans, NoPlan, Apart
  <1>7. ASSUME NEW plan, plan = [config |-> config, groups |-> Groups(ready),
                       blocked |-> IF config \in Incomplete THEN DOMAIN Groups(ready) ELSE {}]
        PROVE  PlanSound(a, plan)
    <2>1. plan.blocked \subseteq DOMAIN Groups(ready) /\ DOMAIN Groups(ready) \subseteq Nat
      BY <1>5, <1>7
    <2> QED BY <1>5, <1>7, <2>1 DEF PlanSound, GroupsSound, Plans
  <1>8. NewPlan(config, rows, promotable, covers) =
           IF Repeats(rows) \/ ready = <<>> \/ (ready # validated /\ ~SkipMissingCover) THEN NoPlan
           ELSE [config |-> config, groups |-> Groups(ready),
                 blocked |-> IF config \in Incomplete THEN DOMAIN Groups(ready) ELSE {}]
    BY DEF NewPlan, ready, validated, limited, compact
  <1> QED BY <1>6, <1>7, <1>8

(* So has a plan made of what was frozen.                                  *)
LEMMA PreparedSound ==
    ASSUME NEW a \in Accounts, NEW frozen, GroupsSound(a, frozen.groups, frozen.config),
           NEW plan \in Prepared(frozen, a)
    PROVE  PlanSound(a, plan)
  <1>1. CASE frozen.groups = <<>>
    <2>1. CASE plan = NoPlan
      BY <2>1, EmptySeq DEF PlanSound, GroupsSound, Plans, NoPlan, Apart
    <2>2. CASE \E c \in Configs, rows \in Listings(a), p \in SUBSET VideosOf[a], k \in SUBSET VideosOf[a] :
                  plan = NewPlan(c, rows, p, k)
      BY <2>2, NewPlanSound
    <2> QED BY <1>1, <2>1, <2>2 DEF Prepared
  <1>2. CASE frozen.groups # <<>>
    <2>1. frozen.config \in Configs /\ DOMAIN frozen.groups \subseteq Nat
      BY <1>2 DEF GroupsSound
    <2>2. ASSUME plan.config = frozen.config, plan.groups = frozen.groups,
                 plan = [config |-> plan.config, groups |-> plan.groups, blocked |-> plan.blocked],
                 plan.blocked \subseteq DOMAIN frozen.groups
          PROVE  PlanSound(a, plan)
      BY <2>1, <2>2 DEF PlanSound, GroupsSound, Plans
    <2>3. ASSUME plan = Withheld(frozen)
          PROVE  PlanSound(a, plan)
      BY <2>2, <2>3 DEF Withheld
    <2>4. ASSUME NEW c \in Configs, NEW p, NEW k, plan = FrozenPlan(frozen, c, p, k)
          PROVE  PlanSound(a, plan)
      <3>1. CASE c # frozen.config
        BY <2>3, <2>4, <3>1 DEF FrozenPlan
      <3>2. CASE c = frozen.config
        <4> DEFINE blocked == {i \in DOMAIN frozen.groups : c \in Incomplete
                      \/ Covered(Validated(frozen.groups[i], p), k) # frozen.groups[i]}
        <4>1. plan = [config |-> c, groups |-> frozen.groups, blocked |-> blocked]
          BY <2>4, <3>2 DEF FrozenPlan
        <4>2. blocked \subseteq DOMAIN frozen.groups
          OBVIOUS
        <4> HIDE DEF blocked
        <4> QED BY <2>2, <3>2, <4>1, <4>2
      <3> QED BY <3>1, <3>2
    <2> QED BY <1>2, <2>3, <2>4 DEF Prepared
  <1> QED BY <1>1, <1>2

-----------------------------------------------------------------------------
(* The steps of a run                                                      *)

(* The runs that do not move stay as they are: journals and units only     *)
(* grow.                                                                   *)
LEMMA RunsKept ==
    ASSUME CompleteInv, NEW r \in Runs, \A q \in Runs \ {r} : run'[q] = run[q],
           Keeps, units \subseteq units', RunSound(r)', RunTrue(r)'
    PROVE  \A q \in Runs : RunSound(q)' /\ RunTrue(q)'
  <1>1. SUFFICES ASSUME NEW q \in Runs \ {r}
                 PROVE  RunSound(q)' /\ RunTrue(q)'
    OBVIOUS
  <1>2. run'[q] = run[q] /\ RunSound(q) /\ RunTrue(q)
    BY DEF CompleteInv
  <1>3. RunSound(q)'
    BY <1>2 DEF RunSound
  <1>4. \A b, a, i : OnPlatform(b, a, i) => OnPlatform(b, a, i)'
    BY DEF OnPlatform
  <1>5. ASSUME run[q].report = "success"
        PROVE  /\ run[q].batch \in DOMAIN catalog'
               /\ \A a \in Accounts :
                     /\ catalog'[run[q].batch][a].groups # <<>>
                     /\ \A i \in DOMAIN catalog'[run[q].batch][a].groups : OnPlatform(run[q].batch, a, i)
    BY <1>2, <1>5 DEF RunTrue, Keeps
  <1>6. RunTrue(q)'
    BY <1>2, <1>4, <1>5 DEF RunTrue, OnPlatform
  <1> QED BY <1>3, <1>6

(* A run that has ended says nothing but its report.                       *)
LEMMA LeftSound ==
    ASSUME CompleteInv, NEW r \in Runs, NEW report \in {None, "success", "errors"}, Leave(r, report),
           report = "success" =>
              /\ run[r].batch \in DOMAIN catalog'
              /\ \A a \in Accounts :
                    /\ catalog'[run[r].batch][a].groups # <<>>
                    /\ \A i \in DOMAIN catalog'[run[r].batch][a].groups :
                          \E u \in units' : u.batch = run[r].batch /\ u.account = a /\ u.group = i
    PROVE  (\A q \in Runs \ {r} : run'[q] = run[q]) /\ RunSound(r)' /\ RunTrue(r)'
  <1>1. /\ run'[r] = [Fresh EXCEPT !.pc = "done", !.batch = run[r].batch, !.report = report]
        /\ \A q \in Runs \ {r} : run'[q] = run[q]
    BY DEF Leave, CompleteInv, FrozenInv, Inv, Shape
  <1>2. run'[r] = [pc |-> "done", batch |-> run[r].batch, plans |-> [a \in Accounts |-> None],
                   rows |-> [a \in Accounts |-> <<>>], report |-> report]
    BY <1>1 DEF Fresh
  <1>3. RunSound(r)'
    <2>1. [a \in Accounts |-> <<>>] \in [Accounts -> Seq(Rows)]
      BY EmptySeq
    <2> QED BY <1>2, <2>1 DEF RunSound, Pcs
  <1>4. RunTrue(r)'
    BY <1>2 DEF RunTrue, OnPlatform
  <1> QED BY <1>1, <1>3, <1>4

(* A step that changes neither journals nor units.                         *)
LEMMA QuietComplete ==
    ASSUME CompleteInv, FrozenInv', UNCHANGED <<catalog, units>>, NEW r \in Runs,
           \A q \in Runs \ {r} : run'[q] = run[q], RunSound(r)', RunTrue(r)'
    PROVE  CompleteInv'
  <1>1. Keeps
    BY DEF Keeps
  <1>2. JournalsSound' /\ UnitsTyped' /\ CompletedExist'
    BY DEF CompleteInv, JournalsSound, UnitsTyped, CompletedExist, OnPlatform
  <1>3. \A q \in Runs : RunSound(q)' /\ RunTrue(q)'
    BY <1>1, RunsKept
  <1> QED BY <1>2, <1>3 DEF CompleteInv

LEMMA FrozenGroups ==
    ASSUME CompleteInv, NEW r \in Runs, NEW a \in Accounts
    PROVE  GroupsSound(a, Batch(r)[a].groups, Batch(r)[a].config)
  <1>1. CASE run[r].batch \in DOMAIN catalog
    BY <1>1 DEF Batch, CompleteInv, JournalsSound, AccountSound
  <1>2. CASE run[r].batch \notin DOMAIN catalog
    <2>1. Batch(r)[a].groups = <<>>
      BY <1>2 DEF Batch, NewBatch, Frozen, NoPlan
    <2> QED BY <2>1, EmptySeq DEF GroupsSound, Apart
  <1> QED BY <1>1, <1>2

LEMMA PrepareComplete ==
    ASSUME CompleteInv, FrozenInv', NEW r \in Runs, NEW a \in Accounts, Prepare(r, a)
    PROVE  CompleteInv'
  <1>1. PICK plan \in Prepared(Batch(r)[a], a) : run' = [run EXCEPT ![r].plans[a] = plan]
    BY DEF Prepare
  <1>2. PlanSound(a, plan)
    BY FrozenGroups, PreparedSound
  <1>3. /\ run[r].pc = "prepare" /\ DOMAIN run[r].plans = Accounts /\ UNCHANGED <<catalog, units>>
        /\ RunSound(r) /\ RunTrue(r)
    BY DEF Prepare, CompleteInv, FrozenInv, PlansFollow
  <1>4. /\ DOMAIN run'[r] = DOMAIN run[r] /\ run'[r].pc = "prepare" /\ run'[r].batch = run[r].batch
        /\ run'[r].plans = [run[r].plans EXCEPT ![a] = plan]
        /\ run'[r].rows = run[r].rows /\ run'[r].report = run[r].report
        /\ \A q \in Runs \ {r} : run'[q] = run[q]
    BY <1>1, <1>3 DEF CompleteInv, FrozenInv, Inv, Shape, RunSound
  <1>5. \A c \in Accounts : run'[r].plans[c] # None => PlanSound(c, run'[r].plans[c])
    BY <1>2, <1>3, <1>4 DEF RunSound
  <1>6. RunSound(r)'
    BY <1>3, <1>4, <1>5 DEF RunSound
  <1>7. RunTrue(r)'
    BY <1>3, <1>4 DEF RunTrue, RunSound, OnPlatform
  <1> QED BY <1>3, <1>4, <1>6, <1>7, QuietComplete

(* Saving adds units that are pending and keeps what is known of others.   *)
LEMMA WrittenSound ==
    ASSUME NEW batch, NEW plans, NEW a \in Accounts, PlanSound(a, plans[a]),
           batch[a].groups # <<>> => AccountSound(a, batch[a])
    PROVE  /\ AccountSound(a, Written(batch, plans)[a])
           /\ \/ batch[a].groups # <<>> /\ Written(batch, plans)[a] = batch[a]
              \/ \A i \in DOMAIN Written(batch, plans)[a].groups :
                    Written(batch, plans)[a].status[i] = "pending"
  <1>1. CASE batch[a].groups # <<>>
    BY <1>1 DEF Written
  <1>2. CASE batch[a].groups = <<>>
    <2>1. Written(batch, plans)[a] = [config |-> plans[a].config, groups |-> plans[a].groups,
                                      status |-> [i \in DOMAIN plans[a].groups |-> "pending"]]
      BY <1>2 DEF Written, Frozen
    <2> QED BY <2>1 DEF AccountSound, PlanSound, GroupsSound, Statuses
  <1> QED BY <1>1, <1>2

LEMMA SaveComplete ==
    ASSUME CompleteInv, FrozenInv', NEW r \in Runs, Save(r)
    PROVE  CompleteInv'
  <1> DEFINE new == Written(Batch(r), run[r].plans)
  <1>1. /\ run[r].pc = "prepare" /\ UNCHANGED units /\ RunSound(r) /\ RunTrue(r)
        /\ \A a \in Accounts : run[r].plans[a] # None /\ PlanSound(a, run[r].plans[a])
        /\ \/ catalog' = Saved(r) /\ run' = [run EXCEPT ![r].pc = "create"]
           \/ catalog' \in {catalog, Saved(r)} /\ Leave(r, None)
    BY DEF Save, Saved, CompleteInv, RunSound
  <1>2. \A a \in Accounts : Batch(r)[a].groups # <<>> =>
            run[r].batch \in DOMAIN catalog /\ Batch(r)[a] = catalog[run[r].batch][a]
    BY DEF Batch, NewBatch, Frozen, NoPlan
  <1>3. \A a \in Accounts : Batch(r)[a].groups # <<>> => AccountSound(a, Batch(r)[a])
    BY <1>2 DEF CompleteInv, JournalsSound
  <1>4. \A a \in Accounts :
           /\ AccountSound(a, new[a])
           /\ \/ Batch(r)[a].groups # <<>> /\ new[a] = Batch(r)[a]
              \/ \A i \in DOMAIN new[a].groups : new[a].status[i] = "pending"
    BY <1>1, <1>3, WrittenSound
  <1> HIDE DEF new
  <1>5. ASSUME catalog' = Saved(r)
        PROVE  /\ Keeps /\ JournalsSound' /\ CompletedExist'
               /\ run[r].batch \in DOMAIN catalog' /\ catalog'[run[r].batch] = new
               /\ \A a \in Accounts : run[r].plans[a].groups = new[a].groups
    <2>1. /\ \A a \in Accounts : run[r].plans[a].groups = new[a].groups
          /\ Keeps /\ DOMAIN catalog' = DOMAIN catalog \cup {run[r].batch}
          /\ catalog'[run[r].batch] = new
          /\ \A b \in DOMAIN catalog \ {run[r].batch} : catalog'[b] = catalog[b]
      BY <1>5, SavedJournal DEF CompleteInv, new
    <2>2. JournalsSound'
      <3>1. SUFFICES ASSUME NEW b \in DOMAIN catalog', NEW a \in Accounts
                     PROVE  AccountSound(a, catalog'[b][a])
        BY DEF JournalsSound, AccountSound, GroupsSound
      <3>2. CASE b = run[r].batch
        BY <1>4, <2>1, <3>2
      <3>3. CASE b \in DOMAIN catalog \ {run[r].batch}
        BY <2>1, <3>3 DEF CompleteInv, JournalsSound
      <3> QED BY <2>1, <3>2, <3>3
    <2>3. CompletedExist'
      <3>1. SUFFICES ASSUME NEW b \in DOMAIN catalog', NEW a \in Accounts,
                            NEW i \in DOMAIN catalog'[b][a].groups, catalog'[b][a].status[i] = "completed"
                     PROVE  OnPlatform(b, a, i)
        BY <1>1 DEF CompletedExist, OnPlatform
      <3>2. CASE b = run[r].batch
        <4>1. Batch(r)[a].groups # <<>> /\ new[a] = Batch(r)[a]
          BY <1>4, <2>1, <3>1, <3>2
        <4> QED BY <1>2, <2>1, <3>1, <3>2, <4>1 DEF CompleteInv, CompletedExist
      <3>3. CASE b \in DOMAIN catalog \ {run[r].batch}
        BY <2>1, <3>1, <3>3 DEF CompleteInv, CompletedExist
      <3> QED BY <2>1, <3>2, <3>3
    <2> QED BY <2>1, <2>2, <2>3
  <1>6. CASE catalog' = Saved(r) /\ run' = [run EXCEPT ![r].pc = "create"]
    <2>1. /\ run'[r] = [run[r] EXCEPT !.pc = "create"] /\ \A q \in Runs \ {r} : run'[q] = run[q]
      BY <1>6 DEF CompleteInv, FrozenInv, Inv, Shape
    <2>2. /\ DOMAIN run'[r] = DOMAIN run[r] /\ run'[r].pc = "create" /\ run'[r].batch = run[r].batch
          /\ run'[r].plans = run[r].plans /\ run'[r].rows = run[r].rows /\ run'[r].report = run[r].report
      BY <1>1, <2>1 DEF RunSound
    <2>3. run[r].rows = [a \in Accounts |-> <<>>] /\ run[r].report = None
      BY <1>1 DEF RunSound
    <2>4. \A a \in Accounts : Len(run[r].rows[a]) <= Len(run[r].plans[a].groups)
      BY <1>1, <2>3 DEF PlanSound, GroupsSound
    <2>5. RunSound(r)'
      BY <1>1, <2>2, <2>3, <2>4 DEF RunSound, Pcs
    <2>6. RunTrue(r)'
      BY <2>2, <2>3, NoneAssumption DEF RunTrue, OnPlatform
    <2>7. \A q \in Runs : RunSound(q)' /\ RunTrue(q)'
      BY <1>1, <1>5, <1>6, <2>1, <2>5, <2>6, RunsKept
    <2> QED BY <1>1, <1>5, <1>6, <2>7 DEF CompleteInv, UnitsTyped
  <1>7. CASE catalog' \in {catalog, Saved(r)} /\ Leave(r, None)
    <2>1. (\A q \in Runs \ {r} : run'[q] = run[q]) /\ RunSound(r)' /\ RunTrue(r)'
      BY <1>7, LeftSound, NoneAssumption
    <2>2. CASE catalog' = catalog
      BY <1>1, <2>1, <2>2, QuietComplete
    <2>3. CASE catalog' = Saved(r)
      <3>1. \A q \in Runs : RunSound(q)' /\ RunTrue(q)'
        BY <1>1, <1>5, <2>1, <2>3, RunsKept
      <3> QED BY <1>1, <1>5, <2>3, <3>1 DEF CompleteInv, UnitsTyped
    <2> QED BY <1>7, <2>2, <2>3
  <1> QED BY <1>1, <1>6, <1>7

(* A run that reports success has a row for each unit of its batch.        *)
LEMMA EndComplete ==
    ASSUME CompleteInv, FrozenInv', NEW r \in Runs, End(r) \/ Crash(r)
    PROVE  CompleteInv'
  <1>1. RunSound(r) /\ RunTrue(r) /\ UNCHANGED <<catalog, units>>
    BY DEF CompleteInv, End, Crash
  <1>2. CASE Leave(r, None) \/ Leave(r, "errors")
    <2>1. PICK report \in {None, "errors"} : Leave(r, report)
      BY <1>2
    <2> QED BY <1>1, <2>1, LeftSound, QuietComplete, NoneAssumption
  <1>3. CASE End(r) /\ Leave(r, "success") /\ Succeeded(r)
    <2>1. /\ run[r].pc = "create"
          /\ \A a \in Accounts : Len(run[r].rows[a]) = Len(run[r].plans[a].groups)
      BY <1>3 DEF End
    <2>2. /\ run[r].batch \in DOMAIN catalog
          /\ \A a \in Accounts : run[r].plans[a].groups = catalog[run[r].batch][a].groups
      BY <2>1 DEF CompleteInv, FrozenInv, Inv, Chosen, PlansFollow
    <2>3. ASSUME NEW a \in Accounts
          PROVE  /\ catalog[run[r].batch][a].groups # <<>>
                 /\ \A i \in DOMAIN catalog[run[r].batch][a].groups : OnPlatform(run[r].batch, a, i)
      <3>1. /\ DOMAIN run[r].rows[a] = 1..Len(run[r].rows[a])
            /\ DOMAIN run[r].plans[a].groups = 1..Len(run[r].plans[a].groups)
        BY <1>1, <2>1 DEF RunSound, PlanSound, GroupsSound
      <3>2. DOMAIN run[r].rows[a] = DOMAIN catalog[run[r].batch][a].groups
        BY <2>1, <2>2, <3>1
      <3> QED BY <1>1, <1>3, <2>1, <2>2, <3>2 DEF Succeeded, RunTrue
    <2>4. (\A q \in Runs \ {r} : run'[q] = run[q]) /\ RunSound(r)' /\ RunTrue(r)'
      BY <1>1, <1>3, <2>2, <2>3, LeftSound DEF OnPlatform
    <2> QED BY <1>1, <2>4, QuietComplete
  <1> QED BY <1>2, <1>3 DEF End, Crash

(* What a step on a unit writes down.                                      *)
LEMMA RecordedStatus ==
    ASSUME CompleteInv, NEW r \in Runs, NEW a \in Accounts, NEW status \in Statuses,
           run[r].batch \in DOMAIN catalog, Recorded(r, a, status)
    PROVE  /\ DOMAIN catalog' = DOMAIN catalog
           /\ \A b \in DOMAIN catalog, c \in Accounts :
                 /\ catalog'[b][c].groups = catalog[b][c].groups
                 /\ catalog'[b][c].config = catalog[b][c].config
                 /\ catalog'[b][c].status =
                       IF b = run[r].batch /\ c = a THEN [catalog[b][c].status EXCEPT ![Job(r, a)] = status]
                       ELSE catalog[b][c].status
  <1> DEFINE b == run[r].batch
             account == [catalog[b][a] EXCEPT !.status = [catalog[b][a].status EXCEPT ![Job(r, a)] = status]]
             journal == [catalog[b] EXCEPT ![a] = account]
  <1>1. catalog' = [catalog EXCEPT ![b] = journal]
    BY DEF Recorded
  <1>2. /\ account.groups = catalog[b][a].groups /\ account.config = catalog[b][a].config
        /\ account.status = [catalog[b][a].status EXCEPT ![Job(r, a)] = status]
    BY DEF CompleteInv, FrozenInv, JournalShape
  <1> HIDE DEF account, b
  <1>3. journal[a] = account /\ \A c \in Accounts \ {a} : journal[c] = catalog[b][c]
    BY DEF CompleteInv, FrozenInv, JournalShape, b
  <1> HIDE DEF journal
  <1>4. /\ DOMAIN catalog' = DOMAIN catalog /\ catalog'[b] = journal
        /\ \A d \in DOMAIN catalog \ {b} : catalog'[d] = catalog[d]
    BY <1>1 DEF b
  <1>5. ASSUME NEW d \in DOMAIN catalog, NEW c \in Accounts
        PROVE  catalog'[d][c] = IF d = b /\ c = a THEN account ELSE catalog[d][c]
    BY <1>3, <1>4
  <1> QED BY <1>2, <1>4, <1>5 DEF b

(* A unit is called completed when the platform has shown it or has        *)
(* acknowledged it.                                                        *)
Appears(b, a, i) == \E u \in units' : u.batch = b /\ u.account = a /\ u.group = i

LEMMA UnitOutcome ==
    ASSUME CompleteInv, NEW r \in Runs, NEW a \in Accounts,
           Settled(r, a) \/ Blocked(r, a) \/ Recover(r, a) \/ Create(r, a)
    PROVE  LET b == run[r].batch
               job == Job(r, a) IN
           /\ units' \subseteq units \cup {Unit(r, a, job)} /\ units \subseteq units'
           /\ \E row \in Rows : /\ Row(r, a, row)
                                /\ row \in {"completed", "skipped_completed"} => Appears(b, a, job)
           /\ \/ catalog' = catalog
              \/ \E status \in Statuses : Recorded(r, a, status) /\ (status = "completed" => Appears(b, a, job))
  <1> DEFINE b == run[r].batch
             job == Job(r, a)
  <1>1. CASE Settled(r, a)
    <2>1. /\ run[r].pc = "create" /\ job \in DOMAIN run[r].plans[a].groups
          /\ units' = units /\ catalog' = catalog
      BY <1>1 DEF Settled, Pending
    <2>2. b \in DOMAIN catalog /\ run[r].plans[a].groups = catalog[b][a].groups
      BY <2>1 DEF CompleteInv, FrozenInv, Inv, Chosen, PlansFollow
    <2>3. Status(r, a) = "completed" => Appears(b, a, job)
      BY <2>1, <2>2 DEF CompleteInv, CompletedExist, Status, OnPlatform, Appears
    <2>4. \/ Status(r, a) = "completed" /\ Row(r, a, "skipped_completed")
          \/ Row(r, a, "ambiguous")
      BY <1>1 DEF Settled
    <2> HIDE DEF job, b
    <2> QED BY <2>1, <2>3, <2>4 DEF Rows, job, b
  <1>2. CASE Blocked(r, a)
    BY <1>2 DEF Blocked, Rows
  <1>3. CASE Recover(r, a)
    <2>1. Exists(r, a) => Appears(b, a, job)
      BY <1>3 DEF Recover, Exists, Appears
    <2> HIDE DEF job, b
    <2> QED BY <1>3, <2>1 DEF Recover, Rows, Statuses, job, b
  <1>4. CASE Create(r, a)
    <2>1. Unit(r, a, job) \in units' => Appears(b, a, job)
      BY DEF Unit, Appears
    <2>2. CASE /\ units' = units \cup {Unit(r, a, job)}
               /\ \/ Recorded(r, a, "completed") /\ Row(r, a, "completed")
                  \/ Recorded(r, a, "dispatching") /\ Row(r, a, "failed")
                  \/ Recorded(r, a, "ambiguous") /\ Row(r, a, "ambiguous")
      <3>1. Appears(b, a, job)
        BY <2>1, <2>2
      <3> HIDE DEF job, b
      <3> QED BY <2>2, <3>1 DEF Rows, Statuses, job, b
    <2>3. CASE /\ UNCHANGED units /\ \E status \in {"pending", "dispatching"} : Recorded(r, a, status)
               /\ Row(r, a, "failed")
      BY <2>3 DEF Rows, Statuses
    <2> QED BY <1>4, <2>2, <2>3 DEF Create
  <1> QED BY <1>1, <1>2, <1>3, <1>4

LEMMA UnitComplete ==
    ASSUME CompleteInv, FrozenInv', NEW r \in Runs, NEW a \in Accounts,
           Settled(r, a) \/ Blocked(r, a) \/ Recover(r, a) \/ Create(r, a)
    PROVE  CompleteInv'
  <1> DEFINE b == run[r].batch
             job == Job(r, a)
  <1>1. /\ run[r].pc = "create" /\ job \in DOMAIN run[r].plans[a].groups
        /\ RunSound(r) /\ RunTrue(r)
    BY DEF Settled, Blocked, Recover, Create, Pending, CompleteInv
  <1>2. /\ units' \subseteq units \cup {Unit(r, a, job)} /\ units \subseteq units'
        /\ \/ catalog' = catalog
           \/ \E status \in Statuses : Recorded(r, a, status) /\ (status = "completed" => Appears(b, a, job))
    BY UnitOutcome
  <1>3. PICK row \in Rows : Row(r, a, row) /\ (row \in {"completed", "skipped_completed"} => Appears(b, a, job))
    BY UnitOutcome
  <1>4. b \in DOMAIN catalog /\ \A c \in Accounts : run[r].plans[c].groups = catalog[b][c].groups
    BY <1>1 DEF CompleteInv, FrozenInv, Inv, Chosen, PlansFollow
  <1>5. \A d, c, i : OnPlatform(d, c, i) => Appears(d, c, i)
    BY <1>2 DEF OnPlatform, Appears
  <1>6. /\ Keeps /\ DOMAIN catalog' = DOMAIN catalog
        /\ \A d \in DOMAIN catalog, c \in Accounts :
              /\ catalog'[d][c].groups = catalog[d][c].groups /\ catalog'[d][c].config = catalog[d][c].config
              /\ \/ catalog'[d][c].status = catalog[d][c].status
                 \/ /\ d = b /\ c = a
                    /\ \E status \in Statuses :
                          /\ catalog'[d][c].status = [catalog[d][c].status EXCEPT ![job] = status]
                          /\ status = "completed" => Appears(b, a, job)
    <2>1. CASE catalog' = catalog
      BY <2>1 DEF Keeps
    <2>2. ASSUME NEW status \in Statuses, Recorded(r, a, status), status = "completed" => Appears(b, a, job)
          PROVE  <1>6
      <3>1. /\ DOMAIN catalog' = DOMAIN catalog
            /\ \A d \in DOMAIN catalog, c \in Accounts :
                  /\ catalog'[d][c].groups = catalog[d][c].groups
                  /\ catalog'[d][c].config = catalog[d][c].config
                  /\ catalog'[d][c].status =
                        IF d = b /\ c = a THEN [catalog[d][c].status EXCEPT ![job] = status]
                        ELSE catalog[d][c].status
        BY <1>4, <2>2, RecordedStatus
      <3> HIDE DEF b, job
      <3>2. Keeps
        BY <3>1 DEF Keeps
      <3> QED BY <2>2, <3>1, <3>2
    <2> QED BY <1>2, <2>1, <2>2
  <1>7. JournalsSound'
    <2>1. SUFFICES ASSUME NEW d \in DOMAIN catalog, NEW c \in Accounts
                   PROVE  AccountSound(c, catalog'[d][c])
      BY <1>6 DEF JournalsSound, AccountSound, GroupsSound
    <2>2. AccountSound(c, catalog[d][c])
      BY DEF CompleteInv, JournalsSound
    <2>3. GroupsSound(c, catalog'[d][c].groups, catalog'[d][c].config)
      BY <1>6, <2>2 DEF AccountSound
    <2>4. catalog'[d][c].status \in [DOMAIN catalog[d][c].groups -> Statuses]
      <3> HIDE DEF b, job
      <3>1. catalog[d][c].status \in [DOMAIN catalog[d][c].groups -> Statuses]
        BY <2>2 DEF AccountSound
      <3>2. CASE catalog'[d][c].status = catalog[d][c].status
        BY <3>1, <3>2
      <3>3. CASE \E status \in Statuses :
                     catalog'[d][c].status = [catalog[d][c].status EXCEPT ![job] = status]
        BY <3>1, <3>3
      <3> QED BY <1>6, <3>2, <3>3
    <2> QED BY <1>6, <2>3, <2>4 DEF AccountSound
  <1>8. CompletedExist'
    <2>1. SUFFICES ASSUME NEW d \in DOMAIN catalog, NEW c \in Accounts, NEW i \in DOMAIN catalog[d][c].groups,
                          catalog'[d][c].status[i] = "completed"
                   PROVE  Appears(d, c, i)
      BY <1>6 DEF CompletedExist, OnPlatform, Appears
    <2>2. catalog[d][c].status \in [DOMAIN catalog[d][c].groups -> Statuses]
      BY DEF CompleteInv, JournalsSound, AccountSound
    <2>3. CASE catalog[d][c].status[i] = "completed"
      BY <1>5, <2>3 DEF CompleteInv, CompletedExist
    <2>4. CASE catalog[d][c].status[i] # "completed"
      <3> HIDE DEF b, job
      <3>0. catalog'[d][c].status # catalog[d][c].status
        BY <2>1, <2>4
      <3>1. PICK status \in Statuses :
                /\ catalog'[d][c].status = [catalog[d][c].status EXCEPT ![job] = status]
                /\ status = "completed" => Appears(b, a, job)
                /\ d = b /\ c = a
        BY <1>6, <2>1, <3>0
      <3>2. i = job /\ status = "completed"
        BY <2>1, <2>2, <2>4, <3>1
      <3> QED BY <3>1, <3>2
    <2> QED BY <2>3, <2>4
  <1>9. UnitsTyped'
    BY <1>2 DEF CompleteInv, UnitsTyped, Unit
  <1>10. /\ DOMAIN run'[r] = DOMAIN run[r] /\ run'[r].pc = "create" /\ run'[r].batch = b
         /\ run'[r].plans = run[r].plans /\ run'[r].report = run[r].report
         /\ run'[r].rows = [run[r].rows EXCEPT ![a] = Append(run[r].rows[a], row)]
         /\ \A q \in Runs \ {r} : run'[q] = run[q]
    BY <1>1, <1>3 DEF Row, CompleteInv, FrozenInv, Inv, Shape, RunSound
  <1>11. /\ run[r].rows[a] \in Seq(Rows) /\ job = Len(run[r].rows[a]) + 1
         /\ Append(run[r].rows[a], row) \in Seq(Rows)
         /\ Len(Append(run[r].rows[a], row)) = job
         /\ DOMAIN Append(run[r].rows[a], row) = 1..job
         /\ \A i \in 1..job : Append(run[r].rows[a], row)[i] = IF i = job THEN row ELSE run[r].rows[a][i]
         /\ DOMAIN run[r].rows[a] = 1..(job - 1) /\ job \in Nat
    <2>1. run[r].rows[a] \in Seq(Rows) /\ job = Len(run[r].rows[a]) + 1
      BY <1>1 DEF RunSound, Job
    <2> HIDE DEF job
    <2> QED BY <2>1, AppendProperties
  <1>12. RunSound(r)'
    <2>1. run'[r].rows \in [Accounts -> Seq(Rows)]
      BY <1>1, <1>10, <1>11 DEF RunSound
    <2>2. job <= Len(run[r].plans[a].groups)
      <3>1. run[r].plans[a].groups \in Seq(Seq(VideosOf[a]))
        BY <1>1 DEF RunSound, PlanSound, GroupsSound
      <3> HIDE DEF job
      <3> QED BY <1>1, <3>1
    <2>3. \A c \in Accounts : Len(run'[r].rows[c]) <= Len(run[r].plans[c].groups)
      BY <1>1, <1>10, <1>11, <2>2 DEF RunSound
    <2> QED BY <1>1, <1>10, <2>1, <2>3 DEF RunSound
  <1>13. RunTrue(r)'
    <2>1. ASSUME NEW c \in Accounts, NEW i \in DOMAIN run'[r].rows[c],
                 run'[r].rows[c][i] \in {"completed", "skipped_completed"}
          PROVE  Appears(b, c, i)
      <3> HIDE DEF job, b
      <3>1. CASE c = a /\ i = job
        BY <1>1, <1>3, <1>10, <1>11, <2>1, <3>1 DEF RunSound
      <3>2. CASE ~(c = a /\ i = job)
        <4>1. i \in DOMAIN run[r].rows[c] /\ run[r].rows[c][i] = run'[r].rows[c][i]
          BY <1>1, <1>10, <1>11, <2>1, <3>2 DEF RunSound
        <4> QED BY <1>1, <1>5, <2>1, <4>1 DEF RunTrue, b
      <3> QED BY <3>1, <3>2
    <2>2. run'[r].report # "success"
      BY <1>1, <1>10, NoneAssumption DEF RunSound
    <2> QED BY <1>10, <2>1, <2>2 DEF RunTrue, OnPlatform, Appears
  <1>14. \A q \in Runs : RunSound(q)' /\ RunTrue(q)'
    BY <1>2, <1>6, <1>10, <1>12, <1>13, RunsKept
  <1> QED BY <1>7, <1>8, <1>9, <1>14 DEF CompleteInv

LEMMA CompleteStep == CompleteInv /\ [Next]_vars => CompleteInv'
  <1>1. ASSUME CompleteInv, [Next]_vars
        PROVE  FrozenInv'
    BY <1>1, FrozenStep DEF CompleteInv
  <1>2. ASSUME CompleteInv, FrozenInv', UNCHANGED vars
        PROVE  CompleteInv'
    BY <1>2 DEF vars, CompleteInv, JournalsSound, UnitsTyped, CompletedExist, RunSound, RunTrue, OnPlatform
  <1>3. ASSUME CompleteInv, FrozenInv', NEW r \in Runs, Begin(r)
        PROVE  CompleteInv'
    <2>1. /\ run[r].pc = "idle" /\ RunSound(r) /\ RunTrue(r) /\ UNCHANGED <<catalog, units>>
          /\ run' = [run EXCEPT ![r].pc = "find"]
      BY <1>3 DEF Begin, CompleteInv
    <2>2. /\ DOMAIN run'[r] = DOMAIN run[r] /\ run'[r].pc = "find" /\ run'[r].batch = run[r].batch
          /\ run'[r].plans = run[r].plans /\ run'[r].rows = run[r].rows /\ run'[r].report = run[r].report
          /\ \A q \in Runs \ {r} : run'[q] = run[q]
      BY <1>3, <2>1 DEF CompleteInv, FrozenInv, Inv, Shape, RunSound
    <2>3. RunSound(r)'
      BY <2>1, <2>2 DEF RunSound, Pcs
    <2>4. RunTrue(r)'
      BY <2>1, <2>2, NoneAssumption DEF RunTrue, RunSound, OnPlatform
    <2> QED BY <1>3, <2>1, <2>2, <2>3, <2>4, QuietComplete
  <1>4. ASSUME CompleteInv, FrozenInv', NEW r \in Runs, Find(r)
        PROVE  CompleteInv'
    <2>1. run[r].pc = "find" /\ RunSound(r) /\ RunTrue(r) /\ UNCHANGED <<catalog, units>>
      BY <1>4 DEF Find, CompleteInv
    <2>2. CASE Leave(r, None)
      BY <1>4, <2>1, <2>2, LeftSound, QuietComplete, NoneAssumption
    <2>3. CASE run' = [run EXCEPT ![r].pc = "prepare",
                                  ![r].batch = IF Open = {} THEN Len(catalog) + 1 ELSE CHOOSE b \in Open : TRUE]
      <3>1. /\ DOMAIN run'[r] = DOMAIN run[r] /\ run'[r].pc = "prepare"
            /\ run'[r].plans = run[r].plans /\ run'[r].rows = run[r].rows /\ run'[r].report = run[r].report
            /\ \A q \in Runs \ {r} : run'[q] = run[q]
        BY <1>4, <2>1, <2>3 DEF CompleteInv, FrozenInv, Inv, Shape, RunSound
      <3>2. RunSound(r)'
        BY <2>1, <3>1 DEF RunSound, Pcs
      <3>3. RunTrue(r)'
        BY <2>1, <3>1, NoneAssumption DEF RunTrue, RunSound, OnPlatform
      <3> QED BY <1>4, <2>1, <3>1, <3>2, <3>3, QuietComplete
    <2> QED BY <1>4, <2>2, <2>3 DEF Find
  <1>5. SUFFICES ASSUME CompleteInv, FrozenInv', Next
                 PROVE  CompleteInv'
    BY <1>1, <1>2
  <1> QED BY <1>3, <1>4, <1>5, PrepareComplete, SaveComplete, EndComplete, UnitComplete DEF Next

(* Two units with a video in common are of different batches, of which     *)
(* only one is open.                                                       *)
LEMMA UsedOnce ==
    ASSUME CompleteInv
    PROVE  VideosUsedOnce
  <1>1. SUFFICES ASSUME NEW u \in units, NEW w \in units, u # w, u.account = w.account,
                        NEW v \in ToSet(u.videos), v \in ToSet(w.videos)
                 PROVE  \E b \in {u.batch, w.batch} : u.batch # w.batch /\ Completed(catalog[b])
    BY DEF VideosUsedOnce
  <1> DEFINE frozen(x) == catalog[x.batch][x.account]
  <1>2. \A x \in {u, w} : /\ x.batch \in DOMAIN catalog /\ x.account \in Accounts
                         /\ x.group \in DOMAIN frozen(x).groups /\ frozen(x).groups[x.group] = x.videos
                         /\ frozen(x).config = x.config
                         /\ Apart(frozen(x).groups)
    BY DEF CompleteInv, FrozenInv, UnitsRefer, UnitsAsFrozen, JournalsSound, AccountSound, GroupsSound
  <1>3. u.batch # w.batch
    <2>1. SUFFICES ASSUME u.batch = w.batch
                   PROVE  FALSE
      OBVIOUS
    <2>2. u.group = w.group
      BY <1>1, <1>2, <2>1 DEF Apart
    <2>3. u = w
      <3>1. u.videos = w.videos /\ u.config = w.config
        BY <1>1, <1>2, <2>1, <2>2
      <3> QED BY <1>1, <2>1, <2>2, <3>1 DEF CompleteInv, UnitsTyped
    <2> QED BY <1>1, <2>3
  <1> QED BY <1>2, <1>3 DEF CompleteInv, FrozenInv, Inv, OneOpenBatch

ScopeType == scope \in Runs \cup {None}

LEMMA TypesFromInv ==
    ASSUME CompleteInv, ScopeType
    PROVE  TypeOK
  <1>1. ASSUME NEW b \in DOMAIN catalog, NEW a \in Accounts
        PROVE  /\ catalog[b][a].groups \in Seq(Seq(VideosOf[a]))
               /\ catalog[b][a].status \in [DOMAIN catalog[b][a].groups -> Statuses]
               /\ catalog[b][a].config \in Configs \/ catalog[b][a].groups = <<>>
    BY DEF CompleteInv, JournalsSound, AccountSound, GroupsSound
  <1>2. ASSUME NEW r \in Runs
        PROVE  /\ run[r].pc \in Pcs /\ run[r].report \in {None, "success", "errors"}
               /\ \A a \in Accounts : run[r].plans[a] \in Plans(a) \cup {None}
               /\ \A a \in Accounts : Len(run[r].rows[a]) > 0 =>
                     Len(run[r].rows[a]) <= Len(run[r].plans[a].groups)
    <2>1. RunSound(r)
      BY DEF CompleteInv
    <2>2. CASE run[r].pc = "create"
      BY <2>1, <2>2 DEF RunSound, PlanSound
    <2>3. CASE run[r].pc # "create"
      <3>1. \A a \in Accounts : Len(run[r].rows[a]) = 0
        BY <2>1, <2>3 DEF RunSound
      <3> QED BY <2>1, <3>1 DEF RunSound, PlanSound
    <2> QED BY <2>2, <2>3
  <1> QED BY <1>1, <1>2 DEF TypeOK, ScopeType, CompleteInv, FrozenInv, UnitsRefer

LEMMA ScopeTyped == Spec => []ScopeType
  <1>1. Init => ScopeType
    BY DEF Init, ScopeType
  <1>2. ASSUME ScopeType, NEW r \in Runs, NEW report, Leave(r, report)
        PROVE  ScopeType'
    BY <1>2 DEF ScopeType, Leave
  <1>3. ASSUME ScopeType, NEW r \in Runs,
               Begin(r) \/ Find(r) \/ Save(r) \/ End(r) \/ Crash(r)
        PROVE  ScopeType'
    <2>1. CASE Begin(r)
      BY <2>1 DEF Begin, ScopeType
    <2>2. CASE (\E report : Leave(r, report)) \/ UNCHANGED scope
      BY <1>2, <1>3, <2>2 DEF ScopeType
    <2> QED BY <1>3, <2>1, <2>2 DEF Find, Save, End, Crash
  <1>4. ASSUME ScopeType, NEW r \in Runs, NEW a \in Accounts,
               Prepare(r, a) \/ Settled(r, a) \/ Blocked(r, a) \/ Recover(r, a) \/ Create(r, a)
        PROVE  ScopeType'
    BY <1>4 DEF ScopeType, Prepare, Settled, Blocked, Recover, Create
  <1>5. ScopeType /\ [Next]_vars => ScopeType'
    <2>1. ASSUME ScopeType, UNCHANGED vars
          PROVE  ScopeType'
      BY <2>1 DEF ScopeType, vars
    <2> QED BY <1>3, <1>4, <2>1 DEF Next
  <1> QED BY <1>1, <1>5, PTL DEF Spec

(* Batches started, cut off and resumed in any order, on libraries that    *)
(* change, use no video of an account twice while a batch is open, and a   *)
(* run reports success only when every account has all its units.          *)
THEOREM NothingTwice == Spec => []NothingTwiceNorMissing
  <1>1. Init => CompleteInv
    <2>1. ASSUME Init
          PROVE  FrozenInv
      BY <2>1 DEF Init, FrozenInv, Inv, Shape, ScopeHeld, Chosen, OneOpenBatch, Active, Fresh, JournalShape,
             PlansFollow, UnitsRefer, UnitsAsFrozen
    <2>2. ASSUME Init, NEW r \in Runs
          PROVE  RunSound(r) /\ RunTrue(r)
      <3>1. run[r] = [pc |-> "idle", batch |-> 0, plans |-> [a \in Accounts |-> None],
                      rows |-> [a \in Accounts |-> <<>>], report |-> None]
        BY <2>2 DEF Init, Fresh
      <3>2. [a \in Accounts |-> <<>>] \in [Accounts -> Seq(Rows)]
        BY EmptySeq
      <3> QED BY <3>1, <3>2, NoneAssumption DEF RunSound, RunTrue, Pcs
    <2> QED BY <2>1, <2>2 DEF Init, CompleteInv, JournalsSound, UnitsTyped, CompletedExist
  <1>2. CompleteInv => SuccessIsComplete
    BY DEF CompleteInv, RunTrue, SuccessIsComplete, OnPlatform
  <1>3. CompleteInv /\ ScopeType => NothingTwiceNorMissing
    BY <1>2, UsedOnce, TypesFromInv DEF NothingTwiceNorMissing
  <1> QED BY <1>1, <1>3, CompleteStep, ScopeTyped, PTL DEF Spec
=============================================================================
