------------------------ MODULE QianchuanBatchProofs ------------------------
(***************************************************************************)
(* What holds of QianchuanBatch for all runs, groups, works, batch sizes   *)
(* and people, whatever the platform does with a request.                  *)
(***************************************************************************)
EXTENDS QianchuanBatch, FiniteSetTheorems, NaturalsInduction, WellFoundedInduction, TLAPS

(* Only such a group's own plans are its candidates.                       *)
Whole(g) == Products[g] = TemplateProducts

-----------------------------------------------------------------------------
(* The invariant                                                           *)

RunRecord ==
    [pc : Pcs, expected : [Groups -> Expectations] \cup {None}, inventory : SUBSET Ads,
     policy : [Groups -> Policies \cup {None}], present : [Groups -> (SUBSET Works) \cup {None}],
     unread : SUBSET Groups, todo : SUBSET Groups, group : Groups \cup {None}, ad : Ads \cup {None},
     left : SUBSET Works, request : Requests \cup {None}, changed : SUBSET Groups,
     claimed : SUBSET (Ads \X Works), removed : SUBSET (Ads \X Works)]

Typed ==
    /\ plans \in SUBSET Ads /\ deleted \in SUBSET plans /\ items \in [Ads -> SUBSET Works]
    /\ inflight \in SUBSET Requests /\ applied \in SUBSET Requests /\ late \in SUBSET Requests
    /\ outside \in 0..MaxOutside
    /\ bindings \in [Groups -> Bindings \cup {None}]
    /\ snapshots \in [Runs -> [Groups -> Expectations] \cup {None}]
    /\ lock \in Runs \cup {None}
    /\ run \in [Runs -> RunRecord]

Off == {"idle", "lock", "done"}
Looks == {"scan", "decide", "prepare"}
Creating == {"create", "reconcile"}
Making == Creating \cup {"verify", "bind"}
Adding == {"add", "readback"}
Filling == Adding \cup {"append"}
Deleting == {"delete", "recheck"}
Writing == Making \cup Filling

(* Which commands get where; a run under way, but a preflight, holds the   *)
(* advertiser's lock.                                                      *)
Placed(r) ==
    LET c == Command[r]
        pc == run[r].pc IN
    /\ pc \in Looks \cup Writing => c \in {"preflight", "submit", "direct"}
    /\ c = "preflight" => pc \in {"idle", "done", "save"} \cup Looks /\ lock # r
    /\ c = "preflight" /\ pc \notin Off => run[r].todo = Groups
    /\ pc = "save" => c = "preflight"
    /\ pc \in {"read"} \cup Deleting => c = "remove"
    /\ pc \in {"audit", "put"} => c = "bind"
    /\ pc \notin Off /\ c # "preflight" => lock = r
    /\ pc \in Off => run[r].claimed = {} /\ run[r].removed = {}
    /\ c \in {"remove", "bind"} => run[r].todo = {} /\ run[r].claimed = {}
    /\ c # "remove" => run[r].removed = {}

(* The request of a write, until its answer is settled.                    *)
CreateOf(r, g) ==
    [kind |-> "create", run |-> r, ad |-> [source |-> g, run |-> r], works |-> FirstOf(WorksOf(g))]
AddOf(r) == [kind |-> "add", run |-> r, ad |-> run[r].ad, works |-> FirstOf(run[r].left)]

(* What a run carries from step to step.                                   *)
Carries(r) ==
    LET x == run[r] IN
    /\ x.pc \in Writing => x.group \in x.todo
    /\ x.pc \notin Writing \cup {"put"} => x.group = None
    /\ x.pc \in Filling \cup {"verify", "bind", "put"} => x.ad \in Ads
    /\ x.pc = "put" => x.group \in Groups
    /\ x.pc \in Creating => x.request = CreateOf(r, x.group)
    /\ x.pc \in Making => x.left = WorksOf(x.group) \ FirstOf(WorksOf(x.group))
    /\ x.pc \in Adding => x.request = AddOf(r) /\ x.left # {}
    /\ x.pc \in Filling => x.left \subseteq WorksOf(x.group)
    /\ x.pc \in Deleting => x.request \in Requests /\ x.request.kind = "delete" /\ x.request.run = r
    /\ x.pc \notin Creating \cup Adding \cup Deleting => x.request = None
    /\ x.pc \in {"idle", "lock", "scan"} => \A g \in Groups : x.policy[g] = None
    /\ x.pc \in {"idle", "lock", "scan", "decide"} => \A g \in Groups : x.present[g] = None

(* A preflight that will create announces all works of the group.          *)
Announced(expected) ==
    expected # None => \A g \in Groups : expected[g].action = "would_create" => expected[g].write = WorksOf(g)
Expects(r) ==
    /\ Command[r] = "submit" /\ run[r].pc \notin {"idle", "done"} => run[r].expected # None
    /\ Command[r] # "submit" => run[r].expected = None
    /\ Announced(run[r].expected)

(* All groups are decided, and their materials read, before the first      *)
(* write.                                                                  *)
Examined(r) ==
    LET x == run[r] IN
    /\ x.pc \in {"prepare", "save", "groups"} \cup Writing => \A g \in x.todo : x.policy[g] # None
    /\ x.pc \in {"save", "groups"} \cup Writing =>
          \A g \in x.todo : x.policy[g].status = "bound" /\ ~Unexpected(r, g) /\ g \notin x.unread
                            => x.present[g] # None

Ordered(r) == Placed(r) /\ Carries(r) /\ Expects(r) /\ Examined(r)

(* A request says what it is for, and who sent it has begun.               *)
Asks(q) ==
    /\ q.kind = "create" => /\ q.ad.source \in Groups /\ q.ad.run = q.run
                            /\ q.works = FirstOf(WorksOf(q.ad.source))
    /\ q.kind = "delete" <=> Command[q.run] = "remove"
Asked == \A q \in inflight \cup applied : Asks(q) /\ run[q.run].pc \notin {"idle", "lock"}

Snapshotted == \A r \in Runs : Announced(snapshots[r])
NothingYet == \A a \in Ads \ plans : items[a] = {}
Bound ==
    \A g \in Groups : bindings[g] # None =>
        bindings[g].ad \in plans /\ Exact(bindings[g].ad, g)

(* A work is in the plan, or was taken out by a request given up on; it is *)
(* not in the plan, or was put there by one.                               *)
Kept(a, w) == w \in items[a] \/ Later({"delete"}, a, w)
Lacks(a, w) == w \notin items[a] \/ Later({"create", "add"}, a, w)
LateCreated(a) == \E q \in late : q.kind = "create" /\ q.ad = a

(* The works that were in the request of the plan another's was taken for. *)
Skipped(r, a, w) ==
    LET g == GroupOf[w] IN
    /\ bindings[g] # None /\ bindings[g].ad = a /\ bindings[g].by = r
    /\ a.source # g /\ w \in FirstOf(WorksOf(g))
Shown(r, a, w) == Kept(a, w) \/ Skipped(r, a, w)

(* A plan that was not there when the lock's holder looked.                *)
NewPlan(a) ==
    /\ a.source \in Groups => LateCreated(a) /\ \A w \in FirstOf(WorksOf(a.source)) : Kept(a, w)
    /\ \A w \in Works : Lacks(a, w)

(* A whole group has no plan but what r, or a request given up on, has     *)
(* made; and none of the works ws are in a plan that might be a group's.   *)
Absent(r, g, ws) ==
    \A a \in Live :
        /\ a.source = g /\ Whole(g) => /\ a.run = r \/ LateCreated(a)
                                       /\ \A w \in FirstOf(WorksOf(g)) : Kept(a, w)
        /\ Exact(a, g) => \A w \in ws : Lacks(a, w)

(* What has been decided of a group and read of its plan is still so.      *)
PresentHolds(r, g, a) ==
    \A w \in WorksOf(g) : IF w \in run[r].present[g] THEN Kept(a, w) ELSE Lacks(a, w)
DecisionHolds(r, g) ==
    LET p == run[r].policy[g] IN
    /\ p.binding = bindings[g]
    /\ p.status = "would_create" => bindings[g] = None /\ Absent(r, g, WorksOf(g))
    /\ p.status = "bound" => /\ bindings[g] # None
                             /\ run[r].present[g] # None => PresentHolds(r, g, p.binding.ad)
PendingGroups(r) == run[r].todo \ {run[r].group}

(* The group whose plan is being made, or filled.                          *)
MakingHolds(r) ==
    LET x == run[r] IN
    /\ bindings[x.group] = None
    /\ x.expected # None => x.expected[x.group].action = "would_create"
    /\ x.pc # "bind" => Absent(r, x.group, x.left)
    /\ x.pc = "bind" => /\ x.ad \in plans /\ Exact(x.ad, x.group)
                        /\ x.ad.source = x.group => \A w \in FirstOf(WorksOf(x.group)) : Kept(x.ad, w)
                        /\ \A w \in x.left : Lacks(x.ad, w)
Sending(r) == IF run[r].pc \in Adding THEN FirstOf(run[r].left) ELSE {}
FillingHolds(r) ==
    LET x == run[r]
        b == bindings[x.group] IN
    /\ b # None /\ b.ad = x.ad
    /\ x.expected # None => /\ b = x.expected[x.group].binding \/ b.by = r
                            /\ x.left \subseteq x.expected[x.group].write
    /\ \A w \in WorksOf(x.group) \ x.left : Shown(r, x.ad, w)
    /\ \A w \in x.left \ Sending(r) : Lacks(x.ad, w)

Reports(r) ==
    /\ \A c \in run[r].claimed : Shown(r, c[1], c[2])
    /\ \A c \in run[r].removed : Lacks(c[1], c[2])
AppliedHolds(r) ==
    \A q \in applied : q.run = r /\ q.kind # "delete" => \A w \in q.works : Kept(q.ad, w)

(* What the holder of the lock may count on.                               *)
Holder(r) ==
    /\ run[r].pc = "decide" => \A a \in Live \ run[r].inventory : NewPlan(a)
    /\ \A g \in PendingGroups(r) : run[r].policy[g] # None => DecisionHolds(r, g)
    /\ run[r].pc \in Making => MakingHolds(r)
    /\ run[r].pc \in Filling => FillingHolds(r)
    /\ run[r].pc = "put" => run[r].ad \in plans /\ Exact(run[r].ad, run[r].group)
    /\ Reports(r) /\ AppliedHolds(r)

Settled == Snapshotted /\ Asked /\ NothingYet /\ Bound
QInv ==
    /\ Typed /\ (\A r \in Runs : Ordered(r)) /\ Settled
    /\ \A r \in Runs : lock = r => Holder(r)
    /\ OnePlanPerGroup

-----------------------------------------------------------------------------
(* Operators                                                               *)

LessThan == {pair \in Nat \X Nat : pair[1] < pair[2]}

(* A set of natural numbers has a least one.                               *)
LEMMA LeastOf == ASSUME NEW S \in SUBSET Nat, S # {} PROVE Min(S) \in S /\ \A y \in S : Min(S) <= y
<1>1. IsWellFoundedOn(LessThan, Nat)
  BY NatLessThanWellFounded DEF LessThan, OpToRel
<1>2. PICK x \in S : \A y \in S : ~(<<y, x>> \in LessThan)
  BY <1>1, WFMin
<1>3. ASSUME NEW y \in S PROVE x <= y
  <2>1. x \in Nat /\ y \in Nat
    OBVIOUS
  <2>2. y < x => <<y, x>> \in LessThan
    BY <2>1 DEF LessThan
  <2> QED BY <1>2, <2>1, <2>2
<1> QED BY <1>3 DEF Min

(* A write carries some of the works it is to carry.                       *)
LEMMA FirstOfSome ==
    ASSUME NEW ws \in SUBSET Works
    PROVE  FirstOf(ws) \subseteq ws /\ (ws # {} => FirstOf(ws) # {})
<1>1. ASSUME ws # {} PROVE Min(ws) \in FirstOf(ws)
  <2>1. Min(ws) \in ws /\ \A y \in ws : Min(ws) <= y
    BY <1>1, LeastOf, GroupAssumption
  <2>2. \A v \in ws : ~(v < Min(ws))
    <3> DEFINE m == Min(ws)
    <3>1. m \in Nat /\ \A v \in ws : v \in Nat /\ m <= v
      BY <2>1, GroupAssumption
    <3> HIDE DEF m
    <3>2. \A v \in ws : ~(v < m)
      BY <3>1
    <3> QED BY <3>2 DEF m
  <2>3. {v \in ws : v < Min(ws)} = {}
    BY <2>2
  <2> QED BY <2>1, <2>3, FS_EmptySet, LimitAssumption DEF FirstOf
<1> QED BY <1>1 DEF FirstOf

LEMMA NextGroup == ASSUME NEW S \in SUBSET Groups, S # {} PROVE Min(S) \in S
  BY LeastOf, GroupAssumption

LEMMA RecordTypes ==
    /\ Fresh \in RunRecord /\ Ended \in RunRecord
    /\ Fresh.pc = "idle" /\ Ended.pc = "done" /\ Ended.todo = {} /\ Ended.group = None
    /\ Ended.expected = None /\ Ended.request = None /\ Ended.claimed = {} /\ Ended.removed = {}
    /\ Fresh.todo = {} /\ Fresh.group = None /\ Fresh.expected = None /\ Fresh.request = None
    /\ Fresh.claimed = {} /\ Fresh.removed = {} /\ \A g \in Groups : Fresh.policy[g] = None /\ Fresh.present[g] = None
<1>1. Fresh \in RunRecord
  BY DEF Fresh, RunRecord, Pcs
<1>2. Ended \in RunRecord
  BY <1>1 DEF Ended, RunRecord, Pcs
<1> QED BY <1>1, <1>2 DEF Fresh, Ended

LEMMA RequestTypes ==
    /\ \A g \in Groups, r \in Runs : [source |-> g, run |-> r] \in Ads
    /\ \A g \in Groups, r \in Runs : CreateOf(r, g) \in Requests
    /\ \A a \in Ads : a.source \in Sources
    /\ \A q \in Requests : q.run \in Runs /\ q.ad \in Ads /\ q.works \in SUBSET Works
                           /\ q.kind \in {"create", "add", "delete"} /\ q # None
<1>1. \A g \in Groups, r \in Runs : [source |-> g, run |-> r] \in Ads
  BY DEF Ads
<1>2. ASSUME NEW g \in Groups, NEW r \in Runs PROVE CreateOf(r, g) \in Requests
  <2>1. FirstOf(WorksOf(g)) \in SUBSET Works
    BY FirstOfSome DEF WorksOf
  <2> QED BY <1>1, <2>1 DEF CreateOf, Requests
<1>3. \A a \in Ads : a.source \in Sources
  BY DEF Ads, Sources
<1>4. \A q \in Requests : q.run \in Runs /\ q.ad \in Ads /\ q.works \in SUBSET Works
                          /\ q.kind \in {"create", "add", "delete"} /\ q # None
  BY NoneAssumption DEF Requests
<1> QED BY <1>1, <1>2, <1>3, <1>4

(* One field of a run changes.                                             *)
LEMMA RecordMoves ==
    ASSUME NEW x \in RunRecord
    PROVE  /\ \A pc \in Pcs : [x EXCEPT !.pc = pc] \in RunRecord
           /\ \A s \in SUBSET Ads : [x EXCEPT !.inventory = s] \in RunRecord
           /\ \A s \in SUBSET Groups : [x EXCEPT !.todo = s] \in RunRecord /\ [x EXCEPT !.changed = s] \in RunRecord
           /\ \A g \in Groups \cup {None} : [x EXCEPT !.group = g] \in RunRecord
           /\ \A a \in Ads \cup {None} : [x EXCEPT !.ad = a] \in RunRecord
           /\ \A s \in SUBSET Works : [x EXCEPT !.left = s] \in RunRecord
           /\ \A q \in Requests \cup {None} : [x EXCEPT !.request = q] \in RunRecord
           /\ \A e \in [Groups -> Expectations] \cup {None} : [x EXCEPT !.expected = e] \in RunRecord
           /\ \A p \in [Groups -> Policies \cup {None}] : [x EXCEPT !.policy = p] \in RunRecord
           /\ \A c \in SUBSET (Ads \X Works) : [x EXCEPT !.claimed = c] \in RunRecord
<1>1. ASSUME NEW pc \in Pcs PROVE [x EXCEPT !.pc = pc] \in RunRecord
  BY DEF RunRecord
<1>2. ASSUME NEW s \in SUBSET Ads PROVE [x EXCEPT !.inventory = s] \in RunRecord
  BY DEF RunRecord
<1>3. ASSUME NEW s \in SUBSET Groups PROVE [x EXCEPT !.todo = s] \in RunRecord
  BY DEF RunRecord
<1>4. ASSUME NEW s \in SUBSET Groups PROVE [x EXCEPT !.changed = s] \in RunRecord
  BY DEF RunRecord
<1>5. ASSUME NEW g \in Groups \cup {None} PROVE [x EXCEPT !.group = g] \in RunRecord
  BY DEF RunRecord
<1>6. ASSUME NEW a \in Ads \cup {None} PROVE [x EXCEPT !.ad = a] \in RunRecord
  BY DEF RunRecord
<1>7. ASSUME NEW s \in SUBSET Works PROVE [x EXCEPT !.left = s] \in RunRecord
  BY DEF RunRecord
<1>8. ASSUME NEW q \in Requests \cup {None} PROVE [x EXCEPT !.request = q] \in RunRecord
  BY DEF RunRecord
<1>9. ASSUME NEW e \in [Groups -> Expectations] \cup {None} PROVE [x EXCEPT !.expected = e] \in RunRecord
  BY DEF RunRecord
<1>10. ASSUME NEW p \in [Groups -> Policies \cup {None}] PROVE [x EXCEPT !.policy = p] \in RunRecord
  BY DEF RunRecord
<1>11. ASSUME NEW c \in SUBSET (Ads \X Works) PROVE [x EXCEPT !.claimed = c] \in RunRecord
  BY DEF RunRecord
<1> QED BY <1>1, <1>2, <1>3, <1>4, <1>5, <1>6, <1>7, <1>8, <1>9, <1>10, <1>11

-----------------------------------------------------------------------------
(* Steps of one run                                                        *)

(* What is said of the platform stays so while it does not change.         *)
LEMMA PlatformSame ==
    ASSUME UNCHANGED <<plans, deleted, items, late>>
    PROVE  /\ Live' = Live
           /\ \A a, w : (Kept(a, w)' <=> Kept(a, w)) /\ (Lacks(a, w)' <=> Lacks(a, w))
           /\ \A a : (LateCreated(a)' <=> LateCreated(a)) /\ (NewPlan(a)' <=> NewPlan(a))
           /\ \A r, g, ws : Absent(r, g, ws)' <=> Absent(r, g, ws)
BY DEF Live, Kept, Lacks, Later, LateCreated, NewPlan, Absent

(* A claim stays so while its work is kept and its group bound.            *)
LEMMA ShownStays ==
    ASSUME NEW r, NEW a, NEW w \in Works, Shown(r, a, w), Kept(a, w) => Kept(a, w)',
           \A g \in Groups : bindings[g] # None => bindings'[g] = bindings[g]
    PROVE  Shown(r, a, w)'
<1>1. GroupOf[w] \in Groups
  BY GroupAssumption
<1> QED BY <1>1 DEF Shown, Skipped, FirstOf, WorksOf

LEMMA HolderSame ==
    ASSUME NEW r \in Runs, UNCHANGED <<plans, deleted, items, late, applied, bindings>>, run'[r] = run[r], Holder(r),
           run[r].claimed \subseteq Ads \X Works
    PROVE  Holder(r)'
<1>1. \A a, w : (Kept(a, w)' <=> Kept(a, w)) /\ (Lacks(a, w)' <=> Lacks(a, w))
  BY PlatformSame
<1>2. \A g, ws : Absent(r, g, ws)' <=> Absent(r, g, ws)
  BY PlatformSame
<1>3. PendingGroups(r)' = PendingGroups(r)
  BY DEF PendingGroups
<1>4. ASSUME NEW g, DecisionHolds(r, g) PROVE DecisionHolds(r, g)'
  BY <1>1, <1>2, <1>4 DEF DecisionHolds, PresentHolds
<1>5. MakingHolds(r) => MakingHolds(r)'
  BY <1>1, <1>2 DEF MakingHolds
<1>6. Sending(r)' = Sending(r)
  BY DEF Sending
<1>7. FillingHolds(r) => FillingHolds(r)'
  <2>1. ASSUME FillingHolds(r), NEW w \in WorksOf(run[r].group) \ run[r].left PROVE Shown(r, run[r].ad, w)'
    BY <1>1, <2>1, ShownStays DEF FillingHolds, WorksOf
  <2> QED BY <1>1, <1>6, <2>1 DEF FillingHolds, WorksOf
<1>8. Reports(r) /\ AppliedHolds(r) => Reports(r)' /\ AppliedHolds(r)'
  <2>1. ASSUME Reports(r), NEW c \in run[r].claimed PROVE Shown(r, c[1], c[2])'
    BY <1>1, <2>1, ShownStays DEF Reports
  <2> QED BY <1>1, <2>1 DEF Reports, AppliedHolds
<1>9. \A a : (NewPlan(a)' <=> NewPlan(a)) /\ Live' = Live
  BY PlatformSame
<1> QED BY <1>3, <1>4, <1>5, <1>7, <1>8, <1>9 DEF Holder

LEMMA OrderedSame ==
    ASSUME NEW r \in Runs, run'[r] = run[r], lock = r => lock' = r, lock' = r => lock = r, Ordered(r)
    PROVE  Ordered(r)'
<1>1. Placed(r)'
  BY DEF Placed, Ordered, Off
<1>2. Carries(r)'
  BY DEF Carries, Ordered, AddOf, CreateOf
<1>3. Expects(r)'
  BY DEF Expects, Announced, Ordered
<1>4. Examined(r)'
  BY DEF Examined, Unexpected, Ordered
<1> QED BY <1>1, <1>2, <1>3, <1>4 DEF Ordered

(* A step of one run, which may send a request, and change bindings or the *)
(* lock if it holds it: what has to be shown of it.                        *)
LEMMA RunMoves ==
    ASSUME QInv, NEW r \in Runs, NEW new \in RunRecord, run' = [run EXCEPT ![r] = new],
           UNCHANGED <<plans, deleted, items, applied, late, outside>>,
           inflight' \in SUBSET Requests, \A q \in inflight' \ inflight : Asks(q) /\ q.run = r,
           bindings' \in [Groups -> Bindings \cup {None}], Bound',
           snapshots' \in [Runs -> [Groups -> Expectations] \cup {None}], Snapshotted',
           lock' \in Runs \cup {None}, lock \notin {None, r} => lock' = lock,
           lock' \in {lock, None, r}, lock' \notin {None, r} => bindings' = bindings,
           new.pc \in {"idle", "lock"} => run[r].pc \in {"idle", "lock"} /\ inflight' \subseteq inflight,
           Ordered(r)', lock' = r => Holder(r)'
    PROVE  QInv'
<1>1. Typed'
  BY DEF QInv, Typed
<1>2. ASSUME NEW s \in Runs, s # r PROVE Ordered(s)'
  <2>1. run'[s] = run[s]
    BY <1>2 DEF QInv, Typed
  <2>2. (lock = s => lock' = s) /\ (lock' = s => lock = s)
    BY <1>2, RunAssumption DEF QInv, Typed
  <2>3. Ordered(s)
    BY DEF QInv
  <2> QED BY <2>1, <2>2, <2>3, OrderedSame
<1>3. ASSUME NEW s \in Runs, s # r, lock' = s PROVE Holder(s)'
  <2>1. run'[s] = run[s] /\ lock = s /\ s # None
    BY <1>3, RunAssumption DEF QInv, Typed
  <2>2. Holder(s) /\ bindings' = bindings
    BY <1>3, <2>1 DEF QInv
  <2>3. run[s].claimed \subseteq Ads \X Works
    BY DEF QInv, Typed, RunRecord
  <2> QED BY <2>1, <2>2, <2>3, HolderSame
<1>4. Asked'
  <2>1. ASSUME NEW q \in inflight' \cup applied' PROVE Asks(q) /\ run'[q.run].pc \notin {"idle", "lock"}
    <3>1. CASE q \in inflight \cup applied
      <4>1. Asks(q) /\ run[q.run].pc \notin {"idle", "lock"}
        BY <3>1 DEF QInv, Settled, Asked
      <4>2. q.run \in Runs
        BY <3>1, RequestTypes DEF QInv, Typed
      <4> QED BY <4>1, <4>2 DEF QInv, Typed
    <3>2. CASE q \in inflight' \ inflight
      BY <3>2 DEF QInv, Typed
    <3> QED BY <3>1, <3>2
  <2> QED BY <2>1 DEF Asked, Asks
<1>5. NothingYet' /\ OnePlanPerGroup'
  BY DEF QInv, Settled, NothingYet, OnePlanPerGroup, Live
<1>6. \A s \in Runs : Ordered(s)'
  BY <1>2
<1>7. \A s \in Runs : (lock = s => Holder(s))'
  BY <1>3
<1> QED BY <1>1, <1>4, <1>5, <1>6, <1>7 DEF QInv, Settled

(* A run ends: whatever it knew is gone.                                   *)
LEMMA RunEndsWell ==
    ASSUME QInv, NEW r \in Runs, run' = [run EXCEPT ![r] = Ended],
           UNCHANGED <<plans, deleted, items, applied, late, outside>>, inflight' \in SUBSET inflight,
           bindings' \in [Groups -> Bindings \cup {None}], Bound', lock # r => bindings' = bindings,
           snapshots' \in [Runs -> [Groups -> Expectations] \cup {None}], Snapshotted',
           lock' = IF lock = r THEN None ELSE lock
    PROVE  QInv'
<1>1. run'[r] = Ended
  BY DEF QInv, Typed
<1>3. lock' # r /\ lock' \in Runs \cup {None} /\ lock' \in {lock, None, r}
  BY RunAssumption DEF QInv, Typed
<1>2. Ordered(r)'
  <2>1. Placed(r)'
    BY <1>1, <1>3, RecordTypes DEF Placed, Off, Looks, Writing, Making, Filling, Creating, Adding, Deleting
  <2>2. Carries(r)'
    BY <1>1, RecordTypes DEF Carries, Writing, Making, Filling, Creating, Adding, Deleting
  <2>3. Expects(r)' /\ Examined(r)'
    BY <1>1, RecordTypes DEF Expects, Announced, Examined, Writing, Making, Filling, Creating, Adding
  <2> QED BY <2>1, <2>2, <2>3 DEF Ordered
<1>4. lock' \notin {None, r} => bindings' = bindings
  BY <1>3
<1>5. inflight' \in SUBSET Requests /\ inflight' \ inflight = {}
  BY DEF QInv, Typed
<1> QED BY <1>2, <1>3, <1>4, <1>5, RunMoves, RecordTypes

LEMMA ReturnKeeps == ASSUME QInv, NEW r \in Runs, Return(r) PROVE QInv'
<1>1. /\ bindings' \in [Groups -> Bindings \cup {None}] /\ snapshots' \in [Runs -> [Groups -> Expectations] \cup {None}]
      /\ bindings' = bindings
  BY DEF Return, QInv, Typed
<1>2. Bound' /\ Snapshotted'
  BY DEF Return, QInv, Settled, Bound, Snapshotted, Announced, platform
<1> QED BY <1>1, <1>2, RunEndsWell DEF Return, platform

(* A step of a run that changes nothing but the run.                       *)
LEMMA LocalKeeps ==
    ASSUME QInv, NEW r \in Runs, NEW new \in RunRecord, run' = [run EXCEPT ![r] = new], Local,
           new.pc \in {"idle", "lock"} => run[r].pc \in {"idle", "lock"},
           Ordered(r)', lock = r => Holder(r)'
    PROVE  QInv'
<1>1. /\ inflight' \in SUBSET Requests /\ inflight' \ inflight = {} /\ lock' = lock /\ bindings' = bindings
      /\ bindings' \in [Groups -> Bindings \cup {None}] /\ lock' \in Runs \cup {None}
      /\ snapshots' \in [Runs -> [Groups -> Expectations] \cup {None}]
      /\ UNCHANGED <<plans, deleted, items, applied, late, outside>>
  BY DEF Local, platform, QInv, Typed
<1>2. Bound' /\ Snapshotted'
  BY DEF Local, platform, QInv, Settled, Bound, Snapshotted, Announced
<1> QED BY <1>1, <1>2, RunMoves

LEMMA RunIs ==
    ASSUME QInv, NEW r \in Runs, NEW new, run' = [run EXCEPT ![r] = new]
    PROVE  run'[r] = new
BY DEF QInv, Typed

LEMMA RunFields ==
    ASSUME QInv, NEW r \in Runs
    PROVE  /\ run[r] \in RunRecord /\ Ordered(r) /\ (lock = r => Holder(r))
           /\ lock # None => lock \in Runs
BY DEF QInv, Typed

(* Groups that are still to be written, and reports, when a run goes on.   *)
LEMMA HolderRest ==
    ASSUME NEW r \in Runs, run[r] \in RunRecord, Holder(r), UNCHANGED <<plans, deleted, items, late, applied>>,
           \A g \in Groups : bindings[g] # None => bindings'[g] = bindings[g],
           PendingGroups(r)' \subseteq PendingGroups(r),
           \A g \in PendingGroups(r)' : \/ /\ bindings'[g] = bindings[g] /\ run'[r].policy[g] = run[r].policy[g]
                                           /\ run'[r].present[g] = run[r].present[g]
                                        \/ DecisionHolds(r, g)',
           run'[r].claimed = run[r].claimed, run'[r].removed = run[r].removed
    PROVE  /\ \A g \in PendingGroups(r)' : run'[r].policy[g] # None => DecisionHolds(r, g)'
           /\ Reports(r)' /\ AppliedHolds(r)'
<1>1. \A a, w : (Kept(a, w)' <=> Kept(a, w)) /\ (Lacks(a, w)' <=> Lacks(a, w))
  BY PlatformSame
<1>2. \A g, ws : Absent(r, g, ws)' <=> Absent(r, g, ws)
  BY PlatformSame
<1>3. ASSUME NEW g \in PendingGroups(r)', run'[r].policy[g] # None PROVE DecisionHolds(r, g)'
  <2>1. CASE DecisionHolds(r, g)'
    BY <2>1
  <2>2. CASE /\ bindings'[g] = bindings[g] /\ run'[r].policy[g] = run[r].policy[g]
             /\ run'[r].present[g] = run[r].present[g]
    <3>1. DecisionHolds(r, g)
      BY <1>3, <2>2 DEF Holder
    <3> QED BY <1>1, <1>2, <2>2, <3>1 DEF DecisionHolds, PresentHolds
  <2> QED BY <1>3, <2>1, <2>2
<1>4. Reports(r)' /\ AppliedHolds(r)'
  <2>1. ASSUME NEW c \in run[r].claimed PROVE Shown(r, c[1], c[2])'
    <3>1. c[2] \in Works /\ Shown(r, c[1], c[2])
      BY <2>1 DEF RunRecord, Holder, Reports
    <3> QED BY <1>1, <3>1, ShownStays
  <2> QED BY <1>1, <2>1 DEF Reports, AppliedHolds, Holder
<1> QED BY <1>3, <1>4

-----------------------------------------------------------------------------
(* The actions of a run                                                    *)

LEMMA StartKeeps == ASSUME QInv, NEW r \in Runs, Start(r) PROVE QInv'
<1> DEFINE x == run[r]
<1>0. x \in RunRecord /\ Ordered(r) /\ x.pc = "idle" /\ Command[r] \in Commands
  BY RunFields, RunAssumption DEF Start
<1>1. PICK new \in RunRecord :
         /\ run' = [run EXCEPT ![r] = new]
         /\ new.pc = (IF Command[r] = "preflight" THEN "scan" ELSE "lock")
         /\ Command[r] = "preflight" => new.todo = Groups
         /\ Command[r] \in {"remove", "bind"} => new.todo = {}
         /\ Command[r] = "submit" => new.expected # None
         /\ Command[r] # "submit" => new.expected = x.expected
         /\ Announced(new.expected)
         /\ new.group = x.group /\ new.request = x.request /\ new.policy = x.policy /\ new.present = x.present
         /\ new.claimed = x.claimed /\ new.removed = x.removed
  <2>0. x.expected = None \/ Command[r] = "submit"
    BY <1>0 DEF Ordered, Expects
  <2>1. CASE Command[r] = "preflight"
    <3> DEFINE new == [[x EXCEPT !.pc = "scan"] EXCEPT !.todo = Groups]
    <3>1. [x EXCEPT !.pc = "scan"] \in RunRecord
      BY <1>0, RecordMoves DEF Pcs
    <3>2. new \in RunRecord
      BY <3>1, RecordMoves
    <3>3. run' = [run EXCEPT ![r] = new]
      BY <2>1 DEF Start
    <3>4. /\ new.pc = "scan" /\ new.todo = Groups /\ new.expected = x.expected /\ new.group = x.group
          /\ new.request = x.request /\ new.policy = x.policy /\ new.present = x.present
          /\ new.claimed = x.claimed /\ new.removed = x.removed
      BY <1>0 DEF RunRecord
    <3> HIDE DEF new
    <3> QED BY <2>0, <2>1, <3>2, <3>3, <3>4 DEF Announced
  <2>2. CASE Command[r] = "submit"
    <3>1. PICK p \in Runs : /\ snapshots[p] # None
             /\ run' = [run EXCEPT ![r].pc = "lock", ![r].todo = {g \in Groups : snapshots[p][g].action # "blocked"},
                                   ![r].expected = snapshots[p]]
      BY <2>2 DEF Start
    <3> DEFINE new == [x EXCEPT !.pc = "lock", !.expected = snapshots[p],
                                !.todo = {g \in Groups : snapshots[p][g].action # "blocked"}]
    <3>2. snapshots[p] \in [Groups -> Expectations] /\ Announced(snapshots[p])
      BY <3>1 DEF QInv, Typed, Settled, Snapshotted
    <3>3. new \in RunRecord
      <4> DEFINE y == [[x EXCEPT !.pc = "lock"] EXCEPT !.expected = snapshots[p]]
      <4>1. [x EXCEPT !.pc = "lock"] \in RunRecord
        BY <1>0, RecordMoves DEF Pcs
      <4>2. y \in RunRecord
        BY <3>2, <4>1, RecordMoves
      <4>3. new = [y EXCEPT !.todo = {g \in Groups : snapshots[p][g].action # "blocked"}]
        BY <1>0 DEF RunRecord
      <4> HIDE DEF y, new
      <4> QED BY <4>2, <4>3, RecordMoves
    <3>4. run' = [run EXCEPT ![r] = new]
      BY <3>1
    <3> QED BY <1>0, <2>2, <3>1, <3>2, <3>3, <3>4 DEF RunRecord
  <2>3. CASE Command[r] \in {"direct", "remove", "bind"}
    <3> DEFINE todo == IF Command[r] = "direct" THEN Groups ELSE {}
               new == [x EXCEPT !.pc = "lock", !.todo = todo]
    <3>0. todo \in SUBSET Groups
      OBVIOUS
    <3>1. new \in RunRecord
      <4>1. [x EXCEPT !.pc = "lock"] \in RunRecord
        BY <1>0, RecordMoves DEF Pcs
      <4>2. new = [[x EXCEPT !.pc = "lock"] EXCEPT !.todo = todo]
        BY <1>0 DEF RunRecord
      <4> HIDE DEF todo, new
      <4> QED BY <1>0, <3>0, <4>1, <4>2, RecordMoves
    <3>2. run' = [run EXCEPT ![r] = new]
      BY <2>3 DEF Start
    <3>3. /\ new.pc = "lock" /\ new.todo = todo /\ new.expected = x.expected /\ new.group = x.group
          /\ new.request = x.request /\ new.policy = x.policy /\ new.present = x.present
          /\ new.claimed = x.claimed /\ new.removed = x.removed
      BY <1>0 DEF RunRecord
    <3>4. Command[r] \in {"remove", "bind"} => todo = {}
      OBVIOUS
    <3> HIDE DEF new, todo
    <3> QED BY <2>0, <2>3, <3>1, <3>2, <3>3, <3>4 DEF Announced
  <2> QED BY <1>0, <2>1, <2>2, <2>3 DEF Commands
<1>2. run'[r] = new
  BY <1>1, RunIs
<1>3. Ordered(r)'
  <2>1. Placed(r)'
    BY <1>0, <1>1, <1>2 DEF Start, Local, Ordered, Placed, Off, Looks, Writing, Making, Filling, Creating, Adding, Deleting
  <2>2. Carries(r)'
    BY <1>0, <1>1, <1>2 DEF Ordered, Carries, Writing, Making, Filling, Creating, Adding, Deleting
  <2>3. Expects(r)' /\ Examined(r)'
    BY <1>0, <1>1, <1>2 DEF Ordered, Expects, Announced, Examined, Writing, Making, Filling, Creating, Adding
  <2> QED BY <2>1, <2>2, <2>3 DEF Ordered
<1>4. ASSUME lock = r PROVE Holder(r)'
  <2>1. Holder(r) /\ \A g \in Groups : x.policy[g] = None
    BY <1>0, <1>4, RunFields DEF Ordered, Carries
  <2>2. PendingGroups(r)' \in SUBSET Groups
    BY <1>1, <1>2 DEF PendingGroups, RunRecord
  <2>3. Reports(r)' /\ AppliedHolds(r)'
    <3>1. \A a, w : (Kept(a, w)' <=> Kept(a, w)) /\ (Lacks(a, w)' <=> Lacks(a, w))
      BY PlatformSame DEF Start, Local, platform
    <3>2. x.claimed = {}
      BY <1>0, RunFields DEF Start, Ordered, Placed, Off
    <3> QED BY <1>1, <1>2, <2>1, <3>1, <3>2 DEF Holder, Reports, AppliedHolds, Start, Local, platform
  <2> QED BY <1>1, <1>2, <2>1, <2>2, <2>3 DEF Holder, Making, Filling, Creating, Adding
<1> QED BY <1>0, <1>1, <1>3, <1>4, LocalKeeps DEF Start

LEMMA LockKeeps == ASSUME QInv, NEW r \in Runs, Lock(r) PROVE QInv'
<1> DEFINE x == run[r]
           new == [run[r] EXCEPT !.pc = FirstPhase[Command[r]]]
<1>0. /\ x \in RunRecord /\ Ordered(r) /\ x.pc = "lock" /\ lock = None /\ lock' = r
      /\ Command[r] \in {"submit", "direct", "remove", "bind"} /\ lock # r
  BY RunFields, RunAssumption DEF Lock, Ordered, Placed, Looks, Commands
<1>1. /\ new \in RunRecord /\ run' = [run EXCEPT ![r] = new]
      /\ new.pc = IF Command[r] = "remove" THEN "read" ELSE IF Command[r] = "bind" THEN "audit" ELSE "scan"
  BY <1>0 DEF RunRecord, Pcs, FirstPhase, Lock
<1>2. /\ run'[r] = new /\ new.expected = x.expected /\ new.todo = x.todo /\ new.group = x.group
      /\ new.request = x.request /\ new.policy = x.policy /\ new.present = x.present
      /\ new.claimed = x.claimed /\ new.removed = x.removed
  BY <1>0, <1>1, RunIs DEF RunRecord
<1> HIDE DEF new
<1>3. Ordered(r)'
  <2>1. Placed(r)'
    BY <1>0, <1>1, <1>2 DEF Ordered, Placed, Off, Looks, Writing, Making, Filling, Creating, Adding, Deleting
  <2>2. Carries(r)'
    BY <1>0, <1>1, <1>2 DEF Ordered, Carries, Writing, Making, Filling, Creating, Adding, Deleting
  <2>3. Expects(r)' /\ Examined(r)'
    BY <1>0, <1>1, <1>2 DEF Ordered, Expects, Announced, Examined, Writing, Making, Filling, Creating, Adding
  <2> QED BY <2>1, <2>2, <2>3 DEF Ordered
<1>4. Holder(r)'
  <2>1. x.claimed = {} /\ x.removed = {} /\ \A g \in Groups : x.policy[g] = None
    BY <1>0 DEF Ordered, Placed, Carries, Off
  <2>2. PendingGroups(r)' \in SUBSET Groups
    BY <1>0, <1>1, <1>2 DEF PendingGroups, RunRecord
  <2>3. \A q \in applied : q.run # r
    BY <1>0 DEF QInv, Settled, Asked
  <2>4. Reports(r)' /\ AppliedHolds(r)'
    BY <1>2, <2>1, <2>3 DEF Reports, AppliedHolds, Lock, platform
  <2> QED BY <1>1, <1>2, <2>1, <2>2, <2>4 DEF Holder, Making, Filling, Creating, Adding
<1>5. /\ inflight' \in SUBSET Requests /\ inflight' \ inflight = {} /\ bindings' = bindings
      /\ bindings' \in [Groups -> Bindings \cup {None}] /\ lock' \in Runs \cup {None}
      /\ snapshots' \in [Runs -> [Groups -> Expectations] \cup {None}]
      /\ UNCHANGED <<plans, deleted, items, applied, late, outside>>
  BY <1>0 DEF Lock, platform, QInv, Typed
<1>6. Bound' /\ Snapshotted'
  BY DEF Lock, platform, QInv, Settled, Bound, Snapshotted, Announced
<1> QED BY <1>0, <1>1, <1>3, <1>4, <1>5, <1>6, RunMoves

LEMMA ScanKeeps == ASSUME QInv, NEW r \in Runs, Scan(r) PROVE QInv'
<1> DEFINE x == run[r]
           new == [run[r] EXCEPT !.pc = "decide", !.inventory = Live]
<1>0. x \in RunRecord /\ Ordered(r) /\ x.pc = "scan" /\ Live \in SUBSET Ads
  BY RunFields DEF Scan, Live, QInv, Typed
<1>1. new \in RunRecord /\ run' = [run EXCEPT ![r] = new] /\ new.pc = "decide" /\ new.inventory = Live
  <2>1. [x EXCEPT !.pc = "decide"] \in RunRecord
    BY <1>0, RecordMoves DEF Pcs
  <2>2. [[x EXCEPT !.pc = "decide"] EXCEPT !.inventory = Live] \in RunRecord
    BY <1>0, <2>1, RecordMoves
  <2>3. new.pc = "decide" /\ new.inventory = Live
    BY <1>0 DEF RunRecord
  <2> QED BY <2>2, <2>3 DEF Scan
<1>2. /\ run'[r] = new /\ new.expected = x.expected /\ new.todo = x.todo /\ new.group = x.group
      /\ new.request = x.request /\ new.policy = x.policy /\ new.present = x.present
      /\ new.claimed = x.claimed /\ new.removed = x.removed
  BY <1>0, <1>1, RunIs DEF RunRecord
<1> HIDE DEF new
<1>3. Ordered(r)'
  <2>1. Placed(r)'
    BY <1>0, <1>1, <1>2 DEF Scan, Local, Ordered, Placed, Off, Looks, Writing, Making, Filling, Creating, Adding, Deleting
  <2>2. Carries(r)'
    BY <1>0, <1>1, <1>2 DEF Ordered, Carries, Writing, Making, Filling, Creating, Adding, Deleting
  <2>3. Expects(r)' /\ Examined(r)'
    BY <1>0, <1>1, <1>2 DEF Ordered, Expects, Announced, Examined, Writing, Making, Filling, Creating, Adding
  <2> QED BY <2>1, <2>2, <2>3 DEF Ordered
<1>4. ASSUME lock = r PROVE Holder(r)'
  <2>1. Holder(r) /\ UNCHANGED <<plans, deleted, items, late, applied, bindings>>
    BY <1>4, RunFields DEF Scan, Local, platform
  <2>2. PendingGroups(r)' = PendingGroups(r)
    BY <1>2 DEF PendingGroups
  <2>3. /\ \A g \in PendingGroups(r)' : run'[r].policy[g] # None => DecisionHolds(r, g)'
        /\ Reports(r)' /\ AppliedHolds(r)'
    BY <1>2, <2>1, <2>2, HolderRest, RunFields
  <2>4. Live' = Live
    BY <2>1 DEF Live
  <2> QED BY <1>1, <1>2, <2>3, <2>4 DEF Holder, Making, Filling, Creating, Adding
<1> QED BY <1>1, <1>3, <1>4, LocalKeeps DEF Scan

LEMMA DecideKeeps == ASSUME QInv, NEW r \in Runs, Decide(r) PROVE QInv'
<1> DEFINE x == run[r]
           open == {h \in x.todo : x.policy[h] = None}
<1>1. PICK g \in Groups : g = Min(open) /\ g \in open
  BY RunFields, NextGroup DEF Decide, RunRecord
<1> DEFINE candidates == {a \in x.inventory \cap Live : Exact(a, g)}
           p == [status |-> PolicyStatus(bindings[g], candidates), binding |-> bindings[g]]
           next == IF open = {g} THEN "prepare" ELSE "decide"
           new == [run[r] EXCEPT !.policy[g] = p, !.pc = next]
<1>0. /\ x \in RunRecord /\ Ordered(r) /\ x.pc = "decide" /\ run' = [run EXCEPT ![r] = new]
  BY RunFields, <1>1 DEF Decide
<1>2. p \in Policies /\ p # None /\ next \in {"decide", "prepare"} /\ (next = "prepare" => open = {g})
      /\ p.binding = bindings[g] /\ p.status = PolicyStatus(bindings[g], candidates)
  <2>1. PolicyStatus(bindings[g], candidates) \in Statuses
    BY DEF PolicyStatus, Statuses
  <2>2. bindings[g] \in Bindings \cup {None}
    BY <1>1 DEF QInv, Typed
  <2>3. p \in Policies
    <3> HIDE DEF candidates
    <3> QED BY <2>1, <2>2 DEF Policies
  <2> QED BY <2>3, NoneAssumption
<1> HIDE DEF p, next, candidates
<1>3. /\ new \in RunRecord /\ new.pc = next /\ new.inventory = x.inventory
      /\ new.policy = [x.policy EXCEPT ![g] = p]
  <2>1. [x.policy EXCEPT ![g] = p] \in [Groups -> Policies \cup {None}]
    BY <1>0, <1>1, <1>2 DEF RunRecord
  <2>2. new = [[x EXCEPT !.policy = [x.policy EXCEPT ![g] = p]] EXCEPT !.pc = next]
    BY <1>0 DEF RunRecord
  <2> DEFINE y == [x EXCEPT !.policy = [x.policy EXCEPT ![g] = p]]
  <2>3. y \in RunRecord
    BY <1>0, <2>1, RecordMoves
  <2>4. next \in Pcs
    BY <1>2 DEF Pcs
  <2>5. new.pc = next /\ new.inventory = x.inventory /\ new.policy = [x.policy EXCEPT ![g] = p]
    BY <1>0 DEF RunRecord
  <2> HIDE DEF new, y
  <2>6. new = [y EXCEPT !.pc = next]
    BY <2>2 DEF y
  <2>7. new \in RunRecord
    BY <2>3, <2>4, <2>6, RecordMoves
  <2> QED BY <2>5, <2>7
<1>4. /\ run'[r] = new /\ new.expected = x.expected /\ new.todo = x.todo /\ new.group = x.group
      /\ new.request = x.request /\ new.present = x.present /\ new.claimed = x.claimed /\ new.removed = x.removed
  BY <1>0, <1>3, RunIs DEF RunRecord
<1>5. /\ new.policy[g] = p /\ \A h \in Groups : h # g => new.policy[h] = x.policy[h]
  BY <1>0, <1>1, <1>3 DEF RunRecord
<1>6. x.todo \in SUBSET Groups /\ \A h \in Groups : x.present[h] = None
  BY <1>0 DEF RunRecord, Ordered, Carries
<1> HIDE DEF new
<1>7. Ordered(r)'
  <2>1. Placed(r)'
    BY <1>0, <1>2, <1>3, <1>4 DEF Decide, Local, Ordered, Placed, Off, Looks, Writing, Making, Filling, Creating, Adding, Deleting
  <2>2. Carries(r)'
    BY <1>0, <1>2, <1>3, <1>4 DEF Ordered, Carries, Writing, Making, Filling, Creating, Adding, Deleting
  <2>3. Expects(r)'
    BY <1>0, <1>2, <1>3, <1>4 DEF Ordered, Expects, Announced
  <2>4. Examined(r)'
    <3>1. ASSUME next = "prepare" PROVE \A h \in x.todo : new.policy[h] # None
      BY <1>2, <1>5, <1>6, <3>1
    <3> QED BY <1>2, <1>3, <1>4, <3>1 DEF Examined, Writing, Making, Filling, Creating, Adding
  <2> QED BY <2>1, <2>2, <2>3, <2>4 DEF Ordered
<1>8. ASSUME lock = r PROVE Holder(r)'
  <2>1. Holder(r) /\ UNCHANGED <<plans, deleted, items, late, applied, bindings>>
    BY <1>8, RunFields DEF Decide, Local, platform
  <2>2. PendingGroups(r)' = PendingGroups(r) /\ PendingGroups(r) \in SUBSET Groups
    BY <1>4, <1>6 DEF PendingGroups
  <2>3. \A a \in Live \ x.inventory : NewPlan(a)
    BY <1>0, <2>1 DEF Holder
  <2>4. DecisionHolds(r, g)'
    <3>1. ASSUME p.status = "would_create" PROVE bindings[g] = None /\ Absent(r, g, WorksOf(g))
      <4>1. bindings[g] = None /\ candidates = {}
        BY <1>2, <3>1 DEF PolicyStatus
      <4>2. ASSUME NEW a \in Live, Exact(a, g) PROVE NewPlan(a)
        BY <2>3, <4>1, <4>2 DEF candidates
      <4>3. ASSUME NEW a \in Live, a.source = g, Whole(g) PROVE Exact(a, g)
        BY <1>1, <4>3 DEF Exact, ProductsOf, Whole
      <4>4. ASSUME NEW a \in Live, Exact(a, g) PROVE \A w \in WorksOf(g) : Lacks(a, w)
        BY <4>2, <4>4 DEF NewPlan, WorksOf
      <4>5. ASSUME NEW a \in Live, a.source = g, Whole(g) PROVE LateCreated(a) /\ \A w \in FirstOf(WorksOf(g)) : Kept(a, w)
        BY <1>1, <4>2, <4>3, <4>5 DEF NewPlan
      <4> QED BY <4>1, <4>4, <4>5 DEF Absent
    <3>2. p.status = "bound" => bindings[g] # None
      BY <1>2 DEF PolicyStatus
    <3>3. Absent(r, g, WorksOf(g))' <=> Absent(r, g, WorksOf(g))
      BY <2>1, PlatformSame
    <3>4. x.present[g] = None /\ new.present[g] = None
      BY <1>1, <1>4, <1>6
    <3> QED BY <1>2, <1>4, <1>5, <2>1, <3>1, <3>2, <3>3, <3>4 DEF DecisionHolds, WorksOf
  <2>5. /\ \A h \in PendingGroups(r)' : run'[r].policy[h] # None => DecisionHolds(r, h)'
        /\ Reports(r)' /\ AppliedHolds(r)'
    <3>1. \A h \in PendingGroups(r)' :
             \/ bindings'[h] = bindings[h] /\ run'[r].policy[h] = run[r].policy[h] /\ run'[r].present[h] = run[r].present[h]
             \/ DecisionHolds(r, h)'
      <4>1. ASSUME NEW h \in PendingGroups(r), h # g PROVE new.policy[h] = x.policy[h]
        BY <1>5, <2>2, <4>1
      <4> QED BY <1>4, <2>1, <2>2, <2>4, <4>1
    <3> QED BY <1>4, <2>1, <2>2, <3>1, HolderRest, RunFields
  <2>6. Live' = Live /\ \A a : NewPlan(a)' <=> NewPlan(a)
    BY <2>1, PlatformSame
  <2> QED BY <1>2, <1>3, <1>4, <2>3, <2>5, <2>6 DEF Holder, Making, Filling, Creating, Adding
<1> QED BY <1>0, <1>2, <1>3, <1>7, <1>8, LocalKeeps DEF Decide

LEMMA PrepareKeeps == ASSUME QInv, NEW r \in Runs, Prepare(r) PROVE QInv'
<1> DEFINE x == run[r]
<1>0. x \in RunRecord /\ Ordered(r) /\ x.pc = "prepare" /\ x.todo \in SUBSET Groups
  BY RunFields DEF Prepare, RunRecord
<1>1. PICK g \in ToPrepare(r), new \in RunRecord :
         /\ run' = [run EXCEPT ![r] = new] /\ new.pc = "prepare" /\ new.policy = x.policy
         /\ \/ new.present = [x.present EXCEPT ![g] = items[x.policy[g].binding.ad] \cap WorksOf(g)]
            \/ new.present = x.present
         /\ new.expected = x.expected /\ new.todo = x.todo /\ new.group = x.group
         /\ new.request = x.request /\ new.claimed = x.claimed /\ new.removed = x.removed
  <2>1. PICK g \in ToPrepare(r) :
           \/ run' = [run EXCEPT ![r].present[g] = items[x.policy[g].binding.ad] \cap WorksOf(g)]
           \/ run' = [run EXCEPT ![r].unread = @ \cup {g}]
    BY DEF Prepare
  <2>2. g \in Groups
    BY <1>0, <2>1 DEF ToPrepare
  <2> DEFINE here == items[x.policy[g].binding.ad] \cap WorksOf(g)
             read == [x EXCEPT !.present[g] = here]
             failed == [x EXCEPT !.unread = @ \cup {g}]
  <2>3. here \in SUBSET Works
    BY DEF WorksOf
  <2> HIDE DEF here
  <2>4. read \in RunRecord /\ failed \in RunRecord
    BY <1>0, <2>2, <2>3 DEF RunRecord
  <2>5. run' = [run EXCEPT ![r] = read] \/ run' = [run EXCEPT ![r] = failed]
    BY <2>1 DEF here
  <2>6. CASE run' = [run EXCEPT ![r] = read]
    <3>1. /\ read.pc = "prepare" /\ read.policy = x.policy /\ read.present = [x.present EXCEPT ![g] = here]
          /\ read.expected = x.expected /\ read.todo = x.todo /\ read.group = x.group
          /\ read.request = x.request /\ read.claimed = x.claimed /\ read.removed = x.removed
      BY <1>0 DEF RunRecord
    <3> HIDE DEF read
    <3> QED BY <2>1, <2>4, <2>6, <3>1 DEF here
  <2>7. CASE run' = [run EXCEPT ![r] = failed]
    <3>1. /\ failed.pc = "prepare" /\ failed.policy = x.policy /\ failed.present = x.present
          /\ failed.expected = x.expected /\ failed.todo = x.todo /\ failed.group = x.group
          /\ failed.request = x.request /\ failed.claimed = x.claimed /\ failed.removed = x.removed
      BY <1>0 DEF RunRecord
    <3> HIDE DEF failed
    <3> QED BY <2>1, <2>4, <2>7, <3>1
  <2> QED BY <2>5, <2>6, <2>7
<1>2. run'[r] = new
  BY <1>1, RunIs
<1>3. Ordered(r)'
  <2>1. Placed(r)'
    BY <1>0, <1>1, <1>2 DEF Prepare, Local, Ordered, Placed, Off, Looks, Writing, Making, Filling, Creating, Adding, Deleting
  <2>2. Carries(r)'
    BY <1>0, <1>1, <1>2 DEF Ordered, Carries, Writing, Making, Filling, Creating, Adding, Deleting
  <2>3. Expects(r)' /\ Examined(r)'
    BY <1>0, <1>1, <1>2 DEF Ordered, Expects, Announced, Examined, Writing, Making, Filling, Creating, Adding
  <2> QED BY <2>1, <2>2, <2>3 DEF Ordered
<1>4. ASSUME lock = r PROVE Holder(r)'
  <2>1. Holder(r) /\ UNCHANGED <<plans, deleted, items, late, applied, bindings>>
    BY <1>4, RunFields DEF Prepare, Local, platform
  <2>2. PendingGroups(r)' = PendingGroups(r) /\ PendingGroups(r) \in SUBSET Groups
    BY <1>0, <1>1, <1>2 DEF PendingGroups
  <2>3. g \in Groups /\ g \in x.todo /\ x.policy[g] # None /\ x.policy[g].status = "bound" /\ x.group = None
    BY <1>0, <1>1 DEF ToPrepare, Ordered, Examined, Carries, Writing, Making, Filling, Creating, Adding
  <2>4. DecisionHolds(r, g)
    BY <2>1, <2>3, NoneAssumption DEF Holder, PendingGroups
  <2>5. ASSUME new.present = [x.present EXCEPT ![g] = items[x.policy[g].binding.ad] \cap WorksOf(g)]
        PROVE  DecisionHolds(r, g)'
    <3> DEFINE a == x.policy[g].binding.ad
    <3>1. new.present[g] = items[a] \cap WorksOf(g)
      BY <1>0, <2>3, <2>5 DEF RunRecord
    <3>2. \A w \in WorksOf(g) : IF w \in new.present[g] THEN Kept(a, w) ELSE Lacks(a, w)
      BY <3>1 DEF Kept, Lacks
    <3>3. \A b, w : (Kept(b, w)' <=> Kept(b, w)) /\ (Lacks(b, w)' <=> Lacks(b, w))
      BY <2>1 DEF Kept, Lacks, Later
    <3>4. x.policy[g].binding = bindings[g] /\ bindings[g] # None /\ x.policy[g].status # "would_create"
      BY <2>3, <2>4 DEF DecisionHolds
    <3> QED BY <1>1, <1>2, <2>1, <3>2, <3>3, <3>4 DEF DecisionHolds, PresentHolds, WorksOf
  <2>6. \A h \in PendingGroups(r)' :
           \/ bindings'[h] = bindings[h] /\ run'[r].policy[h] = run[r].policy[h] /\ run'[r].present[h] = run[r].present[h]
           \/ DecisionHolds(r, h)'
    <3>1. \A h \in Groups : h # g => new.present[h] = x.present[h]
      BY <1>0, <1>1 DEF RunRecord
    <3> QED BY <1>1, <1>2, <2>1, <2>2, <2>5, <3>1
  <2>7. /\ \A h \in PendingGroups(r)' : run'[r].policy[h] # None => DecisionHolds(r, h)'
        /\ Reports(r)' /\ AppliedHolds(r)'
    BY <1>1, <1>2, <2>1, <2>2, <2>6, HolderRest, RunFields
  <2> QED BY <1>1, <1>2, <2>7 DEF Holder, Making, Filling, Creating, Adding
<1> QED BY <1>1, <1>3, <1>4, LocalKeeps DEF Prepare

LEMMA RevalidatedKeeps == ASSUME QInv, NEW r \in Runs, Revalidated(r) PROVE QInv'
<1> DEFINE x == run[r]
           next == IF Command[r] = "preflight" THEN "save" ELSE "groups"
           new == [run[r] EXCEPT !.pc = next, !.inventory = {}]
<1>1. CASE Return(r)
  BY <1>1, ReturnKeeps
<1>2. CASE run' = [run EXCEPT ![r] = new] /\ Local
  <2>0. x \in RunRecord /\ Ordered(r) /\ x.pc = "prepare" /\ ToPrepare(r) = {} /\ x.todo \in SUBSET Groups
    BY RunFields DEF Revalidated, RunRecord
  <2>1. next \in {"save", "groups"} /\ (next = "save" <=> Command[r] = "preflight")
    OBVIOUS
  <2> HIDE DEF next
  <2>2. new \in RunRecord /\ new.pc = next
    <3>1. new = [[x EXCEPT !.pc = next] EXCEPT !.inventory = {}] /\ new.pc = next /\ next \in Pcs
      BY <2>0, <2>1 DEF RunRecord, Pcs
    <3> HIDE DEF new
    <3>2. [x EXCEPT !.pc = next] \in RunRecord
      BY <2>0, <3>1, RecordMoves
    <3> QED BY <3>1, <3>2, RecordMoves
  <2>3. /\ run'[r] = new /\ new.expected = x.expected /\ new.todo = x.todo /\ new.group = x.group
        /\ new.request = x.request /\ new.policy = x.policy /\ new.present = x.present /\ new.unread = x.unread
        /\ new.claimed = x.claimed /\ new.removed = x.removed
    BY <1>2, <2>0, RunIs DEF RunRecord
  <2> HIDE DEF new
  <2>4. Ordered(r)'
    <3>1. Placed(r)'
      BY <1>2, <2>0, <2>1, <2>2, <2>3 DEF Local, Ordered, Placed, Off, Looks, Writing, Making, Filling, Creating, Adding, Deleting
    <3>2. Carries(r)'
      BY <2>0, <2>1, <2>2, <2>3 DEF Ordered, Carries, Writing, Making, Filling, Creating, Adding, Deleting
    <3>3. Expects(r)'
      BY <2>0, <2>1, <2>2, <2>3 DEF Ordered, Expects, Announced
    <3>4. Examined(r)'
      <4>1. \A g \in Groups : Unexpected(r, g)' <=> Unexpected(r, g)
        BY <2>3 DEF Unexpected
      <4>2. \A g \in x.todo : x.policy[g] # None
        BY <2>0 DEF Ordered, Examined
      <4> QED BY <2>0, <2>1, <2>2, <2>3, <4>1, <4>2 DEF Examined, ToPrepare
    <3> QED BY <3>1, <3>2, <3>3, <3>4 DEF Ordered
  <2>5. ASSUME lock = r PROVE Holder(r)'
    <3>1. Holder(r) /\ UNCHANGED <<plans, deleted, items, late, applied, bindings>>
      BY <1>2, <2>5, RunFields DEF Local, platform
    <3>2. PendingGroups(r)' = PendingGroups(r)
      BY <2>3 DEF PendingGroups
    <3>3. /\ \A g \in PendingGroups(r)' : run'[r].policy[g] # None => DecisionHolds(r, g)'
          /\ Reports(r)' /\ AppliedHolds(r)'
      BY <2>3, <3>1, <3>2, HolderRest, RunFields
    <3> QED BY <2>1, <2>2, <2>3, <3>3 DEF Holder, Making, Filling, Creating, Adding
  <2> QED BY <1>2, <2>1, <2>2, <2>4, <2>5, LocalKeeps
<1> QED BY <1>1, <1>2 DEF Revalidated

LEMMA SaveKeeps == ASSUME QInv, NEW r \in Runs, Save(r) PROVE QInv'
<1> DEFINE x == run[r]
<1>0. x \in RunRecord /\ Ordered(r) /\ x.pc = "save"
  BY RunFields DEF Save
<1>1. Command[r] = "preflight" /\ lock # r /\ x.todo = Groups /\ x.expected = None
  BY <1>0 DEF Ordered, Placed, Expects, Off
<1>2. ASSUME NEW g \in Groups PROVE x.policy[g] \in Policies /\ x.policy[g].binding \in Bindings \cup {None}
  BY <1>0, <1>1 DEF Ordered, Examined, RunRecord, Policies
<1>3. ASSUME NEW g \in Groups, x.policy[g].status = "bound", g \notin x.unread PROVE x.present[g] \in SUBSET Works
  <2>1. x.present[g] # None
    BY <1>0, <1>1, <1>3 DEF Ordered, Examined, Unexpected
  <2> QED BY <1>0, <2>1 DEF RunRecord
<1>4. ASSUME NEW g \in Groups
      PROVE  Snapshot(r, g) \in Expectations /\ (Snapshot(r, g).action = "would_create" => Snapshot(r, g).write = WorksOf(g))
  <2>1. WorksOf(g) \in SUBSET Works
    BY DEF WorksOf
  <2>2. CASE x.policy[g].status = "would_create"
    BY <1>2, <2>1, <2>2 DEF Snapshot, Expectations, Actions
  <2>3. CASE x.policy[g].status = "bound" /\ g \notin x.unread
    <3>1. x.present[g] \in SUBSET Works
      BY <1>3, <2>3
    <3>2. CASE WorksOf(g) \subseteq x.present[g]
      BY <1>2, <2>1, <2>3, <3>1, <3>2 DEF Snapshot, Expectations, Actions
    <3>3. CASE ~(WorksOf(g) \subseteq x.present[g])
      BY <1>2, <2>1, <2>3, <3>1, <3>3 DEF Snapshot, Expectations, Actions
    <3> QED BY <3>2, <3>3
  <2>4. CASE x.policy[g].status # "would_create" /\ ~(x.policy[g].status = "bound" /\ g \notin x.unread)
    BY <1>2, <2>1, <2>4 DEF Snapshot, Expectations, Actions
  <2> QED BY <2>2, <2>3, <2>4
<1>5. snapshots' = [snapshots EXCEPT ![r] = [g \in Groups |-> Snapshot(r, g)]]
  BY DEF Save
<1>6. snapshots' \in [Runs -> [Groups -> Expectations] \cup {None}]
  BY <1>4, <1>5 DEF QInv, Typed
<1>7. Snapshotted'
  <2>1. ASSUME NEW s \in Runs PROVE Announced(snapshots'[s])
    <3>1. CASE s = r
      <4>1. snapshots'[r] = [g \in Groups |-> Snapshot(r, g)]
        BY <1>5 DEF QInv, Typed
      <4> QED BY <1>4, <3>1, <4>1 DEF Announced
    <3>2. CASE s # r
      <4>1. snapshots'[s] = snapshots[s]
        BY <1>5, <3>2 DEF QInv, Typed
      <4> QED BY <4>1 DEF QInv, Settled, Snapshotted
    <3> QED BY <3>1, <3>2
  <2> QED BY <2>1 DEF Snapshotted, Announced
<1>8. bindings' \in [Groups -> Bindings \cup {None}] /\ bindings' = bindings /\ inflight' \in SUBSET inflight
  BY DEF Save, platform, QInv, Typed
<1>9. Bound'
  BY DEF Save, platform, QInv, Settled, Bound
<1> QED BY <1>1, <1>6, <1>7, <1>8, <1>9, RunEndsWell DEF Save, platform

-----------------------------------------------------------------------------
(* Writing                                                                 *)

(* A run that writes holds the lock.                                       *)
LEMMA Writes ==
    ASSUME QInv, NEW r \in Runs, run[r].pc \in Writing \/ Ready(r)
    PROVE  /\ lock = r /\ Holder(r) /\ Command[r] \in {"submit", "direct"}
           /\ run[r].todo \in SUBSET Groups
           /\ run[r].pc \in Writing => run[r].group \in run[r].todo /\ run[r].group \in Groups
           /\ Ready(r) => Current(r) \in run[r].todo /\ run[r].group = None
<1>1. Ordered(r) /\ run[r] \in RunRecord /\ run[r].todo \in SUBSET Groups
  BY RunFields DEF RunRecord
<1>2. Command[r] \in {"submit", "direct"} /\ lock = r
  BY <1>1, RunAssumption DEF Ordered, Placed, Ready, Commands, Off, Looks, Writing, Making, Filling, Creating, Adding
<1>3. Ready(r) => Current(r) \in run[r].todo
  BY <1>1, NextGroup DEF Ready, Current
<1>4. /\ run[r].pc \in Writing => run[r].group \in run[r].todo
      /\ Ready(r) => run[r].group = None
  BY <1>1 DEF Ordered, Carries, Ready, Writing, Making, Filling, Creating, Adding
<1> QED BY <1>1, <1>2, <1>3, <1>4, RunFields

(* What a run has decided and read it keeps while it writes.               *)
LEMMA WritesOn ==
    ASSUME QInv, NEW r \in Runs, NEW new, run'[r] = new, run[r].pc \in Writing \/ Ready(r), lock' = lock,
           new.pc \in Writing \cup {"groups"}, new.todo \subseteq run[r].todo,
           new.expected = run[r].expected, new.policy = run[r].policy, new.present = run[r].present,
           new.unread = run[r].unread, new.removed = run[r].removed, Carries(r)'
    PROVE  Ordered(r)'
<1>1. Ordered(r) /\ lock = r /\ Command[r] \in {"submit", "direct"}
  BY RunFields, Writes
<1>2. Placed(r)'
  BY <1>1 DEF Ordered, Placed, Ready, Off, Looks, Writing, Making, Filling, Creating, Adding, Deleting
<1>3. run[r].pc \notin {"idle", "done"}
  BY DEF Ready, Writing, Making, Filling, Creating, Adding
<1>4. Expects(r)'
  BY <1>1, <1>3 DEF Ordered, Expects, Announced
<1>5. \A g \in run[r].todo : run[r].policy[g] # None
  BY <1>1 DEF Ordered, Examined, Ready
<1>6. \A g \in run[r].todo : run[r].policy[g].status = "bound" /\ ~Unexpected(r, g) /\ g \notin run[r].unread
                             => run[r].present[g] # None
  BY <1>1 DEF Ordered, Examined, Ready
<1>7. \A g : Unexpected(r, g)' <=> Unexpected(r, g)
  BY DEF Unexpected
<1>8. Examined(r)'
  BY <1>5, <1>6, <1>7 DEF Examined
<1> QED BY <1>2, <1>4, <1>8 DEF Ordered

(* Writing does not touch the groups that are still to be written.         *)
LEMMA PendingStay ==
    ASSUME QInv, NEW r \in Runs, NEW new, run'[r] = new, run[r].pc \in Writing \/ Ready(r),
           UNCHANGED <<plans, deleted, items, late, applied>>,
           new.policy = run[r].policy, new.present = run[r].present,
           new.todo \ {new.group} \subseteq run[r].todo \ {run[r].group},
           \A g \in run[r].todo \ {run[r].group} : bindings'[g] = bindings[g],
           \A g \in Groups : bindings[g] # None => bindings'[g] = bindings[g],
           new.claimed = run[r].claimed, new.removed = run[r].removed
    PROVE  /\ \A g \in PendingGroups(r)' : run'[r].policy[g] # None => DecisionHolds(r, g)'
           /\ Reports(r)' /\ AppliedHolds(r)'
<1>1. PendingGroups(r)' \subseteq PendingGroups(r)
  BY DEF PendingGroups
<1>2. \A g \in PendingGroups(r)' : bindings'[g] = bindings[g]
  BY <1>1 DEF PendingGroups
<1> QED BY <1>1, <1>2, Writes, HolderRest, RunFields

(* The result of a group, whatever it is.                                  *)
LEMMA FinishKeeps ==
    ASSUME QInv, NEW r \in Runs, NEW claimed \in SUBSET (Ads \X Works), Finish(r, claimed), run[r].pc \in Writing,
           \A c \in claimed : Shown(r, c[1], c[2]),
           UNCHANGED <<plans, deleted, items, applied, late, outside, bindings, snapshots, lock>>,
           inflight' \in SUBSET inflight
    PROVE  QInv'
<1> DEFINE x == run[r]
           new == [x EXCEPT !.pc = "groups", !.todo = @ \ {x.group}, !.group = None, !.ad = None,
                            !.left = {}, !.request = None, !.claimed = @ \cup claimed]
<1>0. x \in RunRecord /\ Ordered(r) /\ run' = [run EXCEPT ![r] = new] /\ lock = r /\ Holder(r) /\ x.todo \in SUBSET Groups
  BY RunFields, Writes DEF Finish
<1>1. new \in RunRecord
  <2> DEFINE a == [[x EXCEPT !.pc = "groups"] EXCEPT !.todo = x.todo \ {x.group}]
             b == [[a EXCEPT !.group = None] EXCEPT !.ad = None]
             c == [[b EXCEPT !.left = {}] EXCEPT !.request = None]
  <2>1. [x EXCEPT !.pc = "groups"] \in RunRecord
    BY <1>0, RecordMoves DEF Pcs
  <2>2. a \in RunRecord
    BY <1>0, <2>1, RecordMoves
  <2>3. x.claimed \cup claimed \in SUBSET (Ads \X Works)
    BY <1>0 DEF RunRecord
  <2>4. new = [c EXCEPT !.claimed = x.claimed \cup claimed]
    BY <1>0 DEF RunRecord
  <2> HIDE DEF a, new
  <2>5. [a EXCEPT !.group = None] \in RunRecord
    BY <2>2, RecordMoves
  <2>6. b \in RunRecord
    BY <2>5, RecordMoves
  <2> HIDE DEF b
  <2>7. [b EXCEPT !.left = {}] \in RunRecord
    BY <2>6, RecordMoves
  <2>8. c \in RunRecord
    BY <2>7, RecordMoves
  <2> HIDE DEF c
  <2> QED BY <2>3, <2>4, <2>8, RecordMoves
<1>2. /\ run'[r] = new /\ new.pc = "groups" /\ new.todo = x.todo \ {x.group} /\ new.group = None /\ new.request = None
      /\ new.expected = x.expected /\ new.policy = x.policy /\ new.present = x.present /\ new.unread = x.unread
      /\ new.claimed = x.claimed \cup claimed /\ new.removed = x.removed
  BY <1>0, RunIs DEF RunRecord
<1> HIDE DEF new
<1>3. Carries(r)'
  BY <1>2 DEF Carries, Writing, Making, Filling, Creating, Adding, Deleting
<1>4. Ordered(r)'
  BY <1>2, <1>3, WritesOn
<1>5. Holder(r)'
  <2>1. \A a, w : (Kept(a, w)' <=> Kept(a, w)) /\ (Lacks(a, w)' <=> Lacks(a, w))
    BY PlatformSame
  <2>2. Reports(r)' /\ AppliedHolds(r)'
    <3>1. ASSUME NEW c \in x.claimed \cup claimed PROVE Shown(r, c[1], c[2])'
      <4>1. c[2] \in Works /\ Shown(r, c[1], c[2])
        BY <1>0, <3>1 DEF RunRecord, Holder, Reports
      <4> QED BY <2>1, <4>1, ShownStays
    <3> QED BY <1>0, <1>2, <2>1, <3>1 DEF Holder, Reports, AppliedHolds
  <2>3. ASSUME NEW g \in PendingGroups(r)', run'[r].policy[g] # None PROVE DecisionHolds(r, g)'
    <3>1. g \in PendingGroups(r) /\ DecisionHolds(r, g)
      BY <1>0, <1>2, <2>3 DEF PendingGroups, Holder
    <3>2. \A h, ws : Absent(r, h, ws)' <=> Absent(r, h, ws)
      BY PlatformSame
    <3> QED BY <1>2, <2>1, <3>1, <3>2 DEF DecisionHolds, PresentHolds
  <2> QED BY <1>2, <2>2, <2>3 DEF Holder, Making, Filling, Creating, Adding
<1>6. bindings' \in [Groups -> Bindings \cup {None}] /\ lock' \in Runs \cup {None}
      /\ snapshots' \in [Runs -> [Groups -> Expectations] \cup {None}]
      /\ inflight' \in SUBSET Requests /\ inflight' \ inflight = {}
  BY DEF QInv, Typed
<1>7. Bound' /\ Snapshotted'
  BY DEF QInv, Settled, Bound, Snapshotted, Announced
<1> QED BY <1>0, <1>1, <1>2, <1>4, <1>5, <1>6, <1>7, RunMoves

LEMMA ReportGroupKeeps == ASSUME QInv, NEW r \in Runs, ReportGroup(r) PROVE QInv'
<1> DEFINE x == run[r]
           changed == IF ~Unexpected(r, Current(r)) /\ MaterialsChanged(r, Current(r))
                      THEN x.changed \cup {Current(r)} ELSE x.changed
           new == [x EXCEPT !.todo = @ \ {Current(r)}, !.changed = changed]
<1>0. /\ x \in RunRecord /\ Ordered(r) /\ Ready(r) /\ run' = [run EXCEPT ![r] = new] /\ Local
      /\ x.todo \in SUBSET Groups /\ Current(r) \in x.todo /\ x.group = None /\ x.pc = "groups"
  BY RunFields, Writes DEF ReportGroup, Ready
<1>1. changed \in SUBSET Groups
  BY <1>0 DEF RunRecord
<1> HIDE DEF changed
<1>2. new \in RunRecord
  <2>1. new = [[x EXCEPT !.todo = x.todo \ {Current(r)}] EXCEPT !.changed = changed]
    BY <1>0 DEF RunRecord
  <2>2. [x EXCEPT !.todo = x.todo \ {Current(r)}] \in RunRecord
    BY <1>0, RecordMoves
  <2> HIDE DEF new
  <2> QED BY <1>1, <2>1, <2>2, RecordMoves
<1>3. /\ run'[r] = new /\ new.pc = "groups" /\ new.todo = x.todo \ {Current(r)} /\ new.group = None /\ new.request = x.request
      /\ new.expected = x.expected /\ new.policy = x.policy /\ new.present = x.present /\ new.unread = x.unread
      /\ new.claimed = x.claimed /\ new.removed = x.removed
  BY <1>0, RunIs DEF RunRecord
<1> HIDE DEF new
<1>4. Carries(r)'
  BY <1>0, <1>3 DEF Ordered, Carries, Writing, Making, Filling, Creating, Adding, Deleting
<1>5. UNCHANGED <<plans, deleted, items, late, applied, bindings, lock>>
  BY <1>0 DEF Local, platform
<1>6. Ordered(r)'
  BY <1>0, <1>3, <1>4, <1>5, WritesOn
<1>7. Holder(r)'
  <2>1. /\ \A g \in PendingGroups(r)' : run'[r].policy[g] # None => DecisionHolds(r, g)'
        /\ Reports(r)' /\ AppliedHolds(r)'
    BY <1>0, <1>3, <1>5, PendingStay
  <2> QED BY <1>3, <2>1 DEF Holder, Making, Filling, Creating, Adding
<1> QED BY <1>0, <1>2, <1>3, <1>6, <1>7, LocalKeeps

(* What the decision of the group to write says.                           *)
LEMMA CurrentDecision ==
    ASSUME QInv, NEW r \in Runs, Ready(r)
    PROVE  LET g == Current(r)
               p == run[r].policy[g] IN
           /\ g \in Groups /\ p \in Policies /\ DecisionHolds(r, g)
           /\ p.binding = bindings[g] /\ bindings[g] \in Bindings \cup {None}
<1> DEFINE g == Current(r)
<1>1. Holder(r) /\ Ordered(r) /\ run[r] \in RunRecord /\ g \in run[r].todo /\ g \in Groups /\ run[r].group = None
  BY RunFields, Writes
<1>2. run[r].policy[g] # None /\ run[r].policy[g] \in Policies
  BY <1>1 DEF Ordered, Examined, Ready, RunRecord
<1>3. DecisionHolds(r, g)
  BY <1>1, <1>2, NoneAssumption DEF Holder, PendingGroups
<1>4. bindings[g] \in Bindings \cup {None}
  BY <1>1 DEF QInv, Typed
<1> QED BY <1>1, <1>2, <1>3, <1>4 DEF DecisionHolds

(* A write is on its way: the rest of what there is to show.               *)
LEMMA DispatchKeeps ==
    ASSUME QInv, NEW r \in Runs, NEW q \in Requests, NEW waiting, [waiting EXCEPT !.request = q] \in RunRecord,
           Dispatch(r, q, waiting), Asks(q), q.run = r,
           [waiting EXCEPT !.request = q].pc \notin {"idle", "lock"},
           Ordered(r)', Holder(r)'
    PROVE  QInv'
<1> DEFINE new == [waiting EXCEPT !.request = q]
<1>1. /\ run' = [run EXCEPT ![r] = new] /\ inflight' = inflight \cup {q}
      /\ UNCHANGED <<plans, deleted, items, applied, late, outside, bindings, snapshots, lock>>
  BY DEF Dispatch
<1>2. new \in RunRecord /\ new.pc \notin {"idle", "lock"}
  OBVIOUS
<1> HIDE DEF new
<1>3. bindings' \in [Groups -> Bindings \cup {None}] /\ lock' \in Runs \cup {None}
      /\ snapshots' \in [Runs -> [Groups -> Expectations] \cup {None}] /\ inflight' \in SUBSET Requests
  BY <1>1 DEF QInv, Typed
<1>4. Bound' /\ Snapshotted'
  BY <1>1 DEF QInv, Settled, Bound, Snapshotted, Announced
<1>5. \A p \in inflight' \ inflight : Asks(p) /\ p.run = r
  BY <1>1
<1> QED BY <1>1, <1>2, <1>3, <1>4, <1>5, RunMoves

LEMMA CreatePlanKeeps == ASSUME QInv, NEW r \in Runs, CreatePlan(r) PROVE QInv'
<1>0. PICK g \in Groups : g = Current(r)
  BY Writes DEF CreatePlan
<1> DEFINE x == run[r]
           q == CreateOf(r, g)
           left == WorksOf(g) \ FirstOf(WorksOf(g))
           waiting == [x EXCEPT !.pc = "create", !.group = g, !.left = left]
           new == [waiting EXCEPT !.request = q]
<1>1. /\ x \in RunRecord /\ Ordered(r) /\ Holder(r) /\ lock = r /\ Ready(r) /\ Creatable(r, g) /\ Command[r] \in {"submit", "direct"}
      /\ x.todo \in SUBSET Groups /\ g \in x.todo /\ x.group = None /\ x.pc = "groups"
  BY <1>0, RunFields, Writes DEF CreatePlan, Ready
<1>2. Dispatch(r, q, waiting)
  BY <1>0 DEF CreatePlan, CreateOf
<1>3. q \in Requests /\ q.kind = "create" /\ q.ad.source = g /\ q.ad.run = r /\ q.run = r /\ q.works = FirstOf(WorksOf(g))
  BY RequestTypes DEF CreateOf
<1>4. left \in SUBSET Works
  BY DEF WorksOf
<1>5. Asks(q)
  BY <1>1, <1>3 DEF Asks
<1>6. q = CreateOf(r, g)
  OBVIOUS
<1> HIDE DEF q
<1>7. new \in RunRecord
  <2> DEFINE y == [[x EXCEPT !.pc = "create"] EXCEPT !.group = g]
             z == [y EXCEPT !.left = left]
  <2>1. new = [z EXCEPT !.request = q]
    BY <1>1 DEF RunRecord
  <2>2. [x EXCEPT !.pc = "create"] \in RunRecord
    BY <1>1, RecordMoves DEF Pcs
  <2>3. y \in RunRecord
    BY <2>2, RecordMoves
  <2> HIDE DEF left, y, new
  <2>4. z \in RunRecord
    BY <1>4, <2>3, RecordMoves
  <2> HIDE DEF z
  <2> QED BY <1>3, <2>1, <2>4, RecordMoves
<1>8. /\ new.pc = "create" /\ new.todo = x.todo /\ new.group = g /\ new.request = q /\ new.left = left
      /\ new.expected = x.expected /\ new.policy = x.policy /\ new.present = x.present /\ new.unread = x.unread
      /\ new.claimed = x.claimed /\ new.removed = x.removed
  BY <1>1 DEF RunRecord
<1>9. /\ run'[r] = new /\ UNCHANGED <<plans, deleted, items, late, applied, bindings, lock>>
  BY <1>2, RunIs DEF Dispatch
<1> HIDE DEF new
<1>10. Ordered(r)'
  <2>1. Carries(r)'
    BY <1>1, <1>6, <1>8, <1>9 DEF Carries, Writing, Making, Filling, Creating, Adding, Deleting, CreateOf
  <2> QED BY <1>1, <1>8, <1>9, <2>1, WritesOn DEF Writing, Making, Creating
<1>11. Holder(r)'
  <2>1. /\ \A h \in PendingGroups(r)' : run'[r].policy[h] # None => DecisionHolds(r, h)'
        /\ Reports(r)' /\ AppliedHolds(r)'
    <3>1. \A h \in x.todo \ {x.group} : bindings'[h] = bindings[h]
      BY <1>9
    <3>2. new.todo \ {new.group} \subseteq x.todo \ {x.group}
      BY <1>0, <1>1, <1>8, NoneAssumption
    <3> QED BY <1>1, <1>8, <1>9, <3>1, <3>2, PendingStay
  <2>2. /\ DecisionHolds(r, g) /\ x.policy[g].status = "would_create"
        /\ x.expected # None => x.expected[g].action = "would_create"
    BY <1>0, <1>1, CurrentDecision DEF Creatable, Unexpected, Changed
  <2>3. bindings[g] = None /\ Absent(r, g, left)
    BY <2>2 DEF DecisionHolds, Absent
  <2>4. \A ws : Absent(r, g, ws)' <=> Absent(r, g, ws)
    BY <1>9, PlatformSame
  <2>5. MakingHolds(r)'
    BY <1>8, <1>9, <2>2, <2>3, <2>4 DEF MakingHolds
  <2> QED BY <1>8, <1>9, <2>1, <2>5 DEF Holder, Filling, Adding
<1> QED BY <1>2, <1>3, <1>5, <1>7, <1>8, <1>10, <1>11, DispatchKeeps DEF new

LEMMA OpenPlanKeeps == ASSUME QInv, NEW r \in Runs, OpenPlan(r) PROVE QInv'
<1>0. PICK g \in Groups : g = Current(r)
  BY Writes DEF OpenPlan
<1> DEFINE x == run[r]
           b == bindings[g]
           left == WorksOf(g) \ x.present[g]
           new == [x EXCEPT !.pc = "append", !.group = g, !.ad = x.policy[g].binding.ad, !.left = left]
<1>1. /\ x \in RunRecord /\ Ordered(r) /\ Ready(r) /\ Appendable(r, g)
      /\ x.todo \in SUBSET Groups /\ g \in x.todo /\ x.group = None /\ x.pc = "groups"
      /\ run' = [run EXCEPT ![r] = new] /\ Local
  BY <1>0, RunFields, Writes DEF OpenPlan, Ready
<1>2. /\ DecisionHolds(r, g) /\ x.policy[g].binding = b /\ x.policy[g].status = "bound" /\ b \in Bindings /\ b.ad \in Ads
  BY <1>0, <1>1, CurrentDecision DEF Appendable, DecisionHolds, Bindings
<1>3. x.present[g] # None /\ left \in SUBSET Works
  BY <1>1 DEF Ordered, Examined, Appendable, WorksOf
<1>4. new \in RunRecord
  <2> DEFINE y == [[x EXCEPT !.pc = "append"] EXCEPT !.group = g]
             z == [y EXCEPT !.ad = b.ad]
  <2>1. new = [z EXCEPT !.left = left]
    BY <1>1, <1>2 DEF RunRecord
  <2>2. [x EXCEPT !.pc = "append"] \in RunRecord
    BY <1>1, RecordMoves DEF Pcs
  <2>3. y \in RunRecord
    BY <2>2, RecordMoves
  <2> HIDE DEF left, y, new
  <2>4. z \in RunRecord
    BY <1>2, <2>3, RecordMoves
  <2> HIDE DEF z
  <2> QED BY <1>3, <2>1, <2>4, RecordMoves
<1>5. /\ new.pc = "append" /\ new.todo = x.todo /\ new.group = g /\ new.ad = b.ad /\ new.request = x.request /\ new.left = left
      /\ new.expected = x.expected /\ new.policy = x.policy /\ new.present = x.present /\ new.unread = x.unread
      /\ new.claimed = x.claimed /\ new.removed = x.removed /\ run'[r] = new
  BY <1>1, <1>2, RunIs DEF RunRecord
<1>6. UNCHANGED <<plans, deleted, items, late, applied, bindings, lock>>
  BY <1>1 DEF Local, platform
<1> HIDE DEF new
<1>7. Ordered(r)'
  <2>1. Carries(r)'
    BY <1>1, <1>2, <1>5 DEF Ordered, Carries, Writing, Making, Filling, Creating, Adding, Deleting, WorksOf
  <2> QED BY <1>1, <1>5, <1>6, <2>1, WritesOn DEF Writing, Filling
<1>8. Holder(r)'
  <2>1. /\ \A h \in PendingGroups(r)' : run'[r].policy[h] # None => DecisionHolds(r, h)'
        /\ Reports(r)' /\ AppliedHolds(r)'
    <3>1. \A h \in x.todo \ {x.group} : bindings'[h] = bindings[h]
      BY <1>6
    <3>2. new.todo \ {new.group} \subseteq x.todo \ {x.group}
      BY <1>0, <1>1, <1>5, NoneAssumption
    <3> QED BY <1>1, <1>5, <1>6, <3>1, <3>2, PendingStay
  <2>2. PresentHolds(r, g, b.ad)
    BY <1>2, <1>3 DEF DecisionHolds
  <2>3. \A a, w : (Kept(a, w)' <=> Kept(a, w)) /\ (Lacks(a, w)' <=> Lacks(a, w))
    BY <1>6, PlatformSame
  <2>4. x.expected # None => b = x.expected[g].binding /\ left \subseteq x.expected[g].write
    BY <1>1, <1>2 DEF Appendable, Unexpected, Changed, MaterialsChanged
  <2>5. /\ \A w \in WorksOf(g) \ left : Kept(b.ad, w)
        /\ \A w \in left : Lacks(b.ad, w)
    BY <2>2 DEF PresentHolds
  <2>6. b # None
    BY <1>2, NoneAssumption
  <2> HIDE DEF left
  <2>7. FillingHolds(r)'
    BY <1>5, <1>6, <2>3, <2>4, <2>5, <2>6 DEF FillingHolds, Sending, WorksOf, Shown
  <2> QED BY <1>5, <2>1, <2>7 DEF Holder, Making, Creating
<1> QED BY <1>1, <1>4, <1>5, <1>7, <1>8, LocalKeeps

LEMMA AppendKeeps == ASSUME QInv, NEW r \in Runs, Append(r) PROVE QInv'
<1> DEFINE x == run[r]
           q == AddOf(r)
           waiting == [x EXCEPT !.pc = "add"]
           new == [waiting EXCEPT !.request = q]
<1>1. /\ x \in RunRecord /\ Ordered(r) /\ Holder(r) /\ lock = r /\ Command[r] \in {"submit", "direct"}
      /\ x.todo \in SUBSET Groups /\ x.group \in x.todo /\ x.group \in Groups /\ x.pc = "append" /\ x.pc \in Writing
  BY RunFields, Writes DEF Append, Writing, Filling
<1>2. /\ x.ad \in Ads /\ x.left \subseteq WorksOf(x.group) /\ FillingHolds(r) /\ Sending(r) = {}
  BY <1>1 DEF Ordered, Carries, Holder, Filling, Sending, Adding
<1>3. CASE x.left = {} /\ Succeed(r) /\ Local
  <2>1. {x.ad} \X WorksOf(x.group) \in SUBSET (Ads \X Works)
    BY <1>2 DEF WorksOf
  <2>2. \A c \in {x.ad} \X WorksOf(x.group) : Shown(r, c[1], c[2])
    BY <1>2, <1>3 DEF FillingHolds
  <2>3. UNCHANGED <<plans, deleted, items, applied, late, outside, bindings, snapshots, lock>> /\ inflight' \in SUBSET inflight
    BY <1>3 DEF Local, platform
  <2> QED BY <1>1, <1>3, <2>1, <2>2, <2>3, FinishKeeps DEF Succeed
<1>4. CASE x.left # {} /\ Dispatch(r, q, waiting)
  <2>1. FirstOf(x.left) \in SUBSET Works /\ x.left \in SUBSET Works
    BY <1>2, FirstOfSome DEF WorksOf
  <2>2. q \in Requests /\ q.kind = "add" /\ q.run = r
    BY <1>2, <2>1 DEF AddOf, Requests
  <2>3. Asks(q)
    BY <1>1, <2>2 DEF Asks
  <2>4. q = [kind |-> "add", run |-> r, ad |-> x.ad, works |-> FirstOf(x.left)]
    BY DEF AddOf
  <2> HIDE DEF q
  <2>5. new \in RunRecord
    <3>1. waiting \in RunRecord
      BY <1>1, RecordMoves DEF Pcs
    <3> HIDE DEF waiting
    <3> QED BY <2>2, <3>1, RecordMoves
  <2>6. /\ new.pc = "add" /\ new.todo = x.todo /\ new.group = x.group /\ new.ad = x.ad /\ new.request = q /\ new.left = x.left
        /\ new.expected = x.expected /\ new.policy = x.policy /\ new.present = x.present /\ new.unread = x.unread
        /\ new.claimed = x.claimed /\ new.removed = x.removed
    BY <1>1 DEF RunRecord
  <2>7. run'[r] = new /\ UNCHANGED <<plans, deleted, items, late, applied, bindings, lock>>
    BY <1>4, RunIs DEF Dispatch
  <2> HIDE DEF new
  <2>8. Ordered(r)'
    <3>1. Carries(r)'
      BY <1>1, <1>2, <1>4, <2>4, <2>6, <2>7 DEF Carries, Writing, Making, Filling, Creating, Adding, Deleting, AddOf, WorksOf
    <3> QED BY <1>1, <2>6, <2>7, <3>1, WritesOn DEF Writing, Filling, Adding
  <2>9. Holder(r)'
    <3>1. /\ \A h \in PendingGroups(r)' : run'[r].policy[h] # None => DecisionHolds(r, h)'
          /\ Reports(r)' /\ AppliedHolds(r)'
      BY <1>1, <2>6, <2>7, PendingStay
    <3>2. \A a, w : (Kept(a, w)' <=> Kept(a, w)) /\ (Lacks(a, w)' <=> Lacks(a, w))
      BY <2>7, PlatformSame
    <3>3. FillingHolds(r)'
      <4>1. ASSUME NEW w \in WorksOf(x.group) \ x.left PROVE Shown(r, x.ad, w)'
        BY <1>2, <2>6, <2>7, <3>2, <4>1, ShownStays DEF FillingHolds, WorksOf
      <4> QED BY <1>2, <2>6, <2>7, <3>2, <4>1 DEF FillingHolds, WorksOf
    <3> QED BY <2>6, <2>7, <3>1, <3>3 DEF Holder, Making, Creating
  <2> QED BY <1>4, <2>2, <2>3, <2>5, <2>6, <2>8, <2>9, DispatchKeeps DEF new
<1> QED BY <1>3, <1>4 DEF Append, AddOf

LEMMA EndRunKeeps == ASSUME QInv, NEW r \in Runs, EndRun(r) PROVE QInv'
BY ReturnKeeps DEF EndRun

-----------------------------------------------------------------------------
(* Answers, and what is read back                                          *)

(* A writing run goes on with its group.                                   *)
LEMMA WriteGoesOn ==
    ASSUME QInv, NEW r \in Runs, NEW new \in RunRecord, run' = [run EXCEPT ![r] = new], Local,
           run[r].pc \in Writing, new.pc \in Writing,
           new.todo = run[r].todo, new.group = run[r].group,
           new.expected = run[r].expected, new.policy = run[r].policy, new.present = run[r].present,
           new.unread = run[r].unread, new.claimed = run[r].claimed, new.removed = run[r].removed,
           Carries(r)', new.pc \in Making => MakingHolds(r)', new.pc \in Filling => FillingHolds(r)'
    PROVE  QInv'
<1>1. run'[r] = new /\ UNCHANGED <<plans, deleted, items, late, applied, bindings, lock>>
  BY RunIs DEF Local, platform
<1>2. Ordered(r)'
  BY <1>1, WritesOn
<1>3. Holder(r)'
  <2>1. /\ \A h \in PendingGroups(r)' : run'[r].policy[h] # None => DecisionHolds(r, h)'
        /\ Reports(r)' /\ AppliedHolds(r)'
    BY <1>1, PendingStay
  <2>2. new.pc \notin {"decide", "put"}
    BY DEF Writing, Making, Filling, Creating, Adding
  <2> QED BY <1>1, <2>1, <2>2 DEF Holder
<1>4. new.pc \notin {"idle", "lock"}
  BY DEF Writing, Making, Filling, Creating, Adding
<1> QED BY <1>2, <1>3, <1>4, LocalKeeps

LEMMA FailGroupKeeps ==
    ASSUME QInv, NEW r \in Runs, FailGroup(r), run[r].pc \in Writing,
           UNCHANGED <<plans, deleted, items, applied, late, outside, bindings, snapshots, lock>>,
           inflight' \in SUBSET inflight
    PROVE  QInv'
<1>1. {} \in SUBSET (Ads \X Works)
  OBVIOUS
<1> QED BY <1>1, FinishKeeps DEF FailGroup

(* The missing works of a batch are in the plan now.                       *)
LEMMA BatchDone ==
    ASSUME QInv, NEW r \in Runs, run[r].pc \in Adding, Local,
           run' = [run EXCEPT ![r].pc = "append", ![r].left = @ \ run[r].request.works, ![r].request = None],
           \A w \in run[r].request.works : Kept(run[r].ad, w)
    PROVE  QInv'
<1> DEFINE x == run[r]
           left == x.left \ x.request.works
           y == [[x EXCEPT !.pc = "append"] EXCEPT !.left = left]
           new == [y EXCEPT !.request = None]
<1>1. /\ x \in RunRecord /\ Ordered(r) /\ Holder(r) /\ x.pc \in Writing
      /\ run' = [run EXCEPT ![r] = new]
  BY RunFields, Writes DEF Writing, Filling
<1>2. /\ x.request = AddOf(r) /\ x.left \subseteq WorksOf(x.group) /\ x.ad \in Ads /\ FillingHolds(r)
  BY <1>1 DEF Ordered, Carries, Holder, Filling, Adding
<1>3. x.request.works = FirstOf(x.left)
  BY <1>2 DEF AddOf
<1>4. left \in SUBSET Works
  BY <1>1 DEF RunRecord
<1>5. new \in RunRecord
  <2>1. [x EXCEPT !.pc = "append"] \in RunRecord
    BY <1>1, RecordMoves DEF Pcs
  <2>2. y \in RunRecord
    BY <1>4, <2>1, RecordMoves
  <2> HIDE DEF y
  <2> QED BY <2>2, RecordMoves
<1>6. /\ new.pc = "append" /\ new.left = left /\ new.request = None /\ new.ad = x.ad
      /\ new.todo = x.todo /\ new.group = x.group
      /\ new.expected = x.expected /\ new.policy = x.policy /\ new.present = x.present
      /\ new.unread = x.unread /\ new.claimed = x.claimed /\ new.removed = x.removed
  BY <1>1 DEF RunRecord
<1> HIDE DEF new, y
<1>7. run'[r] = new /\ UNCHANGED <<plans, deleted, items, late, applied, bindings>>
  BY <1>1, RunIs DEF Local, platform
<1>8. Carries(r)'
  BY <1>1, <1>2, <1>6, <1>7 DEF Ordered, Carries, Writing, Making, Filling, Creating, Adding, Deleting, WorksOf
<1>9. FillingHolds(r)'
  <2>1. \A a, w : (Kept(a, w)' <=> Kept(a, w)) /\ (Lacks(a, w)' <=> Lacks(a, w))
    BY <1>7, PlatformSame
  <2>2. \A w \in WorksOf(x.group) \ left : Shown(r, x.ad, w)
    BY <1>2 DEF FillingHolds, Shown
  <2>3. \A w \in left : Lacks(x.ad, w)
    BY <1>2, <1>3 DEF FillingHolds, Sending
  <2>4. x.expected # None => left \subseteq x.expected[x.group].write
    BY <1>2 DEF FillingHolds
  <2>5. Sending(r)' = {}
    BY <1>6, <1>7 DEF Sending, Adding
  <2>6. x.expected # None => bindings[x.group] = x.expected[x.group].binding \/ bindings[x.group].by = r
    BY <1>2 DEF FillingHolds
  <2>7. bindings[x.group] # None /\ bindings[x.group].ad = x.ad
    BY <1>2 DEF FillingHolds
  <2> HIDE DEF left
  <2>8. /\ \A w \in WorksOf(x.group) \ left : Shown(r, x.ad, w)'
        /\ \A w \in left : Lacks(x.ad, w)'
    <3>1. ASSUME NEW w \in WorksOf(x.group) \ left PROVE Shown(r, x.ad, w)'
      BY <1>6, <1>7, <2>1, <2>2, <3>1, ShownStays DEF WorksOf
    <3> QED BY <1>6, <1>7, <2>1, <2>3, <3>1
  <2> QED BY <1>6, <1>7, <2>4, <2>5, <2>6, <2>7, <2>8 DEF FillingHolds, WorksOf
<1> QED BY <1>1, <1>5, <1>6, <1>8, <1>9, WriteGoesOn DEF Writing, Filling, Making, Creating

(* A created plan, or one taken for it, is to be verified.                 *)
LEMMA PlanFound ==
    ASSUME QInv, NEW r \in Runs, run[r].pc \in Creating, Local, NEW a \in Ads,
           run' = [run EXCEPT ![r].pc = "verify", ![r].ad = a, ![r].request = None]
    PROVE  QInv'
<1> DEFINE x == run[r]
           y == [[x EXCEPT !.pc = "verify"] EXCEPT !.ad = a]
           new == [y EXCEPT !.request = None]
<1>1. /\ x \in RunRecord /\ Ordered(r) /\ Holder(r) /\ x.pc \in Writing
      /\ run' = [run EXCEPT ![r] = new]
  BY RunFields, Writes DEF Writing, Making
<1>2. x.left = WorksOf(x.group) \ FirstOf(WorksOf(x.group)) /\ MakingHolds(r) /\ x.pc # "bind"
  BY <1>1 DEF Ordered, Carries, Holder, Making, Creating
<1>3. new \in RunRecord
  <2>1. [x EXCEPT !.pc = "verify"] \in RunRecord
    BY <1>1, RecordMoves DEF Pcs
  <2>2. y \in RunRecord
    BY <2>1, RecordMoves
  <2> HIDE DEF y
  <2> QED BY <2>2, RecordMoves
<1>4. /\ new.pc = "verify" /\ new.left = x.left /\ new.request = None /\ new.ad = a
      /\ new.todo = x.todo /\ new.group = x.group
      /\ new.expected = x.expected /\ new.policy = x.policy /\ new.present = x.present
      /\ new.unread = x.unread /\ new.claimed = x.claimed /\ new.removed = x.removed
  BY <1>1 DEF RunRecord
<1> HIDE DEF new, y
<1>5. run'[r] = new /\ UNCHANGED <<plans, deleted, items, late, applied, bindings>>
  BY <1>1, RunIs DEF Local, platform
<1>6. Carries(r)'
  <2>1. x.group \in x.todo
    BY <1>1 DEF Ordered, Carries
  <2> QED BY <1>2, <1>4, <1>5, <2>1 DEF Carries, Writing, Making, Filling, Creating, Adding, Deleting
<1>7. MakingHolds(r)'
  <2>1. \A g, ws : Absent(r, g, ws)' <=> Absent(r, g, ws)
    BY <1>5, PlatformSame
  <2> QED BY <1>2, <1>4, <1>5, <2>1 DEF MakingHolds
<1> QED BY <1>1, <1>3, <1>4, <1>6, <1>7, WriteGoesOn DEF Writing, Filling, Making, Adding

(* A write whose answer is lost is looked up.                              *)
LEMMA WriteLookedUp ==
    ASSUME QInv, NEW r \in Runs, Local, run[r].pc \in {"create", "add"},
           run' = [run EXCEPT ![r].pc = IF run[r].pc = "create" THEN "reconcile" ELSE "readback"]
    PROVE  QInv'
<1> DEFINE x == run[r]
           next == IF x.pc = "create" THEN "reconcile" ELSE "readback"
           new == [x EXCEPT !.pc = next]
<1>1. /\ x \in RunRecord /\ Ordered(r) /\ Holder(r) /\ x.pc \in Writing
      /\ run' = [run EXCEPT ![r] = new]
  BY RunFields, Writes DEF Writing, Making, Creating, Filling, Adding
<1>2. next \in Pcs /\ (next = "reconcile" <=> x.pc = "create") /\ (next = "readback" <=> x.pc = "add")
  BY DEF Pcs
<1> HIDE DEF next
<1>3. new \in RunRecord
  BY <1>1, <1>2, RecordMoves
<1>4. /\ new.pc = next /\ new.left = x.left /\ new.request = x.request /\ new.ad = x.ad
      /\ new.todo = x.todo /\ new.group = x.group
      /\ new.expected = x.expected /\ new.policy = x.policy /\ new.present = x.present
      /\ new.unread = x.unread /\ new.claimed = x.claimed /\ new.removed = x.removed
  BY <1>1 DEF RunRecord
<1> HIDE DEF new
<1>5. run'[r] = new /\ UNCHANGED <<plans, deleted, items, late, applied, bindings>>
  BY <1>1, RunIs DEF Local, platform
<1>6. Carries(r)'
  <2>1. CASE x.pc = "create"
    BY <1>1, <1>2, <1>4, <1>5, <2>1 DEF Ordered, Carries, Writing, Making, Filling, Creating, Adding, Deleting, CreateOf
  <2>2. CASE x.pc = "add"
    BY <1>1, <1>2, <1>4, <1>5, <2>2 DEF Ordered, Carries, Writing, Making, Filling, Creating, Adding, Deleting, AddOf, WorksOf
  <2> QED BY <2>1, <2>2
<1>7. \A a, w : (Kept(a, w)' <=> Kept(a, w)) /\ (Lacks(a, w)' <=> Lacks(a, w))
  BY <1>5, PlatformSame
<1>8. \A g, ws : Absent(r, g, ws)' <=> Absent(r, g, ws)
  BY <1>5, PlatformSame
<1>9. CASE x.pc = "create"
  <2>1. MakingHolds(r)
    BY <1>1, <1>9 DEF Holder, Making, Creating
  <2>2. MakingHolds(r)'
    BY <1>2, <1>4, <1>5, <1>8, <1>9, <2>1 DEF MakingHolds
  <2> QED BY <1>1, <1>2, <1>3, <1>4, <1>6, <1>9, <2>2, WriteGoesOn DEF Writing, Filling, Making, Creating, Adding
<1>10. CASE x.pc = "add"
  <2>1. FillingHolds(r) /\ Sending(r)' = Sending(r)
    BY <1>1, <1>2, <1>4, <1>5, <1>10 DEF Holder, Filling, Adding, Sending
  <2>2. FillingHolds(r)'
    <3>1. ASSUME NEW w \in WorksOf(x.group) \ x.left PROVE Shown(r, x.ad, w)'
      BY <1>4, <1>5, <1>7, <2>1, <3>1, ShownStays DEF FillingHolds, WorksOf
    <3> QED BY <1>4, <1>5, <1>7, <2>1, <3>1 DEF FillingHolds, WorksOf
  <2> QED BY <1>1, <1>2, <1>3, <1>4, <1>6, <1>10, <2>2, WriteGoesOn DEF Writing, Filling, Making, Creating, Adding
<1> QED BY <1>9, <1>10

(* A removal that was answered, or not, is checked.                        *)
LEMMA RemovalSent ==
    ASSUME QInv, NEW r \in Runs, Local, run[r].pc = "delete", run' = [run EXCEPT ![r].pc = "recheck"]
    PROVE  QInv'
<1> DEFINE x == run[r]
           new == [x EXCEPT !.pc = "recheck"]
<1>1. x \in RunRecord /\ Ordered(r) /\ run' = [run EXCEPT ![r] = new]
  BY RunFields
<1>2. new \in RunRecord
  BY <1>1, RecordMoves DEF Pcs
<1>3. /\ new.pc = "recheck" /\ new.request = x.request /\ new.todo = x.todo /\ new.group = x.group
      /\ new.expected = x.expected /\ new.policy = x.policy /\ new.present = x.present
      /\ new.claimed = x.claimed /\ new.removed = x.removed
  BY <1>1 DEF RunRecord
<1> HIDE DEF new
<1>4. run'[r] = new /\ UNCHANGED <<plans, deleted, items, late, applied, bindings, lock>>
  BY <1>1, RunIs DEF Local, platform
<1>5. Ordered(r)'
  <2>1. Placed(r)'
    BY <1>1, <1>3, <1>4 DEF Ordered, Placed, Off, Looks, Writing, Making, Filling, Creating, Adding, Deleting
  <2>2. Carries(r)'
    BY <1>1, <1>3, <1>4 DEF Ordered, Carries, Writing, Making, Filling, Creating, Adding, Deleting
  <2>3. Expects(r)' /\ Examined(r)'
    BY <1>1, <1>3, <1>4 DEF Ordered, Expects, Announced, Examined, Writing, Making, Filling, Creating, Adding
  <2> QED BY <2>1, <2>2, <2>3 DEF Ordered
<1>6. ASSUME lock = r PROVE Holder(r)'
  <2>1. Holder(r) /\ PendingGroups(r)' = PendingGroups(r)
    BY <1>3, <1>4, <1>6, RunFields DEF PendingGroups
  <2>2. /\ \A g \in PendingGroups(r)' : run'[r].policy[g] # None => DecisionHolds(r, g)'
        /\ Reports(r)' /\ AppliedHolds(r)'
    BY <1>3, <1>4, <2>1, HolderRest, RunFields
  <2> QED BY <1>3, <1>4, <2>2 DEF Holder, Making, Filling, Creating, Adding
<1> QED BY <1>1, <1>2, <1>3, <1>5, <1>6, LocalKeeps

LEMMA AcknowledgeKeeps == ASSUME QInv, NEW r \in Runs, Acknowledge(r) PROVE QInv'
<1> DEFINE x == run[r]
<1>0. Ordered(r) /\ x \in RunRecord /\ Local /\ x.request \in applied
  BY RunFields DEF Acknowledge
<1>1. CASE x.pc = "create"
  <2>1. x.request.ad \in Ads
    BY <1>0, RequestTypes DEF QInv, Typed
  <2>2. run' = [run EXCEPT ![r].pc = "verify", ![r].ad = x.request.ad, ![r].request = None]
    BY <1>1 DEF Acknowledge
  <2> QED BY <1>0, <1>1, <2>1, <2>2, PlanFound DEF Creating
<1>2. CASE x.pc = "add"
  <2>1. Holder(r) /\ x.request = AddOf(r)
    BY <1>0, <1>2, Writes DEF Writing, Filling, Adding, Ordered, Carries
  <2>2. \A w \in x.request.works : Kept(x.ad, w)
    BY <1>0, <2>1 DEF Holder, AppliedHolds, AddOf
  <2>3. run' = [run EXCEPT ![r].pc = "append", ![r].left = @ \ x.request.works, ![r].request = None]
    BY <1>2 DEF Acknowledge
  <2> QED BY <1>0, <1>2, <2>2, <2>3, BatchDone DEF Adding
<1>3. CASE x.pc = "delete" /\ run' = [run EXCEPT ![r].pc = "recheck"]
  BY <1>0, <1>3, RemovalSent
<1> QED BY <1>1, <1>2, <1>3 DEF Acknowledge

LEMMA RefuseKeeps == ASSUME QInv, NEW r \in Runs, Refuse(r) PROVE QInv'
<1>1. inflight' \in SUBSET inflight /\ UNCHANGED <<plans, deleted, items, applied, late, outside, bindings, snapshots>>
  BY DEF Refuse
<1>2. CASE run[r].pc = "delete"
  <2>1. lock = r
    BY <1>2, RunFields, RunAssumption DEF Ordered, Placed, Off, Deleting
  <2>2. run' = [run EXCEPT ![r] = Ended] /\ lock' = None
    BY <1>2 DEF Refuse
  <2>3. bindings' \in [Groups -> Bindings \cup {None}] /\ snapshots' \in [Runs -> [Groups -> Expectations] \cup {None}]
    BY <1>1 DEF QInv, Typed
  <2>4. Bound' /\ Snapshotted'
    BY <1>1 DEF QInv, Settled, Bound, Snapshotted, Announced
  <2> QED BY <1>1, <2>1, <2>2, <2>3, <2>4, RunEndsWell
<1>3. CASE run[r].pc # "delete"
  <2>1. run[r].pc \in Writing /\ FailGroup(r) /\ lock' = lock
    BY <1>3 DEF Refuse, Writing, Making, Creating, Filling, Adding
  <2> QED BY <1>1, <2>1, FailGroupKeeps
<1> QED BY <1>2, <1>3

LEMMA UnknownKeeps == ASSUME QInv, NEW r \in Runs, Unknown(r) PROVE QInv'
<1>1. CASE run[r].pc = "delete"
  BY <1>1, RemovalSent DEF Unknown
<1>2. CASE run[r].pc \in {"create", "add"}
  <2>1. run' = [run EXCEPT ![r].pc = IF run[r].pc = "create" THEN "reconcile" ELSE "readback"] /\ Local
    BY <1>2 DEF Unknown
  <2> QED BY <1>2, <2>1, WriteLookedUp
<1> QED BY <1>1, <1>2 DEF Unknown

(* What Local leaves alone, as FailGroup needs it.                         *)
LEMMA LocalRest ==
    ASSUME Local
    PROVE  /\ UNCHANGED <<plans, deleted, items, applied, late, outside, bindings, snapshots, lock>>
           /\ inflight' \in SUBSET inflight
BY DEF Local, platform

LEMMA ReconcileKeeps == ASSUME QInv, NEW r \in Runs, Reconcile(r) PROVE QInv'
<1>1. run[r].pc \in Creating /\ run[r].pc \in Writing /\ Local
  BY DEF Reconcile, Writing, Making, Creating
<1>2. ASSUME NEW a \in Live, run' = [run EXCEPT ![r].pc = "verify", ![r].ad = a, ![r].request = None] PROVE QInv'
  <2>1. a \in Ads
    BY DEF Live, QInv, Typed
  <2> QED BY <1>1, <1>2, <2>1, PlanFound
<1>3. CASE FailGroup(r)
  BY <1>1, <1>3, LocalRest, FailGroupKeeps
<1> QED BY <1>2, <1>3 DEF Reconcile

LEMMA VerifyKeeps == ASSUME QInv, NEW r \in Runs, Verify(r) PROVE QInv'
<1> DEFINE x == run[r]
           new == [x EXCEPT !.pc = "bind"]
<1>1. /\ x \in RunRecord /\ Ordered(r) /\ Holder(r) /\ x.pc = "verify" /\ x.pc \in Writing /\ Local /\ x.group \in Groups
  BY RunFields, Writes DEF Verify, Writing, Making
<1>2. CASE FailGroup(r)
  BY <1>1, <1>2, LocalRest, FailGroupKeeps
<1>3. CASE x.ad \in Live /\ Exact(x.ad, x.group) /\ Name[x.ad.source] = Name[x.group] /\ run' = [run EXCEPT ![r] = new]
  <2>1. x.left = WorksOf(x.group) \ FirstOf(WorksOf(x.group)) /\ MakingHolds(r) /\ x.ad \in Ads
    BY <1>1 DEF Ordered, Carries, Holder, Making, Creating
  <2>2. new \in RunRecord
    BY <1>1, RecordMoves DEF Pcs
  <2>3. /\ new.pc = "bind" /\ new.left = x.left /\ new.request = x.request /\ new.ad = x.ad
        /\ new.todo = x.todo /\ new.group = x.group
        /\ new.expected = x.expected /\ new.policy = x.policy /\ new.present = x.present
        /\ new.unread = x.unread /\ new.claimed = x.claimed /\ new.removed = x.removed
    BY <1>1 DEF RunRecord
  <2> HIDE DEF new
  <2>4. run'[r] = new /\ UNCHANGED <<plans, deleted, items, late, applied, bindings>>
    BY <1>1, <1>3, RunIs DEF Local, platform
  <2>5. Carries(r)'
    BY <1>1, <2>1, <2>3, <2>4 DEF Ordered, Carries, Writing, Making, Filling, Creating, Adding, Deleting, WorksOf
  <2>6. MakingHolds(r)'
    <3>1. Absent(r, x.group, x.left)
      BY <1>1, <2>1 DEF MakingHolds
    <3>2. x.ad.source \in Sources /\ x.ad \in plans
      BY <1>3, <2>1, RequestTypes DEF Live
    <3>3. x.ad.source = x.group => Whole(x.group)
      BY <1>1, <1>3 DEF Exact, ProductsOf, Whole
    <3>4. x.ad.source = x.group => \A w \in FirstOf(WorksOf(x.group)) : Kept(x.ad, w)
      BY <1>3, <3>1, <3>3 DEF Absent
    <3>5. \A w \in x.left : Lacks(x.ad, w)
      BY <1>3, <3>1 DEF Absent
    <3>6. \A a, w : (Kept(a, w)' <=> Kept(a, w)) /\ (Lacks(a, w)' <=> Lacks(a, w))
      BY <2>4, PlatformSame
    <3>7. /\ x.ad.source = x.group => \A w \in FirstOf(WorksOf(x.group)) : Kept(x.ad, w)'
          /\ \A w \in x.left : Lacks(x.ad, w)'
      BY <2>3, <2>4, <3>4, <3>5, <3>6
    <3>8. /\ bindings[x.group] = None
          /\ x.expected # None => x.expected[x.group].action = "would_create"
      BY <2>1 DEF MakingHolds
    <3> QED BY <1>3, <2>3, <2>4, <3>2, <3>7, <3>8 DEF MakingHolds
  <2> QED BY <1>1, <1>3, <2>2, <2>3, <2>5, <2>6, WriteGoesOn DEF Writing, Filling, Making, Adding
<1> QED BY <1>2, <1>3 DEF Verify

LEMMA ReadbackKeeps == ASSUME QInv, NEW r \in Runs, Readback(r) PROVE QInv'
<1>1. run[r].pc \in Adding /\ run[r].pc \in Writing /\ Local
  BY DEF Readback, Writing, Filling, Adding
<1>2. CASE FailGroup(r)
  BY <1>1, <1>2, LocalRest, FailGroupKeeps
<1>3. CASE /\ run[r].request.works \subseteq items[run[r].ad]
           /\ run' = [run EXCEPT ![r].pc = "append", ![r].left = @ \ run[r].request.works, ![r].request = None]
  BY <1>1, <1>3, BatchDone DEF Kept
<1> QED BY <1>2, <1>3 DEF Readback

(* A binding made by hand, or of a plan verified for its group, is sound.  *)
LEMMA PutSound ==
    ASSUME QInv, NEW r \in Runs, NEW g \in Groups, NEW a \in plans, Put(g, a, r), plans' = plans, Exact(a, g)
    PROVE  /\ bindings' \in [Groups -> Bindings \cup {None}] /\ Bound'
           /\ bindings'[g] = [ad |-> a, by |-> r] /\ \A h \in Groups : h # g => bindings'[h] = bindings[h]
<1>1. bindings' = [bindings EXCEPT ![g] = [ad |-> a, by |-> r]] /\ bindings \in [Groups -> Bindings \cup {None}]
  BY DEF Put, QInv, Typed
<1>2. [ad |-> a, by |-> r] \in Bindings
  BY DEF QInv, Typed, Bindings
<1>3. bindings'[g] = [ad |-> a, by |-> r] /\ \A h \in Groups : h # g => bindings'[h] = bindings[h]
  BY <1>1
<1>4. bindings' \in [Groups -> Bindings \cup {None}]
  BY <1>1, <1>2
<1>5. ASSUME NEW h \in Groups, bindings'[h] # None
      PROVE  bindings'[h].ad \in plans' /\ Exact(bindings'[h].ad, h)
  <2>1. CASE h = g
    BY <1>3, <2>1
  <2>2. CASE h # g
    BY <1>3, <1>5, <2>2 DEF QInv, Settled, Bound
  <2> QED BY <2>1, <2>2
<1>6. Bound'
  BY <1>5 DEF Bound, Exact, ProductsOf
<1> QED BY <1>3, <1>4, <1>6

LEMMA BindKeeps == ASSUME QInv, NEW r \in Runs, Bind(r) PROVE QInv'
<1>0. PICK g \in Groups : g = run[r].group
  BY Writes DEF Bind, Writing, Making
<1> DEFINE x == run[r]
           new == [x EXCEPT !.pc = "append"]
<1>1. /\ x \in RunRecord /\ Ordered(r) /\ Holder(r) /\ x.pc = "bind" /\ x.pc \in Writing /\ lock = r
      /\ UNCHANGED <<plans, deleted, items, inflight, applied, late, outside, snapshots, lock>>
      /\ Command[r] \in {"submit", "direct"} /\ x.todo \in SUBSET Groups /\ g \in x.todo
  BY <1>0, RunFields, Writes DEF Bind, platform, Writing, Making
<1>2. CASE FailGroup(r) /\ UNCHANGED bindings
  <2>1. inflight' \in SUBSET inflight
    BY <1>1
  <2> QED BY <1>1, <1>2, <2>1, FailGroupKeeps
<1>3. CASE Put(g, x.ad, r) /\ run' = [run EXCEPT ![r] = new]
  <2>1. PICK a \in Ads : a = x.ad
    BY <1>1 DEF Ordered, Carries
  <2>2. x.left = WorksOf(g) \ FirstOf(WorksOf(g)) /\ MakingHolds(r) /\ x.request = None
    BY <1>0, <1>1 DEF Ordered, Carries, Holder, Making, Creating, Adding, Deleting
  <2>3. /\ a \in plans /\ Exact(a, g)
        /\ a.source = g => \A w \in FirstOf(WorksOf(g)) : Kept(a, w)
        /\ \A w \in x.left : Lacks(a, w)
        /\ x.expected # None => x.expected[g].action = "would_create"
    BY <1>0, <1>1, <2>1, <2>2 DEF MakingHolds
  <2>4. /\ bindings' \in [Groups -> Bindings \cup {None}] /\ Bound'
        /\ bindings'[g] = [ad |-> a, by |-> r] /\ \A h \in Groups : h # g => bindings'[h] = bindings[h]
    BY <1>1, <1>3, <2>1, <2>3, PutSound
  <2>5. new \in RunRecord
    BY <1>1, RecordMoves DEF Pcs
  <2>6. /\ new.pc = "append" /\ new.left = x.left /\ new.request = None /\ new.ad = a
        /\ new.todo = x.todo /\ new.group = g
        /\ new.expected = x.expected /\ new.policy = x.policy /\ new.present = x.present
        /\ new.unread = x.unread /\ new.claimed = x.claimed /\ new.removed = x.removed
    BY <1>0, <1>1, <2>1, <2>2 DEF RunRecord
  <2> HIDE DEF new
  <2>7. run'[r] = new
    BY <1>3, RunIs
  <2>8. Carries(r)'
    BY <1>0, <1>1, <2>2, <2>6, <2>7 DEF Carries, Writing, Making, Filling, Creating, Adding, Deleting, WorksOf
  <2>9. Ordered(r)'
    BY <1>1, <2>6, <2>7, <2>8, WritesOn DEF Writing, Filling
  <2>10. FillingHolds(r)'
    <3>1. \A b, w : (Kept(b, w)' <=> Kept(b, w)) /\ (Lacks(b, w)' <=> Lacks(b, w))
      BY <1>1, PlatformSame
    <3>2. x.expected # None => x.left \subseteq x.expected[g].write
      BY <1>1, <2>2, <2>3 DEF Ordered, Expects, Announced
    <3>3. Sending(r)' = {}
      BY <2>6, <2>7 DEF Sending, Adding
    <3>4. bindings'[g] # None /\ bindings'[g].ad = a /\ bindings'[g].by = r
      <4>1. [ad |-> a, by |-> r] \in Bindings
        BY DEF Bindings
      <4> QED BY <2>4, <4>1, NoneAssumption
    <3>5. ASSUME NEW w \in WorksOf(g) \ x.left PROVE Shown(r, a, w)'
      <4>1. w \in FirstOf(WorksOf(g)) /\ GroupOf[w] = g
        BY <2>2 DEF WorksOf
      <4>2. CASE a.source = g
        BY <2>3, <3>1, <4>1, <4>2 DEF Shown
      <4>3. CASE a.source # g
        BY <3>4, <4>1, <4>3 DEF Shown, Skipped, FirstOf, WorksOf
      <4> QED BY <4>2, <4>3
    <3> QED BY <2>3, <2>6, <2>7, <3>1, <3>2, <3>3, <3>4, <3>5 DEF FillingHolds, WorksOf
  <2>11. Holder(r)'
    <3>1. \A h \in x.todo \ {x.group} : bindings'[h] = bindings[h]
      BY <1>0, <1>1, <2>4
    <3>4. \A h \in Groups : bindings[h] # None => bindings'[h] = bindings[h]
      BY <1>0, <2>2, <2>4 DEF MakingHolds
    <3>2. /\ \A h \in PendingGroups(r)' : run'[r].policy[h] # None => DecisionHolds(r, h)'
          /\ Reports(r)' /\ AppliedHolds(r)'
      BY <1>0, <1>1, <2>6, <2>7, <3>1, <3>4, PendingStay
    <3> QED BY <2>6, <2>7, <2>10, <3>2 DEF Holder, Making, Creating
  <2>12. /\ inflight' \in SUBSET Requests /\ inflight' \ inflight = {} /\ lock' \in Runs \cup {None} /\ lock' = r
         /\ snapshots' \in [Runs -> [Groups -> Expectations] \cup {None}] /\ Snapshotted'
    BY <1>1 DEF QInv, Typed, Settled, Snapshotted, Announced
  <2> QED BY <1>1, <1>3, <2>4, <2>5, <2>6, <2>9, <2>11, <2>12, RunMoves
<1> QED BY <1>0, <1>2, <1>3 DEF Bind

-----------------------------------------------------------------------------
(* By hand                                                                 *)

LEMMA ByHand ==
    ASSUME QInv, NEW r \in Runs, run[r].pc \in {"read", "audit", "put"} \cup Deleting
    PROVE  /\ Ordered(r) /\ Holder(r) /\ lock = r /\ run[r] \in RunRecord
           /\ Command[r] = (IF run[r].pc \in {"audit", "put"} THEN "bind" ELSE "remove")
           /\ run[r].todo = {} /\ run[r].claimed = {} /\ run[r].expected = None
           /\ run[r].pc # "put" => run[r].group = None
<1>1. Ordered(r) /\ run[r] \in RunRecord /\ (lock = r => Holder(r))
  BY RunFields
<1>2. Command[r] = (IF run[r].pc \in {"audit", "put"} THEN "bind" ELSE "remove") /\ lock = r
      /\ run[r].todo = {} /\ run[r].claimed = {} /\ run[r].expected = None
  BY <1>1 DEF Ordered, Placed, Expects, Off, Deleting
<1>3. run[r].pc # "put" => run[r].group = None
  BY <1>1 DEF Ordered, Carries, Writing, Making, Filling, Creating, Adding, Deleting
<1> QED BY <1>1, <1>2, <1>3

LEMMA ReadKeeps == ASSUME QInv, NEW r \in Runs, Read(r) PROVE QInv'
<1> DEFINE x == run[r]
           waiting == [x EXCEPT !.pc = "delete"]
<1>1. /\ Ordered(r) /\ Holder(r) /\ lock = r /\ x \in RunRecord /\ x.pc = "read" /\ Command[r] = "remove"
      /\ x.todo = {} /\ x.claimed = {} /\ x.expected = None /\ x.group = None
  BY ByHand DEF Read
<1>2. CASE Return(r)
  BY <1>2, ReturnKeeps
<1>3. ASSUME NEW a \in Live, NEW w \in Works,
             Dispatch(r, [kind |-> "delete", run |-> r, ad |-> a, works |-> {w}], waiting)
      PROVE  QInv'
  <2> DEFINE q == [kind |-> "delete", run |-> r, ad |-> a, works |-> {w}]
             new == [waiting EXCEPT !.request = q]
  <2>1. q \in Requests /\ q.kind = "delete" /\ q.run = r
    BY DEF Requests, Live, QInv, Typed
  <2>2. Asks(q)
    BY <1>1, <2>1 DEF Asks
  <2>3. Dispatch(r, q, waiting)
    BY <1>3
  <2> HIDE DEF q
  <2>4. new \in RunRecord
    <3>1. waiting \in RunRecord
      BY <1>1, RecordMoves DEF Pcs
    <3> HIDE DEF waiting
    <3> QED BY <2>1, <3>1, RecordMoves
  <2>5. /\ new.pc = "delete" /\ new.request = q /\ new.todo = {} /\ new.group = None /\ new.expected = None
        /\ new.policy = x.policy /\ new.present = x.present /\ new.claimed = x.claimed /\ new.removed = x.removed
    BY <1>1 DEF RunRecord
  <2>6. run'[r] = new /\ UNCHANGED <<plans, deleted, items, late, applied, bindings, lock>>
    BY <2>3, RunIs DEF Dispatch
  <2> HIDE DEF new
  <2>7. Ordered(r)'
    <3>1. Placed(r)'
      BY <1>1, <2>5, <2>6 DEF Ordered, Placed, Off, Looks, Writing, Making, Filling, Creating, Adding, Deleting
    <3>2. Carries(r)'
      BY <2>1, <2>5, <2>6 DEF Carries, Writing, Making, Filling, Creating, Adding, Deleting
    <3>3. Expects(r)' /\ Examined(r)'
      BY <1>1, <2>5, <2>6 DEF Ordered, Expects, Announced, Examined, Writing, Making, Filling, Creating, Adding
    <3> QED BY <3>1, <3>2, <3>3 DEF Ordered
  <2>8. Holder(r)'
    <3>1. PendingGroups(r)' = {}
      BY <2>5, <2>6 DEF PendingGroups
    <3>2. Reports(r)' /\ AppliedHolds(r)'
      BY <1>1, <2>5, <2>6, <3>1, HolderRest
    <3> QED BY <2>5, <2>6, <3>1, <3>2 DEF Holder, Making, Filling, Creating, Adding
  <2> QED BY <2>1, <2>2, <2>3, <2>4, <2>5, <2>7, <2>8, DispatchKeeps DEF new
<1> QED BY <1>2, <1>3 DEF Read

LEMMA RecheckKeeps == ASSUME QInv, NEW r \in Runs, Recheck(r) PROVE QInv'
<1>0. PICK q \in Requests : q = run[r].request
  BY RunFields DEF Recheck, Ordered, Carries, Deleting
<1> DEFINE x == run[r]
           removed == IF q.works \cap items[q.ad] = {} THEN {q.ad} \X q.works ELSE {}
           new == [x EXCEPT !.pc = "groups", !.request = None, !.removed = removed]
<1>1. /\ Ordered(r) /\ Holder(r) /\ lock = r /\ x \in RunRecord /\ x.pc = "recheck" /\ Command[r] = "remove"
      /\ x.todo = {} /\ x.claimed = {} /\ x.expected = None /\ x.group = None
      /\ run' = [run EXCEPT ![r] = new] /\ Local
  BY <1>0, ByHand DEF Recheck, Deleting
<1>2. removed \in SUBSET (Ads \X Works) /\ \A c \in removed : Lacks(c[1], c[2])
  BY RequestTypes DEF Lacks
<1> HIDE DEF removed
<1>3. new \in RunRecord
  <2> DEFINE y == [[x EXCEPT !.pc = "groups"] EXCEPT !.request = None]
  <2>1. [x EXCEPT !.pc = "groups"] \in RunRecord
    BY <1>1, RecordMoves DEF Pcs
  <2>2. y \in RunRecord
    BY <2>1, RecordMoves
  <2>3. new = [y EXCEPT !.removed = removed]
    BY <1>1 DEF RunRecord
  <2> HIDE DEF y, new
  <2>4. [y EXCEPT !.removed = removed] \in RunRecord
    BY <1>2, <2>2 DEF RunRecord
  <2> QED BY <2>3, <2>4
<1>4. /\ new.pc = "groups" /\ new.request = None /\ new.todo = {} /\ new.group = None /\ new.expected = None
      /\ new.policy = x.policy /\ new.present = x.present /\ new.claimed = {} /\ new.removed = removed
  BY <1>1 DEF RunRecord
<1> HIDE DEF new
<1>5. run'[r] = new /\ UNCHANGED <<plans, deleted, items, late, applied, bindings, lock>>
  BY <1>1, RunIs DEF Local, platform
<1>6. Ordered(r)'
  <2>1. Placed(r)'
    BY <1>1, <1>4, <1>5 DEF Ordered, Placed, Off, Looks, Writing, Making, Filling, Creating, Adding, Deleting
  <2>2. Carries(r)'
    BY <1>4, <1>5 DEF Carries, Writing, Making, Filling, Creating, Adding, Deleting
  <2>3. Expects(r)' /\ Examined(r)'
    BY <1>1, <1>4, <1>5 DEF Ordered, Expects, Announced, Examined, Writing, Making, Filling, Creating, Adding
  <2> QED BY <2>1, <2>2, <2>3 DEF Ordered
<1>7. Holder(r)'
  <2>1. PendingGroups(r)' = {}
    BY <1>4, <1>5 DEF PendingGroups
  <2>2. \A a, w : (Kept(a, w)' <=> Kept(a, w)) /\ (Lacks(a, w)' <=> Lacks(a, w))
    BY <1>5, PlatformSame
  <2>3. Reports(r)' /\ AppliedHolds(r)'
    BY <1>1, <1>2, <1>4, <1>5, <2>2 DEF Holder, Reports, AppliedHolds
  <2> QED BY <1>4, <1>5, <2>1, <2>3 DEF Holder, Making, Filling, Creating, Adding
<1> QED BY <1>1, <1>3, <1>4, <1>6, <1>7, LocalKeeps

LEMMA AuditKeeps == ASSUME QInv, NEW r \in Runs, Audit(r) PROVE QInv'
<1>0. PICK g \in Groups, a \in Live :
         Exact(a, g) /\ run' = [run EXCEPT ![r].pc = "put", ![r].group = g, ![r].ad = a]
  BY DEF Audit
<1> DEFINE x == run[r]
           y == [[x EXCEPT !.pc = "put"] EXCEPT !.group = g]
           new == [y EXCEPT !.ad = a]
<1>1. /\ Ordered(r) /\ Holder(r) /\ lock = r /\ x \in RunRecord /\ x.pc = "audit" /\ Command[r] = "bind"
      /\ x.todo = {} /\ x.claimed = {} /\ x.expected = None /\ x.request = None
      /\ run' = [run EXCEPT ![r] = new] /\ Local
  <2>1. x.pc = "audit" /\ Local
    BY DEF Audit
  <2>2. x.request = None
    BY <2>1, RunFields DEF Ordered, Carries, Creating, Adding, Deleting
  <2> QED BY <1>0, <2>1, <2>2, ByHand
<1>2. a \in Ads /\ a \in plans
  BY DEF Live, QInv, Typed
<1>3. new \in RunRecord
  <2>1. [x EXCEPT !.pc = "put"] \in RunRecord
    BY <1>1, RecordMoves DEF Pcs
  <2>2. y \in RunRecord
    BY <2>1, RecordMoves
  <2> HIDE DEF y
  <2> QED BY <1>2, <2>2, RecordMoves
<1>4. /\ new.pc = "put" /\ new.request = None /\ new.todo = {} /\ new.group = g /\ new.ad = a /\ new.expected = None
      /\ new.policy = x.policy /\ new.present = x.present /\ new.claimed = x.claimed /\ new.removed = x.removed
  BY <1>1 DEF RunRecord
<1> HIDE DEF new, y
<1>5. run'[r] = new /\ UNCHANGED <<plans, deleted, items, late, applied, bindings, lock>>
  BY <1>1, RunIs DEF Local, platform
<1>6. Ordered(r)'
  <2>1. Placed(r)'
    BY <1>1, <1>4, <1>5 DEF Ordered, Placed, Off, Looks, Writing, Making, Filling, Creating, Adding, Deleting
  <2>2. Carries(r)'
    BY <1>2, <1>4, <1>5 DEF Carries, Writing, Making, Filling, Creating, Adding, Deleting
  <2>3. Expects(r)' /\ Examined(r)'
    BY <1>1, <1>4, <1>5 DEF Ordered, Expects, Announced, Examined, Writing, Making, Filling, Creating, Adding
  <2> QED BY <2>1, <2>2, <2>3 DEF Ordered
<1>7. Holder(r)'
  <2>1. PendingGroups(r)' = {}
    BY <1>4, <1>5 DEF PendingGroups
  <2>2. Reports(r)' /\ AppliedHolds(r)'
    BY <1>1, <1>4, <1>5, <2>1, HolderRest
  <2> QED BY <1>0, <1>2, <1>4, <1>5, <2>1, <2>2 DEF Holder, Making, Filling, Creating, Adding, Exact
<1> QED BY <1>1, <1>3, <1>4, <1>6, <1>7, LocalKeeps

LEMMA ConfirmKeeps == ASSUME QInv, NEW r \in Runs, Confirm(r) PROVE QInv'
<1> DEFINE x == run[r]
<1>1. /\ Ordered(r) /\ Holder(r) /\ lock = r /\ x.pc = "put" /\ Command[r] = "bind"
  BY ByHand DEF Confirm
<1>2. x.group \in Groups /\ x.ad \in plans /\ Exact(x.ad, x.group)
  BY <1>1 DEF Ordered, Carries, Holder
<1>3. /\ UNCHANGED <<plans, deleted, items, applied, late, outside, snapshots>> /\ inflight' \in SUBSET inflight
      /\ lock' = None /\ run' = [run EXCEPT ![r] = Ended]
  BY DEF Confirm, platform
<1>4. bindings' \in [Groups -> Bindings \cup {None}] /\ Bound'
  <2>1. CASE Put(x.group, x.ad, r)
    BY <1>1, <1>2, <1>3, <2>1, PutSound
  <2>2. CASE UNCHANGED bindings
    BY <1>3, <2>2 DEF QInv, Typed, Settled, Bound
  <2> QED BY <2>1, <2>2 DEF Confirm
<1>5. snapshots' \in [Runs -> [Groups -> Expectations] \cup {None}] /\ Snapshotted'
  BY <1>3 DEF QInv, Typed, Settled, Snapshotted, Announced
<1> QED BY <1>1, <1>3, <1>4, <1>5, RunEndsWell

-----------------------------------------------------------------------------
(* The platform                                                            *)

(* What the lock's holder counts on outlives whatever others do: plans     *)
(* come only as it allows for, and what is said of works stays so.         *)
LEMMA HolderOutlives ==
    ASSUME NEW r \in Runs, QInv, Holder(r), run' = run, applied' = applied, bindings' = bindings,
           plans \subseteq plans', plans' \in SUBSET Ads,
           \A a \in Ads : \A w : (Kept(a, w) => Kept(a, w)') /\ (Lacks(a, w) => Lacks(a, w)'),
           \A a : LateCreated(a) => LateCreated(a)',
           \A a \in Live' : a \in Live \/ NewPlan(a)'
    PROVE  Holder(r)'
<1>1. ASSUME NEW g \in Groups, NEW ws \in SUBSET Works, Absent(r, g, ws) PROVE Absent(r, g, ws)'
  <2>1. ASSUME NEW a \in Live'
        PROVE  /\ a.source = g /\ Whole(g) => /\ a.run = r \/ LateCreated(a)'
                                              /\ \A w \in FirstOf(WorksOf(g)) : Kept(a, w)'
               /\ Exact(a, g) => \A w \in ws : Lacks(a, w)'
    <3>1. CASE a \in Live
      <4>1. a \in Ads
        BY <3>1 DEF Live, QInv, Typed
      <4> QED BY <1>1, <3>1, <4>1 DEF Absent
    <3>2. CASE NewPlan(a)'
      BY <3>2 DEF NewPlan
    <3> QED BY <2>1, <3>1, <3>2
  <2> QED BY <2>1 DEF Absent, Exact, ProductsOf, Whole, FirstOf, WorksOf
<1>2. run[r] \in RunRecord /\ Ordered(r)
  BY RunFields
<1>3. PendingGroups(r)' = PendingGroups(r) /\ PendingGroups(r) \in SUBSET Groups
  BY <1>2 DEF PendingGroups, RunRecord
<1>4. ASSUME NEW g \in PendingGroups(r), run[r].policy[g] # None PROVE DecisionHolds(r, g)'
  <2>1. DecisionHolds(r, g) /\ g \in Groups /\ WorksOf(g) \in SUBSET Works
    BY <1>3, <1>4 DEF Holder, WorksOf
  <2>2. Absent(r, g, WorksOf(g)) => Absent(r, g, WorksOf(g))'
    BY <1>1, <2>1
  <2>3. \A a \in Ads : PresentHolds(r, g, a) => PresentHolds(r, g, a)'
    BY DEF PresentHolds, WorksOf
  <2>4. run[r].policy[g].status = "bound" => run[r].policy[g].binding.ad \in Ads
    BY <2>1 DEF DecisionHolds, QInv, Typed, Bindings
  <2> QED BY <2>1, <2>2, <2>3, <2>4 DEF DecisionHolds, WorksOf
<1>5. ASSUME run[r].pc \in Making PROVE MakingHolds(r)'
  <2>1. MakingHolds(r) /\ run[r].group \in Groups /\ run[r].left \in SUBSET Works
    BY <1>2, <1>5, Writes DEF Holder, Writing, RunRecord
  <2>2. Absent(r, run[r].group, run[r].left) => Absent(r, run[r].group, run[r].left)'
    BY <1>1, <2>1
  <2>3. run[r].ad \in plans =>
        /\ run[r].ad \in plans'
        /\ \A w : (Kept(run[r].ad, w) => Kept(run[r].ad, w)') /\ (Lacks(run[r].ad, w) => Lacks(run[r].ad, w)')
    BY DEF QInv, Typed
  <2>5. run[r].pc # "bind" => Absent(r, run[r].group, run[r].left)'
    BY <2>1, <2>2 DEF MakingHolds
  <2>6. run[r].pc = "bind" =>
          /\ run[r].ad \in plans' /\ Exact(run[r].ad, run[r].group)
          /\ run[r].ad.source = run[r].group => \A w \in FirstOf(WorksOf(run[r].group)) : Kept(run[r].ad, w)'
          /\ \A w \in run[r].left : Lacks(run[r].ad, w)'
    BY <2>1, <2>3 DEF MakingHolds
  <2> QED BY <2>1, <2>5, <2>6 DEF MakingHolds
<1>6. ASSUME run[r].pc \in Filling PROVE FillingHolds(r)'
  <2>1. FillingHolds(r) /\ Sending(r)' = Sending(r)
    BY <1>6 DEF Holder, Sending
  <2>2. run[r].ad \in Ads
    BY <1>2, <1>6 DEF Ordered, Carries
  <2>3. ASSUME NEW w \in WorksOf(run[r].group) \ run[r].left PROVE Shown(r, run[r].ad, w)'
    BY <2>1, <2>2, <2>3, ShownStays DEF FillingHolds, WorksOf
  <2> QED BY <2>1, <2>2, <2>3 DEF FillingHolds, WorksOf
<1>7. Reports(r)' /\ AppliedHolds(r)'
  <2>1. \A c \in run[r].claimed \cup run[r].removed : c[1] \in Ads
    BY <1>2 DEF RunRecord
  <2>2. \A q \in applied : q.ad \in Ads
    BY RequestTypes DEF QInv, Typed
  <2>3. ASSUME NEW c \in run[r].claimed PROVE Shown(r, c[1], c[2])'
    <3>1. c[2] \in Works /\ Shown(r, c[1], c[2])
      BY <1>2, <2>3 DEF RunRecord, Holder, Reports
    <3> QED BY <2>1, <2>3, <3>1, ShownStays
  <2> QED BY <2>1, <2>2, <2>3 DEF Holder, Reports, AppliedHolds
<1>8. run[r].pc = "decide" => \A a \in Live' \ run[r].inventory : NewPlan(a)'
  <2>1. \A a \in Ads : NewPlan(a) => NewPlan(a)'
    BY DEF NewPlan
  <2>2. Live \subseteq Ads
    BY DEF Live, QInv, Typed
  <2> QED BY <2>1, <2>2 DEF Holder
<1>9. run[r].pc = "put" => run[r].ad \in plans' /\ Exact(run[r].ad, run[r].group)
  BY DEF Holder
<1> QED BY <1>3, <1>4, <1>5, <1>6, <1>7, <1>8, <1>9 DEF Holder

(* The rest of the invariant, for what happens on the platform.            *)
LEMMA PlatformMoves ==
    ASSUME QInv, UNCHANGED <<bindings, snapshots, lock, run>>, plans \subseteq plans', late \subseteq late',
           plans' \in SUBSET Ads, deleted' \in SUBSET plans', items' \in [Ads -> SUBSET Works],
           inflight' \in SUBSET inflight, applied' \in SUBSET (applied \cup inflight), late' \in SUBSET Requests,
           outside' \in 0..MaxOutside, NothingYet', \A r \in Runs : lock = r => Holder(r)',
           \A a, b \in Live' : (a.source \in Groups /\ a.source = b.source /\ a # b /\ Whole(a.source)) =>
              (a \in Live /\ b \in Live) \/ LateCreated(a)' \/ LateCreated(b)'
    PROVE  QInv'
<1>1. Typed'
  BY DEF QInv, Typed
<1>2. \A r \in Runs : Ordered(r)'
  BY OrderedSame DEF QInv
<1>3. Asked'
  <2>1. \A q \in inflight' \cup applied' : Asks(q) /\ run'[q.run].pc \notin {"idle", "lock"}
    BY DEF QInv, Settled, Asked
  <2> QED BY <2>1 DEF Asked, Asks
<1>4. Bound'
  BY DEF QInv, Settled, Bound
<1>5. Snapshotted'
  BY DEF QInv, Settled, Snapshotted, Announced
<1>6. OnePlanPerGroup'
  <2>1. ASSUME NEW a \in Live', NEW b \in Live', a.source \in Groups, a.source = b.source, a # b, Whole(a.source)
        PROVE  \E q \in late' : q.kind = "create" /\ q.ad \in {a, b}
    <3>1. CASE a \in Live /\ b \in Live
      <4>1. PICK q \in late : q.kind = "create" /\ q.ad \in {a, b}
        BY <2>1, <3>1 DEF QInv, OnePlanPerGroup, Whole
      <4> QED BY <4>1
    <3>2. CASE LateCreated(a)' \/ LateCreated(b)'
      BY <3>2 DEF LateCreated
    <3> QED BY <2>1, <3>1, <3>2
  <2> QED BY <2>1 DEF OnePlanPerGroup, Whole
<1>7. \A r \in Runs : (lock = r => Holder(r))'
  OBVIOUS
<1> QED BY <1>1, <1>2, <1>3, <1>4, <1>5, <1>6, <1>7 DEF QInv, Settled

LEMMA OutsideKeeps == ASSUME QInv, Outside PROVE QInv'
<1>1. /\ UNCHANGED <<items, inflight, applied, late, bindings, snapshots, lock, run>>
      /\ outside' = outside + 1 /\ outside < MaxOutside /\ outside \in 0..MaxOutside
  BY DEF Outside, QInv, Typed
<1>2. outside' \in 0..MaxOutside
  BY <1>1, LimitAssumption
<1>3. \/ /\ \E f \in Foreign : /\ [source |-> f, run |-> None] \notin plans
                               /\ plans' = plans \cup {[source |-> f, run |-> None]}
         /\ deleted' = deleted
      \/ /\ \E a \in Live : deleted' = deleted \cup {a}
         /\ plans' = plans
  BY DEF Outside
<1>4. /\ plans \subseteq plans' /\ plans' \in SUBSET Ads /\ deleted' \in SUBSET plans'
      /\ \A a \in Live' : a \in Live \/ (a.source \notin Groups /\ items[a] = {})
  <2>1. CASE plans' = plans /\ \E a \in Live : deleted' = deleted \cup {a}
    BY <2>1 DEF Live, QInv, Typed
  <2>2. ASSUME NEW f \in Foreign, [source |-> f, run |-> None] \notin plans, deleted' = deleted,
               plans' = plans \cup {[source |-> f, run |-> None]}
        PROVE  /\ plans \subseteq plans' /\ plans' \in SUBSET Ads /\ deleted' \in SUBSET plans'
               /\ \A a \in Live' : a \in Live \/ (a.source \notin Groups /\ items[a] = {})
    <3> DEFINE new == [source |-> f, run |-> None]
    <3>1. new \in Ads /\ new.source = f /\ f \notin Groups
      BY GroupAssumption DEF Ads
    <3>2. items[new] = {}
      BY <2>2, <3>1 DEF QInv, Settled, NothingYet
    <3> HIDE DEF new
    <3>3. plans' = plans \cup {new}
      BY <2>2 DEF new
    <3> QED BY <2>2, <3>1, <3>2, <3>3 DEF Live, QInv, Typed
  <2> QED BY <1>3, <2>1, <2>2
<1>5. /\ \A a \in Ads : \A w : (Kept(a, w) => Kept(a, w)') /\ (Lacks(a, w) => Lacks(a, w)')
      /\ \A a : LateCreated(a) => LateCreated(a)'
  BY <1>1 DEF Kept, Lacks, Later, LateCreated
<1>6. \A a \in Live' : a \in Live \/ NewPlan(a)'
  BY <1>1, <1>4 DEF NewPlan, Lacks
<1>7. \A r \in Runs : lock = r => Holder(r)'
  <2>1. ASSUME NEW r \in Runs, lock = r PROVE Holder(r)'
    BY <1>1, <1>4, <1>5, <1>6, <2>1, HolderOutlives, RunFields
  <2> QED BY <2>1
<1>8. NothingYet'
  BY <1>1, <1>4 DEF QInv, Settled, NothingYet
<1>9. items' \in [Ads -> SUBSET Works] /\ late' \in SUBSET Requests /\ late \subseteq late'
      /\ inflight' \in SUBSET inflight /\ applied' \in SUBSET (applied \cup inflight)
  BY <1>1 DEF QInv, Typed
<1>10. \A a, b \in Live' : (a.source \in Groups /\ a.source = b.source /\ a # b /\ Whole(a.source)) => a \in Live /\ b \in Live
  BY <1>4
<1> QED BY <1>1, <1>2, <1>4, <1>7, <1>8, <1>9, <1>10, PlatformMoves

(* Whoever waits for a request holds the lock.                             *)
LEMMA Awaited ==
    ASSUME QInv, NEW q \in inflight, run[q.run].request = q
    PROVE  /\ q.run \in Runs /\ lock = q.run /\ Holder(q.run)
           /\ q.kind = "create" => run[q.run].pc \in Creating /\ q = CreateOf(q.run, run[q.run].group)
           /\ q.kind = "add" => run[q.run].pc \in Adding /\ q = AddOf(q.run)
           /\ q.kind = "delete" => run[q.run].pc \in Deleting
<1> DEFINE r == q.run
<1>1. q \in Requests /\ r \in Runs /\ q # None /\ q.kind \in {"create", "add", "delete"}
  BY RequestTypes DEF QInv, Typed
<1>2. run[r].pc \in Creating \cup Adding \cup Deleting
  BY <1>1, RunFields DEF Ordered, Carries
<1>3. /\ run[r].pc \in Creating => q = CreateOf(r, run[r].group) /\ q.kind = "create"
      /\ run[r].pc \in Adding => q = AddOf(r) /\ q.kind = "add"
      /\ run[r].pc \in Deleting => q.kind = "delete"
  <2>1. Carries(r) /\ run[r].request = q
    BY <1>1, RunFields DEF Ordered
  <2>2. run[r].pc \in Creating => q = CreateOf(r, run[r].group)
    BY <2>1 DEF Carries
  <2>3. run[r].pc \in Adding => q = AddOf(r)
    BY <2>1 DEF Carries
  <2>4. run[r].pc \in Deleting => q.kind = "delete"
    BY <2>1 DEF Carries
  <2>5. \A g : CreateOf(r, g).kind = "create"
    BY DEF CreateOf
  <2>6. AddOf(r).kind = "add"
    BY DEF AddOf
  <2> QED BY <2>2, <2>3, <2>4, <2>5, <2>6
<1>4. lock = r /\ Holder(r)
  BY <1>1, <1>2, RunFields, Writes, ByHand DEF Writing, Making, Filling
<1> QED BY <1>1, <1>2, <1>3, <1>4

(* A request that comes late is one of those that are counted.             *)
LEMMA LandsLate ==
    ASSUME QInv, NEW q \in inflight, Land(q), run[q.run].request # q, NEW r \in Runs, lock = r
    PROVE  Holder(r)'
<1>1. /\ q \in Requests /\ q.ad \in Ads /\ q.works \in SUBSET Works /\ Asks(q) /\ q.kind \in {"create", "add", "delete"}
  BY RequestTypes DEF QInv, Typed, Settled, Asked
<1>2. /\ late' = late \cup {q} /\ applied' = applied /\ UNCHANGED <<deleted, outside, bindings, snapshots, lock, run>>
      /\ plans' = (IF q.kind = "create" THEN plans \cup {q.ad} ELSE plans) /\ items \in [Ads -> SUBSET Works]
      /\ items' = [items EXCEPT ![q.ad] = IF q.kind = "delete" THEN @ \ q.works ELSE @ \cup q.works]
  BY DEF Land, Effect, QInv, Typed
<1>3. /\ \A a \in Ads : a # q.ad => items'[a] = items[a]
      /\ items'[q.ad] = IF q.kind = "delete" THEN items[q.ad] \ q.works ELSE items[q.ad] \cup q.works
  BY <1>1, <1>2
<1>4. /\ \A kinds, a, w : Later(kinds, a, w) => Later(kinds, a, w)'
      /\ \A kinds : q.kind \in kinds => \A w \in q.works : Later(kinds, q.ad, w)'
  BY <1>2 DEF Later
<1>5. ASSUME NEW a \in Ads, NEW w, Kept(a, w) PROVE Kept(a, w)'
  <2>1. CASE w \in items[a] /\ w \notin items'[a]
    <3>1. a = q.ad /\ q.kind = "delete" /\ w \in q.works
      BY <1>1, <1>3, <2>1
    <3> QED BY <1>4, <3>1 DEF Kept
  <2>2. CASE Later({"delete"}, a, w) \/ w \in items'[a]
    BY <1>4, <2>2 DEF Kept
  <2> QED BY <1>5, <2>1, <2>2 DEF Kept
<1>6. ASSUME NEW a \in Ads, NEW w, Lacks(a, w) PROVE Lacks(a, w)'
  <2>1. CASE w \notin items[a] /\ w \in items'[a]
    <3>1. a = q.ad /\ q.kind \in {"create", "add"} /\ w \in q.works
      BY <1>1, <1>3, <2>1
    <3> QED BY <1>4, <3>1 DEF Lacks
  <2>2. CASE Later({"create", "add"}, a, w) \/ w \notin items'[a]
    BY <1>4, <2>2 DEF Lacks
  <2> QED BY <1>6, <2>1, <2>2 DEF Lacks
<1>7. \A a : LateCreated(a) => LateCreated(a)'
  BY <1>2 DEF LateCreated
<1>8. ASSUME NEW a \in Live', a \notin Live PROVE NewPlan(a)'
  <2>1. a = q.ad /\ q.kind = "create" /\ a \notin plans
    BY <1>2, <1>8 DEF Live
  <2>2. items[a] = {} /\ items'[a] = q.works
    BY <1>1, <1>3, <2>1 DEF QInv, Settled, NothingYet
  <2>3. LateCreated(a)' /\ a.source \in Groups /\ q.works = FirstOf(WorksOf(a.source))
    BY <1>1, <1>2, <2>1 DEF LateCreated, Asks
  <2>4. \A w \in Works : Lacks(a, w)'
    BY <1>4, <2>1, <2>2 DEF Lacks
  <2>5. \A w \in FirstOf(WorksOf(a.source)) : Kept(a, w)'
    BY <2>2, <2>3 DEF Kept
  <2> QED BY <2>3, <2>4, <2>5 DEF NewPlan
<1>9. plans \subseteq plans' /\ plans' \in SUBSET Ads /\ Holder(r)
  BY <1>1, <1>2, RunFields DEF QInv, Typed
<1> QED BY <1>2, <1>5, <1>6, <1>7, <1>8, <1>9, HolderOutlives

(* A removal that is waited for: its sender counts on nothing else.        *)
LEMMA RemovalLands ==
    ASSUME QInv, NEW q \in inflight, Land(q), run[q.run].request = q, q.kind = "delete"
    PROVE  Holder(q.run)'
<1> DEFINE r == q.run
<1>1. r \in Runs /\ run[r].pc \in Deleting /\ q \in Requests
  BY Awaited DEF QInv, Typed
<1>2. /\ Holder(r) /\ Command[r] = "remove" /\ run[r].todo = {} /\ run[r].claimed = {}
  BY <1>1, ByHand DEF Deleting
<1>3. run' = run /\ applied' = applied \cup {q} /\ late' = late
      /\ items' = [items EXCEPT ![q.ad] = @ \ q.works]
  BY DEF Land, Effect
<1>4. \A c \in run[r].removed : Lacks(c[1], c[2])'
  <2>1. ASSUME NEW a \in Ads, NEW w, Lacks(a, w) PROVE Lacks(a, w)'
    <3>1. q.ad \in Ads /\ items \in [Ads -> SUBSET Works]
      BY <1>1, RequestTypes DEF QInv, Typed
    <3>2. w \notin items[a] => w \notin items'[a]
      <4>1. CASE a = q.ad
        BY <1>3, <3>1, <4>1
      <4>2. CASE a # q.ad
        BY <1>3, <3>1, <4>2
      <4> QED BY <4>1, <4>2
    <3> QED BY <1>3, <2>1, <3>2 DEF Lacks, Later
  <2>2. \A c \in run[r].removed : c[1] \in Ads
    BY <1>1, RunFields DEF RunRecord
  <2> QED BY <1>2, <2>1, <2>2 DEF Holder, Reports
<1>5. Reports(r)'
  BY <1>2, <1>3, <1>4 DEF Reports
<1>6. \A p \in applied' : p.run = r => p.kind = "delete"
  BY <1>2, <1>3 DEF QInv, Settled, Asked, Asks
<1>7. AppliedHolds(r)'
  BY <1>6 DEF AppliedHolds
<1>8. PendingGroups(r)' = {}
  BY <1>2, <1>3 DEF PendingGroups
<1> QED BY <1>1, <1>3, <1>5, <1>7, <1>8 DEF Holder, Making, Filling, Creating, Adding, Deleting

(* A write that is waited for puts works of its group into its plan, and   *)
(* nothing else changes.                                                   *)
LEMMA WriteLands ==
    ASSUME QInv, NEW q \in inflight, Land(q), run[q.run].request = q, q.kind \in {"create", "add"}
    PROVE  Holder(q.run)'
<1>0. PICK r \in Runs : r = q.run
  BY Awaited
<1> DEFINE x == run[r]
<1>1. /\ q \in Requests /\ q.ad \in Ads /\ q.works \in SUBSET Works /\ lock = r /\ Holder(r) /\ Ordered(r)
      /\ x.pc \in Creating \cup Adding /\ (x.pc \in Creating <=> q.kind = "create")
      /\ q.kind = "create" => q = CreateOf(r, x.group)
      /\ q.kind = "add" => q = AddOf(r)
  BY <1>0, Awaited, RequestTypes, RunFields DEF QInv, Typed, Creating, Adding
<1>2. PICK g \in Groups : g = x.group
  BY <1>1, Writes DEF Writing, Making, Filling
<1>3. /\ run' = run /\ applied' = applied \cup {q} /\ late' = late /\ bindings' = bindings /\ deleted' = deleted
      /\ plans' = (IF q.kind = "create" THEN plans \cup {q.ad} ELSE plans) /\ items \in [Ads -> SUBSET Works]
      /\ items' = [items EXCEPT ![q.ad] = @ \cup q.works]
  BY <1>0 DEF Land, Effect, QInv, Typed
<1>4. /\ \A a \in Ads : a # q.ad => items'[a] = items[a]
      /\ items'[q.ad] = items[q.ad] \cup q.works
  BY <1>1, <1>3
<1>5. /\ \A a \in Ads : \A w : Kept(a, w) => Kept(a, w)'
      /\ \A w \in q.works : Kept(q.ad, w)'
      /\ \A a \in Ads : \A w : Lacks(a, w) /\ w \notin q.works => Lacks(a, w)'
      /\ \A a : LateCreated(a)' <=> LateCreated(a)
  BY <1>3, <1>4 DEF Kept, Lacks, Later, LateCreated
<1>6. ASSUME NEW a \in Live', a \notin Live PROVE a = q.ad /\ q.kind = "create" /\ items'[a] = q.works
  <2>1. a = q.ad /\ q.kind = "create" /\ a \notin plans
    BY <1>3, <1>6 DEF Live
  <2> QED BY <1>1, <1>4, <2>1 DEF QInv, Settled, NothingYet
<1>7. q.works \subseteq WorksOf(g)
  <2>1. CASE q.kind = "create"
    BY <1>1, <1>2, <2>1, FirstOfSome DEF CreateOf, WorksOf
  <2>2. CASE q.kind = "add"
    <3>1. q.works = FirstOf(x.left) /\ x.left \subseteq WorksOf(g)
      BY <1>1, <1>2, <2>2 DEF AddOf, Ordered, Carries, Filling
    <3> QED BY <3>1, FirstOfSome DEF WorksOf
  <2> QED BY <2>1, <2>2
<1>8. ASSUME NEW h \in Groups, h # g \/ x.pc \in Creating, NEW ws, ws \cap q.works = {}, Absent(r, h, ws)
      PROVE  Absent(r, h, ws)'
  <2>1. ASSUME NEW a \in Live'
        PROVE  /\ a.source = h /\ Whole(h) => /\ a.run = r \/ LateCreated(a)'
                                              /\ \A w \in FirstOf(WorksOf(h)) : Kept(a, w)'
               /\ Exact(a, h) => \A w \in ws : Lacks(a, w)'
    <3>1. CASE a \in Live
      <4>1. a \in Ads
        BY <3>1 DEF Live, QInv, Typed
      <4> QED BY <1>5, <1>8, <3>1, <4>1 DEF Absent
    <3>2. CASE a \notin Live
      <4>1. a = q.ad /\ q.kind = "create" /\ items'[a] = q.works
        BY <1>6, <3>2
      <4>2. a.source = g /\ a.run = r /\ q.works = FirstOf(WorksOf(g))
        BY <1>1, <1>2, <4>1 DEF CreateOf
      <4>3. \A w \in ws : Lacks(a, w)'
        BY <1>8, <4>1 DEF Lacks
      <4> QED BY <1>5, <4>1, <4>2, <4>3
    <3> QED BY <3>1, <3>2
  <2> QED BY <2>1 DEF Absent, Exact, ProductsOf, Whole, FirstOf, WorksOf
<1>9. ASSUME NEW h \in PendingGroups(r)', run'[r].policy[h] # None PROVE DecisionHolds(r, h)'
  <2>1. h \in PendingGroups(r) /\ h # g /\ h \in Groups /\ DecisionHolds(r, h)
    BY <1>1, <1>2, <1>3, <1>9, RunFields DEF PendingGroups, Holder, RunRecord
  <2>2. WorksOf(h) \cap q.works = {}
    BY <1>7, <2>1 DEF WorksOf
  <2>3. Absent(r, h, WorksOf(h)) => Absent(r, h, WorksOf(h))'
    BY <1>8, <2>1, <2>2
  <2>4. \A a \in Ads : PresentHolds(r, h, a) => PresentHolds(r, h, a)'
    BY <1>3, <1>5, <2>2 DEF PresentHolds, WorksOf
  <2>5. x.policy[h].status = "bound" => x.policy[h].binding.ad \in Ads
    BY <2>1 DEF DecisionHolds, QInv, Typed, Bindings
  <2> QED BY <1>3, <2>1, <2>3, <2>4, <2>5 DEF DecisionHolds, WorksOf
<1>10. ASSUME x.pc \in Making PROVE MakingHolds(r)'
  <2>1. x.pc \in Creating /\ q.kind = "create" /\ MakingHolds(r) /\ x.pc # "bind"
    BY <1>1, <1>10 DEF Holder, Making, Creating, Adding
  <2>2. x.left \cap q.works = {}
    BY <1>1, <1>2, <2>1 DEF CreateOf, Ordered, Carries, Making
  <2>3. Absent(r, g, x.left)'
    <3>1. Absent(r, g, x.left)
      BY <1>2, <2>1 DEF MakingHolds
    <3>2. PICK left : left = x.left
      OBVIOUS
    <3>3. Absent(r, g, left)'
      BY <1>8, <2>1, <2>2, <3>1, <3>2
    <3> QED BY <1>3, <3>2, <3>3
  <2> QED BY <1>2, <1>3, <2>1, <2>3 DEF MakingHolds
<1>11. ASSUME x.pc \in Filling PROVE FillingHolds(r)'
  <2>1. x.pc \in Adding /\ q.works = FirstOf(x.left) /\ FillingHolds(r)
    BY <1>1, <1>11 DEF Holder, Filling, Creating, Adding, AddOf
  <2>2. \A w \in x.left \ Sending(r) : w \notin q.works
    BY <2>1 DEF Sending
  <2>3. Sending(r)' = Sending(r)
    BY <1>3 DEF Sending
  <2>4. x.ad \in Ads
    BY <1>1, <1>11 DEF Ordered, Carries
  <2>5. ASSUME NEW w \in WorksOf(x.group) \ x.left PROVE Shown(r, x.ad, w)'
    BY <1>3, <1>5, <2>1, <2>4, <2>5, ShownStays DEF FillingHolds, WorksOf
  <2> QED BY <1>3, <1>5, <2>1, <2>2, <2>3, <2>4, <2>5 DEF FillingHolds, WorksOf
<1>12. Reports(r)'
  <2>1. x.removed = {}
    BY <1>1 DEF Ordered, Placed, Deleting, Writing, Making, Filling
  <2>2. \A c \in x.claimed : c[1] \in Ads
    BY RunFields DEF RunRecord
  <2>3. ASSUME NEW c \in x.claimed PROVE Shown(r, c[1], c[2])'
    <3>1. c[2] \in Works /\ Shown(r, c[1], c[2])
      BY <1>1, <2>3, RunFields DEF RunRecord, Holder, Reports
    <3> QED BY <1>3, <1>5, <2>2, <2>3, <3>1, ShownStays
  <2> QED BY <1>1, <1>3, <1>5, <2>1, <2>2, <2>3 DEF Holder, Reports
<1>13. AppliedHolds(r)'
  <2>1. \A p \in applied : p.ad \in Ads
    BY RequestTypes DEF QInv, Typed
  <2> QED BY <1>1, <1>3, <1>5, <2>1 DEF Holder, AppliedHolds
<1>14. x.pc \notin {"decide", "put"}
  BY <1>1 DEF Creating, Adding
<1> QED BY <1>0, <1>3, <1>9, <1>10, <1>11, <1>12, <1>13, <1>14 DEF Holder

LEMMA LandKeeps == ASSUME QInv, NEW q \in inflight, Land(q) PROVE QInv'
<1>1. q \in Requests /\ q.ad \in Ads /\ q.works \in SUBSET Works /\ q.run \in Runs /\ Asks(q) /\ q.kind \in {"create", "add", "delete"}
  BY RequestTypes DEF QInv, Typed, Settled, Asked
<1>2. /\ UNCHANGED <<deleted, outside, bindings, snapshots, lock, run>> /\ inflight' = inflight \ {q}
      /\ plans' = (IF q.kind = "create" THEN plans \cup {q.ad} ELSE plans)
      /\ items' = [items EXCEPT ![q.ad] = IF q.kind = "delete" THEN @ \ q.works ELSE @ \cup q.works]
      /\ q.kind = "create" \/ q.ad \in Live
      /\ IF run[q.run].request = q THEN applied' = applied \cup {q} /\ late' = late
                                   ELSE late' = late \cup {q} /\ applied' = applied
  BY DEF Land, Effect
<1>3. /\ plans \subseteq plans' /\ late \subseteq late' /\ plans' \in SUBSET Ads /\ deleted' \in SUBSET plans'
      /\ inflight' \in SUBSET inflight /\ applied' \in SUBSET (applied \cup inflight) /\ late' \in SUBSET Requests
      /\ outside' \in 0..MaxOutside /\ q.ad \in plans'
  BY <1>1, <1>2 DEF QInv, Typed, Live
<1>4. items' \in [Ads -> SUBSET Works] /\ \A a \in Ads : a # q.ad => items'[a] = items[a]
  BY <1>1, <1>2 DEF QInv, Typed
<1>5. NothingYet'
  BY <1>3, <1>4 DEF QInv, Settled, NothingYet
<1>6. \A r \in Runs : lock = r => Holder(r)'
  <2>1. ASSUME NEW r \in Runs, lock = r PROVE Holder(r)'
    <3>1. CASE run[q.run].request # q
      BY <2>1, <3>1, LandsLate
    <3>2. CASE run[q.run].request = q
      <4>1. r = q.run
        BY <2>1, <3>2, Awaited
      <4>2. Holder(q.run)'
        BY <1>1, <3>2, RemovalLands, WriteLands
      <4> QED BY <4>1, <4>2
    <3> QED BY <3>1, <3>2
  <2> QED BY <2>1
<1>7. ASSUME NEW a \in Live', NEW b \in Live', a.source \in Groups, a.source = b.source, a \notin Live, a # b, Whole(a.source)
      PROVE  LateCreated(a)' \/ LateCreated(b)'
  <2>1. a = q.ad /\ q.kind = "create"
    BY <1>2, <1>7 DEF Live
  <2>2. CASE run[q.run].request # q
    BY <1>2, <2>1, <2>2 DEF LateCreated
  <2>3. CASE run[q.run].request = q
    <3> DEFINE r == q.run
    <3>1. /\ run[r].pc \in Creating /\ q = CreateOf(r, run[r].group) /\ Holder(r)
      BY <2>1, <2>3, Awaited
    <3>2. Absent(r, run[r].group, run[r].left)
      BY <3>1 DEF Holder, MakingHolds, Making, Creating
    <3>3. a.source = run[r].group /\ a.run = r /\ a \in Ads /\ b \in Ads
      BY <1>3, <2>1, <3>1 DEF CreateOf, Live
    <3>4. b \in Live
      BY <1>2, <1>7, <2>1 DEF Live
    <3>5. b.run = r => b = a
      <4>1. \A c \in Ads : c = [source |-> c.source, run |-> c.run]
        BY DEF Ads
      <4> QED BY <1>7, <3>3, <4>1
    <3>6. LateCreated(b)
      BY <1>7, <3>2, <3>3, <3>4, <3>5 DEF Absent
    <3> QED BY <1>2, <2>3, <3>6 DEF LateCreated
  <2> QED BY <2>2, <2>3
<1>8. \A a, b \in Live' : (a.source \in Groups /\ a.source = b.source /\ a # b /\ Whole(a.source)) =>
         (a \in Live /\ b \in Live) \/ LateCreated(a)' \/ LateCreated(b)'
  BY <1>7
<1> QED BY <1>2, <1>3, <1>4, <1>5, <1>6, <1>8, PlatformMoves

-----------------------------------------------------------------------------
(* The whole system                                                        *)

LEMMA InitHolds == Init => QInv
<1> SUFFICES ASSUME Init PROVE QInv
  OBVIOUS
<1>1. Typed
  BY RecordTypes, LimitAssumption DEF Init, Typed
<1>2. ASSUME NEW r \in Runs PROVE Ordered(r)
  <2>1. run[r] = Fresh /\ lock # r
    BY RunAssumption DEF Init
  <2>2. Placed(r)
    BY <2>1, RecordTypes DEF Placed, Off, Looks, Writing, Making, Filling, Creating, Adding, Deleting
  <2>3. Carries(r)
    BY <2>1, RecordTypes DEF Carries, Writing, Making, Filling, Creating, Adding, Deleting
  <2>4. Expects(r) /\ Examined(r)
    BY <2>1, RecordTypes DEF Expects, Announced, Examined, Writing, Making, Filling, Creating, Adding
  <2> QED BY <2>2, <2>3, <2>4 DEF Ordered
<1>3. Settled
  BY DEF Init, Settled, Snapshotted, Announced, Asked, NothingYet, Bound
<1>4. OnePlanPerGroup
  BY DEF Init, OnePlanPerGroup, Live
<1>5. \A r \in Runs : lock # r
  BY RunAssumption DEF Init
<1> QED BY <1>1, <1>2, <1>3, <1>4, <1>5 DEF QInv

LEMMA StepKeeps == QInv /\ [Next]_vars => QInv'
<1> SUFFICES ASSUME QInv, [Next]_vars PROVE QInv'
  OBVIOUS
<1>1. ASSUME NEW r \in Runs, Start(r) \/ RunStep(r) \/ Crash(r) PROVE QInv'
  <2>1. CASE Start(r) \/ Lock(r)
    BY <2>1, StartKeeps, LockKeeps
  <2>2. CASE Abandon(r) \/ Crash(r)
    BY <2>2, ReturnKeeps DEF Abandon, Crash
  <2>3. CASE Look(r)
    BY <2>3, ScanKeeps, DecideKeeps, PrepareKeeps, RevalidatedKeeps, SaveKeeps DEF Look
  <2>4. CASE Write(r)
    BY <2>4, ReportGroupKeeps, CreatePlanKeeps, OpenPlanKeeps, AppendKeeps, EndRunKeeps DEF Write
  <2>5. CASE Answer(r)
    BY <2>5, AcknowledgeKeeps, RefuseKeeps, UnknownKeeps DEF Answer
  <2>6. CASE Settle(r)
    BY <2>6, ReconcileKeeps, VerifyKeeps, BindKeeps, ReadbackKeeps DEF Settle
  <2>7. CASE Manual(r)
    BY <2>7, ReadKeeps, RecheckKeeps, AuditKeeps, ConfirmKeeps DEF Manual
  <2> QED BY <1>1, <2>1, <2>2, <2>3, <2>4, <2>5, <2>6, <2>7 DEF RunStep
<1>2. ASSUME NEW q \in inflight, Land(q) PROVE QInv'
  BY <1>2, LandKeeps
<1>3. CASE Outside
  BY <1>3, OutsideKeeps
<1>4. CASE UNCHANGED vars
  <2>1. UNCHANGED <<bindings, snapshots, lock, run, plans, deleted, items, inflight, applied, late, outside>>
    BY <1>4 DEF vars
  <2>2. plans' \in SUBSET Ads /\ deleted' \in SUBSET plans' /\ items' \in [Ads -> SUBSET Works]
        /\ late' \in SUBSET Requests /\ outside' \in 0..MaxOutside
    BY <2>1 DEF QInv, Typed
  <2>3. NothingYet' /\ Live' = Live
    BY <2>1 DEF QInv, Settled, NothingYet, Live
  <2>4. \A r \in Runs : lock = r => Holder(r)'
    BY <2>1, HolderSame DEF QInv, Typed, RunRecord
  <2> QED BY <2>1, <2>2, <2>3, <2>4, PlatformMoves
<1> QED BY <1>1, <1>2, <1>3, <1>4 DEF Next

LEMMA Invariant == Spec => []QInv
BY InitHolds, StepKeeps, PTL DEF Spec

-----------------------------------------------------------------------------
(* Plans taken for another's                                               *)

(* A run that cannot tell what has become of its create goes by what is on *)
(* the platform: another's plan, if it is alone.  That its own was not to  *)
(* be seen then stays so, for the platform has not applied the create, or  *)
(* has done it late, or somebody has deleted the plan.                     *)
Found(r) == run[r].pc \in {"verify", "bind"} =>
                run[r].ad.source = run[r].group \/ Adopted(r, run[r].ad, run[r].group)
Waits(r) == run[r].pc \in Creating => run[r].request \in inflight \cup applied
Made == \A q \in applied : q.kind = "create" => q.ad \in plans
Taken == (\A r \in Runs : Waits(r) /\ Found(r)) /\ Made /\ GroupsKeepOwnPlans

(* What a step of a run leaves alone.                                      *)
Aside(r) ==
    /\ UNCHANGED <<plans, deleted, applied, late>> /\ (inflight \subseteq inflight' \/ Refuse(r))
    /\ \A s \in Runs : s # r => run'[s] = run[s]
    /\ bindings' = bindings \/ Bind(r) \/ Confirm(r)
    /\ run'[r].pc \in Creating => CreatePlan(r) \/ Unknown(r)
    /\ run'[r].pc \in {"verify", "bind"} => Acknowledge(r) \/ Reconcile(r) \/ Verify(r)
Elsewhere == Pcs \ (Creating \cup {"verify", "bind"})

LEMMA RunChanges ==
    ASSUME QInv, NEW r \in Runs, Start(r) \/ RunStep(r) \/ Crash(r)
    PROVE  Aside(r)
<1>0. /\ DOMAIN run = Runs /\ DOMAIN run[r] = DOMAIN Fresh /\ Ended.pc \in Elsewhere
      /\ Command[r] \in Commands
  BY RecordTypes, RunAssumption, RunFields DEF QInv, Typed, RunRecord, Fresh, Elsewhere, Pcs, Creating
<1>1. "pc" \in DOMAIN run[r]
  BY <1>0 DEF Fresh
<1>2. ASSUME UNCHANGED <<plans, deleted, applied, late>>, inflight \subseteq inflight', bindings' = bindings,
             run'[r].pc \in Elsewhere, \A s \in Runs : s # r => run'[s] = run[s]
      PROVE  Aside(r)
  BY <1>2 DEF Aside, Elsewhere
<1>3. ASSUME Return(r) PROVE Aside(r)
  BY <1>0, <1>2, <1>3 DEF Return, platform
<1>4. ASSUME Local, run'[r].pc \in Elsewhere, \A s \in Runs : s # r => run'[s] = run[s] PROVE Aside(r)
  BY <1>2, <1>4 DEF Local, platform
<1>5. {"idle", "lock", "scan", "decide", "prepare", "save", "groups", "append", "add", "readback", "read", "delete",
       "recheck", "audit", "put", "done"} \subseteq Elsewhere
  BY DEF Elsewhere, Pcs, Creating
<1>6. CASE Start(r)
  <2>1. run'[r].pc \in {"scan", "lock"} /\ \A s \in Runs : s # r => run'[s] = run[s]
    <3>1. CASE Command[r] = "preflight"
      BY <1>0, <1>1, <1>6, <3>1 DEF Start
    <3>2. CASE Command[r] = "submit"
      <4>1. PICK ts, e : run' = [run EXCEPT ![r].pc = "lock", ![r].todo = ts, ![r].expected = e]
        BY <1>6, <3>2 DEF Start
      <4> QED BY <1>0, <1>1, <4>1
    <3>3. CASE Command[r] \notin {"preflight", "submit"}
      BY <1>0, <1>1, <1>6, <3>3 DEF Start
    <3> QED BY <3>1, <3>2, <3>3
  <2> QED BY <1>4, <1>5, <1>6, <2>1 DEF Start
<1>7. CASE Lock(r)
  <2>1. Command[r] # "preflight"
    BY <1>7, RunFields DEF Lock, Ordered, Placed, Looks
  <2>2. FirstPhase[Command[r]] \in {"scan", "read", "audit"}
    BY <1>0, <2>1 DEF FirstPhase, Commands
  <2>3. run'[r].pc \in Elsewhere /\ \A s \in Runs : s # r => run'[s] = run[s]
    BY <1>0, <1>1, <1>5, <1>7, <2>2 DEF Lock
  <2> QED BY <1>2, <1>7, <2>3 DEF Lock, platform
<1>8. CASE Abandon(r) \/ Crash(r)
  BY <1>3, <1>8 DEF Abandon, Crash
<1>9. CASE Scan(r) \/ Decide(r) \/ Prepare(r) \/ ReportGroup(r) \/ OpenPlan(r) \/ Recheck(r) \/ Audit(r)
  <2>1. CASE Scan(r)
    BY <1>0, <1>1, <1>4, <1>5, <2>1 DEF Scan
  <2>2. CASE Decide(r)
    BY <1>0, <1>1, <1>4, <1>5, <2>2 DEF Decide
  <2>3. CASE Prepare(r)
    BY <1>0, <1>1, <1>4, <1>5, <2>3 DEF Prepare
  <2>4. CASE ReportGroup(r)
    BY <1>0, <1>1, <1>4, <1>5, <2>4 DEF ReportGroup, Ready
  <2>5. CASE OpenPlan(r)
    BY <1>0, <1>1, <1>4, <1>5, <2>5 DEF OpenPlan
  <2>6. CASE Recheck(r)
    BY <1>0, <1>1, <1>4, <1>5, <2>6 DEF Recheck
  <2>7. CASE Audit(r)
    BY <1>0, <1>1, <1>4, <1>5, <2>7 DEF Audit
  <2> QED BY <1>9, <2>1, <2>2, <2>3, <2>4, <2>5, <2>6, <2>7
<1>10. CASE Revalidated(r)
  BY <1>0, <1>1, <1>3, <1>4, <1>5, <1>10 DEF Revalidated
<1>11. CASE Save(r)
  BY <1>0, <1>2, <1>11 DEF Save, platform
<1>12. CASE EndRun(r)
  BY <1>3, <1>12 DEF EndRun
<1>13. ASSUME Local, NEW c, Finish(r, c) PROVE Aside(r)
  BY <1>0, <1>1, <1>4, <1>5, <1>13 DEF Finish
<1>14. ASSUME NEW q, NEW waiting, Dispatch(r, q, waiting), waiting.pc \in Elsewhere, DOMAIN waiting = DOMAIN Fresh
       PROVE  Aside(r)
  <2>1. [waiting EXCEPT !.request = q].pc = waiting.pc
    BY <1>14 DEF Fresh
  <2> QED BY <1>0, <1>2, <1>14, <2>1 DEF Dispatch
<1>15. CASE CreatePlan(r)
  BY <1>0, <1>15 DEF Aside, CreatePlan, Dispatch, Creating
<1>16. CASE Append(r)
  <2>1. [run[r] EXCEPT !.pc = "add"].pc \in Elsewhere /\ DOMAIN [run[r] EXCEPT !.pc = "add"] = DOMAIN Fresh
    BY <1>0, <1>1, <1>5
  <2> QED BY <1>13, <1>14, <1>16, <2>1 DEF Append, Succeed
<1>17. CASE Acknowledge(r)
  <2>1. CASE run[r].pc = "create"
    BY <1>0, <1>1, <1>17, <2>1 DEF Aside, Acknowledge, Local, platform, Creating
  <2>2. CASE run[r].pc # "create"
    <3>1. run'[r].pc \in {"append", "recheck"} /\ Local /\ \A s \in Runs : s # r => run'[s] = run[s]
      BY <1>0, <1>1, <1>17, <2>2 DEF Acknowledge
    <3> QED BY <1>4, <1>5, <3>1
  <2> QED BY <2>1, <2>2
<1>18. CASE Refuse(r)
  <2>1. CASE run[r].pc = "delete"
    BY <1>0, <1>18, <2>1 DEF Aside, Elsewhere, Refuse
  <2>2. CASE run[r].pc # "delete"
    <3>1. run'[r].pc = "groups" /\ \A s \in Runs : s # r => run'[s] = run[s]
      BY <1>0, <1>1, <1>18, <2>2 DEF Refuse, FailGroup, Finish
    <3> QED BY <1>5, <1>18, <2>2, <3>1 DEF Aside, Elsewhere, Refuse
  <2> QED BY <2>1, <2>2
<1>19. CASE Unknown(r)
  BY <1>0, <1>1, <1>19 DEF Aside, Unknown, Local, platform, Creating
<1>20. CASE Reconcile(r) \/ Verify(r)
  <2>1. /\ Local /\ run'[r].pc \notin Creating
        /\ \A s \in Runs : s # r => run'[s] = run[s]
    <3>1. CASE FailGroup(r)
      BY <1>0, <1>1, <1>20, <3>1 DEF Reconcile, Verify, FailGroup, Finish, Creating
    <3>2. ASSUME NEW a, run' = [run EXCEPT ![r].pc = "verify", ![r].ad = a, ![r].request = None]
          PROVE  run'[r].pc \notin Creating /\ \A s \in Runs : s # r => run'[s] = run[s]
      BY <1>0, <1>1, <3>2 DEF Creating
    <3>3. ASSUME run' = [run EXCEPT ![r].pc = "bind"]
          PROVE  run'[r].pc \notin Creating /\ \A s \in Runs : s # r => run'[s] = run[s]
      BY <1>0, <1>1, <3>3 DEF Creating
    <3> QED BY <1>20, <3>1, <3>2, <3>3 DEF Reconcile, Verify
  <2> QED BY <1>20, <2>1 DEF Aside, Local, platform
<1>21. CASE Bind(r)
  <2>1. run'[r].pc \in {"append", "groups"} /\ \A s \in Runs : s # r => run'[s] = run[s]
    BY <1>0, <1>1, <1>21 DEF Bind, FailGroup, Finish
  <2> QED BY <1>5, <1>21, <2>1 DEF Aside, Bind, platform, Elsewhere
<1>22. CASE Readback(r)
  BY <1>0, <1>1, <1>4, <1>5, <1>13, <1>22 DEF Readback, FailGroup
<1>23. CASE Read(r)
  <2>1. [run[r] EXCEPT !.pc = "delete"].pc \in Elsewhere /\ DOMAIN [run[r] EXCEPT !.pc = "delete"] = DOMAIN Fresh
    BY <1>0, <1>1, <1>5
  <2> QED BY <1>3, <1>14, <1>23, <2>1 DEF Read
<1>24. CASE Confirm(r)
  BY <1>0, <1>24 DEF Aside, Confirm, platform, Elsewhere
<1> QED BY <1>6, <1>7, <1>8, <1>9, <1>10, <1>11, <1>12, <1>15, <1>16, <1>17, <1>18, <1>19, <1>20, <1>21, <1>22,
           <1>23, <1>24 DEF RunStep, Look, Write, Answer, Settle, Manual

(* Whose create a create is.                                               *)
LEMMA WhoseCreate ==
    ASSUME QInv, NEW r \in Runs, run[r].request # None, run[r].request.kind = "create"
    PROVE  run[r].pc \in Creating /\ run[r].request = CreateOf(r, run[r].group) /\ run[r].group \in Groups
<1>1. Carries(r)
  BY RunFields DEF Ordered
<1>2. run[r].pc \in Creating
  BY <1>1 DEF Carries, AddOf
<1> QED BY <1>1, <1>2, Writes DEF Carries, Writing, Making

(* The create of r for g stays out of sight unless r waits for it.         *)
LEMMA MissedStays ==
    ASSUME QInv, Next, NEW r \in Runs, NEW g \in Groups, Missed(r, g), run[r].pc \in Creating => run[r].group # g
    PROVE  Missed(r, g)'
<1> DEFINE own == [source |-> g, run |-> r]
<1>1. own \in deleted \/ \E q \in inflight \cup late : q.kind = "create" /\ q.ad = own
  BY DEF Missed
<1>2. ASSUME NEW s \in Runs, NEW q \in inflight, q.kind = "create", q.ad = own PROVE run[s].request # q
  <2>1. ASSUME run[s].request = q PROVE FALSE
    <3>1. q # None
      BY RequestTypes DEF QInv, Typed
    <3>2. run[s].pc \in Creating /\ q = CreateOf(s, run[s].group)
      BY <1>2, <2>1, <3>1, WhoseCreate
    <3>3. run[s].group = g /\ s = r
      BY <1>2, <3>2 DEF CreateOf
    <3> QED BY <3>2, <3>3
  <2> QED BY <2>1
<1>3. deleted \subseteq deleted' /\ late \subseteq late'
  BY RunChanges DEF Aside, Next, Land, Outside
<1>4. ASSUME NEW q \in inflight, q.kind = "create", q.ad = own PROVE q \in inflight' \cup late'
  <2>1. ASSUME NEW s \in Runs, Start(s) \/ RunStep(s) \/ Crash(s) PROVE q \in inflight'
    BY <1>2, <1>4, <2>1, RunChanges DEF Aside, Refuse
  <2>2. ASSUME NEW p \in inflight, Land(p) PROVE q \in inflight' \cup late'
    <3>1. CASE p = q
      <4>1. q.run \in Runs
        BY RequestTypes DEF QInv, Typed
      <4> QED BY <1>2, <1>4, <2>2, <3>1, <4>1 DEF Land
    <3>2. CASE p # q
      BY <2>2, <3>2 DEF Land
    <3> QED BY <3>1, <3>2
  <2>3. CASE Outside
    BY <2>3 DEF Outside
  <2> QED BY <2>1, <2>2, <2>3 DEF Next
<1> QED BY <1>1, <1>3, <1>4 DEF Missed

(* A request says whose it is.                                             *)
LEMMA WhoseRequest ==
    ASSUME QInv, NEW r \in Runs, run[r].pc \in Creating \cup Adding \cup Deleting
    PROVE  run[r].request.run = r
<1>1. Carries(r)
  BY RunFields DEF Ordered
<1> QED BY <1>1 DEF Carries, AddOf, CreateOf

(* A create is under way, or applied, as long as its answer is awaited.    *)
LEMMA WaitsStay ==
    ASSUME QInv, Taken, Next, NEW r \in Runs, run'[r].pc \in Creating
    PROVE  run'[r].request \in inflight' \cup applied'
<1>1. ASSUME run'[r] = run[r]
      PROVE  run[r].request \in inflight \cup applied /\ run[r].request.run = r
  <2>1. Waits(r)
    BY DEF Taken
  <2>2. run[r].request = CreateOf(r, run[r].group)
    BY <1>1, RunFields DEF Ordered, Carries
  <2> QED BY <1>1, <2>1, <2>2 DEF Waits, CreateOf
<1>2. ASSUME NEW s \in Runs, Start(s) \/ RunStep(s) \/ Crash(s), s # r PROVE run'[r].request \in inflight' \cup applied'
  <2>1. Aside(s)
    BY <1>2, RunChanges
  <2>2. run'[r] = run[r] /\ run[r].request \in inflight \cup applied /\ run[r].request.run = r
    BY <1>1, <1>2, <2>1 DEF Aside
  <2>3. CASE inflight \subseteq inflight'
    BY <2>1, <2>2, <2>3 DEF Aside
  <2>4. CASE Refuse(s)
    <3>1. run[s].pc \in Creating \cup Adding \cup Deleting
      BY <2>4 DEF Refuse, Creating, Adding, Deleting
    <3>2. run[s].request # run[r].request
      BY <1>2, <2>2, <3>1, WhoseRequest
    <3> QED BY <2>1, <2>2, <2>4, <3>2 DEF Refuse, Aside
  <2> QED BY <2>1, <2>3, <2>4 DEF Aside
<1>3. ASSUME Start(r) \/ RunStep(r) \/ Crash(r) PROVE run'[r].request \in inflight' \cup applied'
  <2>0. DOMAIN run = Runs /\ DOMAIN run[r] = DOMAIN Fresh
    BY RunFields DEF QInv, Typed, RunRecord, Fresh
  <2>1. CASE CreatePlan(r)
    BY <2>0, <2>1 DEF CreatePlan, Dispatch, Fresh
  <2>2. CASE Unknown(r)
    <3>1. run'[r].request = run[r].request /\ run[r].pc = "create" /\ inflight' = inflight /\ applied' = applied
      BY <2>0, <2>2 DEF Unknown, Local, platform, Creating, Fresh
    <3>2. Waits(r)
      BY DEF Taken
    <3> QED BY <3>1, <3>2 DEF Waits, Creating
  <2>3. Aside(r)
    BY <1>3, RunChanges
  <2> QED BY <2>1, <2>2, <2>3 DEF Aside
<1>4. ASSUME NEW q \in inflight, Land(q) PROVE run'[r].request \in inflight' \cup applied'
  <2>1. run'[r] = run[r]
    BY <1>4 DEF Land
  <2> QED BY <1>1, <1>4, <2>1 DEF Land
<1>5. CASE Outside
  BY <1>1, <1>5 DEF Outside
<1> QED BY <1>2, <1>3, <1>4, <1>5 DEF Next

LEMMA MadeStays ==
    ASSUME QInv, Made, Next
    PROVE  Made'
<1>1. ASSUME NEW r \in Runs, Start(r) \/ RunStep(r) \/ Crash(r) PROVE Made'
  BY <1>1, RunChanges DEF Aside, Made
<1>2. ASSUME NEW q \in inflight, Land(q) PROVE Made'
  BY <1>2 DEF Land, Effect, Made
<1>3. CASE Outside
  BY <1>3 DEF Outside, Made
<1> QED BY <1>1, <1>2, <1>3 DEF Next

(* The only plan that looks like the one asked for is that one, or that    *)
(* one is not to be seen.                                                  *)
LEMMA LooksLike ==
    ASSUME QInv, Taken, NEW r \in Runs, run[r].pc \in Creating, NEW a,
           {c \in Live : Resembles(c, run[r].group)} = {a}
    PROVE  a.source = run[r].group \/ Adopted(r, a, run[r].group)
<1> DEFINE g == run[r].group
           own == [source |-> g, run |-> r]
<1>1. g \in Groups
  BY Writes DEF Writing, Making
<1>2. run[r].request = CreateOf(r, g) /\ run[r].request \in inflight \cup applied
  BY RunFields DEF Ordered, Carries, Taken, Waits
<1>3. CASE run[r].request \in inflight
  BY <1>2, <1>3 DEF Adopted, Missed, CreateOf
<1>4. CASE run[r].request \in applied
  <2>1. own \in plans
    BY <1>2, <1>4 DEF Taken, Made, CreateOf
  <2>2. CASE own \in deleted
    BY <2>2 DEF Adopted, Missed
  <2>3. CASE own \in Live
    <3>1. own.source = g /\ ProductsOf(own) = TemplateProducts /\ TemplateProducts # {}
      BY <1>1, GroupAssumption DEF ProductsOf
    <3>2. Resembles(own, g)
      BY <3>1 DEF Resembles
    <3> QED BY <2>3, <3>1, <3>2
  <2> QED BY <2>1, <2>2, <2>3 DEF Live
<1> QED BY <1>2, <1>3, <1>4

LEMMA FoundStays ==
    ASSUME QInv, Taken, Next, NEW r \in Runs, run'[r].pc \in {"verify", "bind"}
    PROVE  (run[r].ad.source = run[r].group \/ Adopted(r, run[r].ad, run[r].group))'
<1>0. PICK g : g = run[r].group
  OBVIOUS
<1>1. ASSUME run[r].pc \in {"verify", "bind"}, run'[r].group = g, run'[r].ad = run[r].ad
      PROVE  (run[r].ad.source = run[r].group \/ Adopted(r, run[r].ad, run[r].group))'
  <2>1. g \in Groups /\ run[r].pc \notin Creating
    BY <1>0, <1>1, Writes DEF Writing, Making, Creating
  <2>2. run[r].ad.source = g \/ Adopted(r, run[r].ad, g)
    BY <1>0, <1>1 DEF Taken, Found
  <2>3. Missed(r, g) => Missed(r, g)'
    BY <1>0, <2>1, MissedStays
  <2> QED BY <1>1, <2>2, <2>3 DEF Adopted, Missed
<1>2. ASSUME NEW s \in Runs, Start(s) \/ RunStep(s) \/ Crash(s), s # r PROVE run'[r] = run[r]
  BY <1>2, RunChanges DEF Aside
<1>3. ASSUME Start(r) \/ RunStep(r) \/ Crash(r)
      PROVE  (run[r].ad.source = run[r].group \/ Adopted(r, run[r].ad, run[r].group))'
  <2>0. DOMAIN run = Runs /\ DOMAIN run[r] = DOMAIN Fresh
    BY RunFields DEF QInv, Typed, RunRecord, Fresh
  <2>1. CASE Acknowledge(r)
    <3>1. run[r].pc = "create" /\ run'[r].ad = run[r].request.ad /\ run'[r].group = g
      BY <1>0, <2>0, <2>1 DEF Acknowledge, Fresh
    <3>2. run[r].request = CreateOf(r, g)
      BY <1>0, <3>1, RunFields DEF Ordered, Carries, Creating
    <3> QED BY <3>1, <3>2 DEF CreateOf
  <2>2. CASE Verify(r)
    <3>1. run[r].pc = "verify" /\ run'[r].ad = run[r].ad /\ run'[r].group = g
      BY <1>0, <2>0, <2>2 DEF Verify, FailGroup, Finish, Fresh
    <3> QED BY <1>1, <3>1
  <2>3. CASE Reconcile(r)
    <3>0. run[r].pc \in Creating /\ Local
      BY <2>3 DEF Reconcile, Creating
    <3>1. PICK a : /\ {c \in Live : Resembles(c, g)} = {a}
                   /\ run' = [run EXCEPT ![r].pc = "verify", ![r].ad = a, ![r].request = None]
      <4>1. ~FailGroup(r)
        BY <2>0 DEF FailGroup, Finish, Fresh
      <4> QED BY <1>0, <2>3, <4>1 DEF Reconcile
    <3>2. run'[r].ad = a /\ run'[r].group = g
      BY <1>0, <2>0, <3>1 DEF Fresh
    <3>3. a.source = g \/ Adopted(r, a, g)
      BY <1>0, <3>0, <3>1, LooksLike
    <3>4. Missed(r, g) => Missed(r, g)'
      BY <3>0 DEF Missed, Local, platform
    <3> QED BY <3>2, <3>3, <3>4 DEF Adopted, Missed
  <2>4. Aside(r)
    BY <1>3, RunChanges
  <2> QED BY <2>1, <2>2, <2>3, <2>4 DEF Aside
<1>4. ASSUME NEW q \in inflight, Land(q) PROVE run'[r] = run[r]
  BY <1>4 DEF Land
<1>5. Outside => run'[r] = run[r]
  BY DEF Outside
<1>6. CASE run'[r] = run[r]
  BY <1>0, <1>1, <1>6
<1> QED BY <1>2, <1>3, <1>4, <1>5, <1>6 DEF Next

LEMMA OwnPlansStay ==
    ASSUME QInv, Taken, Next
    PROVE  GroupsKeepOwnPlans'
<1> DEFINE Own(g) == LET b == bindings[g] IN
                (b # None /\ Command[b.by] # "bind") => b.ad.source = g \/ Adopted(b.by, b.ad, g)
<1>1. ASSUME NEW g \in Groups, bindings'[g] = bindings[g] PROVE Own(g)'
  <2>1. Own(g)
    BY DEF Taken, GroupsKeepOwnPlans
  <2>2. ASSUME bindings[g] # None, Missed(bindings[g].by, g) PROVE Missed(bindings[g].by, g)'
    <3>0. PICK r : r = bindings[g].by
      OBVIOUS
    <3>1. r \in Runs
      BY <2>2, <3>0 DEF QInv, Typed, Bindings
    <3>2. ASSUME run[r].pc \in Creating PROVE run[r].group # g
      <4>1. Holder(r) /\ run[r].pc \in Making
        BY <3>1, <3>2, Writes DEF Writing, Making
      <4> QED BY <2>2, <3>0, <4>1 DEF Holder, MakingHolds
    <3>3. Missed(r, g)'
      BY <2>2, <3>0, <3>1, <3>2, MissedStays
    <3> QED BY <1>1, <3>0, <3>3 DEF Missed
  <2> QED BY <1>1, <2>1, <2>2 DEF Adopted, Missed
<1>2. ASSUME NEW r \in Runs, Bind(r), NEW g \in Groups, bindings'[g] # bindings[g] PROVE Own(g)'
  <2>1. run[r].pc = "bind" /\ g = run[r].group /\ bindings'[g] = [ad |-> run[r].ad, by |-> r]
    <3>1. run[r].pc = "bind" /\ Put(run[r].group, run[r].ad, r)
      BY <1>2 DEF Bind
    <3> QED BY <1>2, <3>1 DEF Put, QInv, Typed
  <2>2. run[r].ad.source = g \/ Adopted(r, run[r].ad, g)
    BY <2>1 DEF Taken, Found
  <2>3. Missed(r, g) => Missed(r, g)'
    BY <2>1, MissedStays DEF Creating
  <2> QED BY <2>1, <2>2, <2>3 DEF Adopted, Missed
<1>3. ASSUME NEW r \in Runs, Confirm(r), NEW g \in Groups, bindings'[g] # bindings[g] PROVE Own(g)'
  <2>1. Put(run[r].group, run[r].ad, r) /\ run[r].pc = "put"
    BY <1>3 DEF Confirm
  <2>2. bindings'[g].by = r
    BY <1>3, <2>1 DEF Put, QInv, Typed
  <2>3. Command[r] = "bind"
    BY <2>1, ByHand
  <2> QED BY <2>2, <2>3
<1>4. ASSUME NEW r \in Runs, Start(r) \/ RunStep(r) \/ Crash(r) PROVE bindings' = bindings \/ Bind(r) \/ Confirm(r)
  BY <1>4, RunChanges DEF Aside
<1>5. ASSUME NEW q \in inflight, Land(q) PROVE bindings' = bindings
  BY <1>5 DEF Land
<1>6. Outside => bindings' = bindings
  BY DEF Outside
<1>7. \A g \in Groups : Own(g)'
  <2> SUFFICES ASSUME NEW g \in Groups PROVE Own(g)'
    OBVIOUS
  <2>1. CASE bindings'[g] = bindings[g]
    BY <1>1, <2>1
  <2>2. CASE bindings'[g] # bindings[g]
    <3>1. PICK r \in Runs : Bind(r) \/ Confirm(r)
      BY <1>4, <1>5, <1>6, <2>2 DEF Next
    <3> QED BY <1>2, <1>3, <2>2, <3>1
  <2> QED BY <2>1, <2>2
<1> QED BY <1>7 DEF GroupsKeepOwnPlans

LEMMA TakenInit == Init => Taken
<1> SUFFICES ASSUME Init PROVE Taken
  OBVIOUS
<1>1. \A r \in Runs : run[r].pc = "idle"
  BY RecordTypes DEF Init
<1> QED BY <1>1 DEF Init, Taken, Waits, Found, Made, GroupsKeepOwnPlans, Creating

LEMMA TakenKeeps == QInv /\ Taken /\ [Next]_vars => Taken'
<1> SUFFICES ASSUME QInv, Taken, [Next]_vars PROVE Taken'
  OBVIOUS
<1>1. CASE Next
  <2>1. ASSUME NEW r \in Runs PROVE Waits(r)' /\ Found(r)'
    <3>1. Waits(r)'
      BY <1>1, WaitsStay DEF Waits
    <3>2. Found(r)'
      BY <1>1, FoundStays DEF Found
    <3> QED BY <3>1, <3>2
  <2>2. Made' /\ GroupsKeepOwnPlans'
    BY <1>1, MadeStays, OwnPlansStay DEF Taken
  <2> QED BY <2>1, <2>2 DEF Taken
<1>2. CASE UNCHANGED vars
  BY <1>2 DEF vars, Taken, Waits, Found, Made, GroupsKeepOwnPlans, Adopted, Missed
<1> QED BY <1>1, <1>2

LEMMA TakenHolds == Spec => [](QInv /\ Taken)
<1>1. QInv /\ Taken /\ [Next]_vars => QInv' /\ Taken'
  BY StepKeeps, TakenKeeps
<1>2. Init => QInv /\ Taken
  BY InitHolds, TakenInit
<1> QED BY <1>1, <1>2, PTL DEF Spec

-----------------------------------------------------------------------------
(* What holds                                                              *)

(* No group that has all of the template's products gets a second plan but *)
(* for a create that was given up on and applied late: what a preflight,   *)
(* a lock wait or a crash leaves between looking and creating does not     *)
(* matter.                                                                 *)
THEOREM OnePlan == Spec => []OnePlanPerGroup
<1>1. QInv => OnePlanPerGroup
  BY DEF QInv
<1> QED BY <1>1, Invariant, PTL

(* A group's binding leads to a plan of its creator and product set, and   *)
(* to one made for another only when the run could not see its own.        *)
THEOREM SoundPlans == Spec => []GroupsKeepSoundPlans
<1>1. QInv /\ Taken => GroupsKeepSoundPlans
  <2> SUFFICES ASSUME QInv, Taken PROVE GroupsKeepSoundPlans
    OBVIOUS
  <2>1. ASSUME NEW r \in Runs
        PROVE  /\ DOMAIN run[r] = DOMAIN Fresh
               /\ run[r].pc \in Pcs /\ run[r].request \in Requests \cup {None}
               /\ run[r].expected = None \/ run[r].expected \in [Groups -> Expectations]
               /\ run[r].inventory \subseteq Ads /\ run[r].policy \in [Groups -> Policies \cup {None}]
               /\ \A g \in Groups : run[r].present[g] = None \/ run[r].present[g] \subseteq Works
               /\ run[r].unread \subseteq Groups /\ run[r].todo \subseteq Groups
               /\ run[r].group \in Groups \cup {None} /\ run[r].ad \in Ads \cup {None}
               /\ run[r].left \subseteq Works /\ run[r].changed \subseteq Groups
               /\ run[r].claimed \subseteq Ads \X Works /\ run[r].removed \subseteq Ads \X Works
    <3>1. run[r] \in RunRecord
      BY RunFields
    <3>2. DOMAIN run[r] = DOMAIN Fresh
      BY <3>1 DEF RunRecord, Fresh
    <3> QED BY <3>1, <3>2 DEF RunRecord
  <2>2. TypeOK
    BY <2>1 DEF TypeOK, QInv, Typed
  <2>3. BoundIsSound
    BY DEF QInv, Settled, Bound, BoundIsSound
  <2> QED BY <2>2, <2>3 DEF GroupsKeepSoundPlans, Taken
<1> QED BY <1>1, TakenHolds, PTL

(* What a run reports while it holds the lock is so, but for the first     *)
(* works of a group whose own plan it could not see and which it has given *)
(* another's.                                                              *)
THEOREM TrueReports == Spec => []ReportsAreTrue
<1>1. QInv /\ Taken => ReportsAreTrue
  <2> SUFFICES ASSUME QInv, Taken, NEW r \in Runs, lock = r
               PROVE  /\ \A c \in run[r].claimed :
                            LET g == GroupOf[c[2]] IN
                            \/ c[2] \in items[c[1]] \/ Later({"delete"}, c[1], c[2])
                            \/ Adopted(r, c[1], g) /\ c[2] \in FirstOf(WorksOf(g))
                      /\ \A c \in run[r].removed : c[2] \notin items[c[1]] \/ Later({"create", "add"}, c[1], c[2])
    BY DEF ReportsAreTrue
  <2>1. Holder(r) /\ Ordered(r) /\ run[r] \in RunRecord
    BY RunFields
  <2>2. ASSUME NEW c \in run[r].claimed, Skipped(r, c[1], c[2]) PROVE Adopted(r, c[1], GroupOf[c[2]])
    <3>1. c[2] \in Works /\ GroupOf[c[2]] \in Groups
      BY <2>1, GroupAssumption DEF RunRecord
    <3>2. Command[r] # "bind"
      BY <2>1, <2>2 DEF Ordered, Placed
    <3> QED BY <2>2, <3>1, <3>2 DEF Skipped, Taken, GroupsKeepOwnPlans
  <2>3. \A c \in run[r].claimed : Shown(r, c[1], c[2])
    BY <2>1 DEF Holder, Reports
  <2>4. \A c \in run[r].removed : Lacks(c[1], c[2])
    BY <2>1 DEF Holder, Reports
  <2> QED BY <2>2, <2>3, <2>4 DEF Shown, Skipped, Kept, Lacks
<1> QED BY <1>1, TakenHolds, PTL

(* A binding of the day is replaced by one of the same plan only.          *)
THEOREM BindingsStay == Spec => BindingNeverMoves
<1> DEFINE Stays == \A g \in Groups : bindings[g] # None => bindings'[g] # None /\ bindings'[g].ad = bindings[g].ad
<1>1. QInv /\ [Next]_vars => [Stays]_vars
  <2> SUFFICES ASSUME QInv, Next PROVE Stays
    BY DEF Stays
  <2>1. ASSUME NEW r \in Runs, NEW g \in Groups, NEW a \in Ads, Put(g, a, r) PROVE Stays
    <3>1. [ad |-> a, by |-> r] # None
      BY NoneAssumption DEF Bindings
    <3>2. bindings'[g] = [ad |-> a, by |-> r] /\ \A h \in Groups : h # g => bindings'[h] = bindings[h]
      BY <2>1 DEF Put, QInv, Typed
    <3>3. bindings[g] # None => bindings[g].ad = a
      BY <2>1 DEF Put
    <3> QED BY <3>1, <3>2, <3>3
  <2>2. ASSUME NEW r \in Runs, Bind(r) \/ Confirm(r) PROVE Stays
    <3>1. run[r].group \in Groups /\ run[r].ad \in Ads
      <4>1. run[r].pc \in {"bind", "put"} /\ run[r].group \in Groups \cup {None}
        BY <2>2, RunFields DEF Bind, Confirm, RunRecord
      <4> QED BY <4>1, RunFields, Writes DEF Ordered, Carries, Writing, Making
    <3>2. Put(run[r].group, run[r].ad, r) \/ bindings' = bindings
      BY <2>2 DEF Bind, Confirm
    <3> QED BY <2>1, <3>1, <3>2
  <2>3. ASSUME NEW r \in Runs, Start(r) \/ Lock(r) \/ Abandon(r) \/ Crash(r) \/ Look(r) \/ Write(r) \/ Answer(r)
                               \/ Reconcile(r) \/ Verify(r) \/ Readback(r) \/ Read(r) \/ Recheck(r) \/ Audit(r)
        PROVE  bindings' = bindings
    BY <2>3 DEF Start, Lock, Abandon, Crash, Look, Write, Answer, Reconcile, Verify, Readback, Read, Recheck, Audit,
       Scan, Decide, Prepare, Revalidated, Save, ReportGroup, CreatePlan, OpenPlan, Append, EndRun,
       Acknowledge, Refuse, Unknown, Local, Return, Dispatch
  <2>4. ASSUME NEW q \in inflight, Land(q) PROVE bindings' = bindings
    BY <2>4 DEF Land
  <2>5. Outside => bindings' = bindings
    BY DEF Outside
  <2> QED BY <2>2, <2>3, <2>4, <2>5 DEF Next, RunStep, Settle, Manual
<1>2. [][Stays]_vars => BindingNeverMoves
  BY PTL DEF BindingNeverMoves
<1> QED BY <1>1, <1>2, Invariant, PTL DEF Spec

(* What is sent, and by whom.                                              *)
LEMMA WhatIsSent ==
    ASSUME QInv, Next, NEW q \in Sent
    PROVE  \E r \in Runs : \/ Ready(r) /\ Creatable(r, Current(r)) /\ q = CreateOf(r, Current(r))
                           \/ run[r].pc = "append" /\ run[r].left # {} /\ q = AddOf(r)
                           \/ Command[r] = "remove" /\ q.run = r /\ q.kind = "delete"
<1>1. ASSUME NEW r \in Runs, CreatePlan(r) PROVE Ready(r) /\ Creatable(r, Current(r)) /\ q = CreateOf(r, Current(r))
  BY <1>1 DEF CreatePlan, Dispatch, Sent, CreateOf
<1>2. ASSUME NEW r \in Runs, Append(r) PROVE run[r].pc = "append" /\ run[r].left # {} /\ q = AddOf(r)
  BY <1>2 DEF Append, Dispatch, Sent, AddOf, Local, platform
<1>3. ASSUME NEW r \in Runs, Read(r) PROVE Command[r] = "remove" /\ q.run = r /\ q.kind = "delete"
  BY <1>3, ByHand DEF Read, Dispatch, Sent, Return, platform
<1>4. ASSUME NEW r \in Runs, Start(r) \/ Lock(r) \/ Abandon(r) \/ Crash(r) \/ Look(r) \/ Answer(r) \/ Settle(r)
                             \/ ReportGroup(r) \/ OpenPlan(r) \/ EndRun(r) \/ Recheck(r) \/ Audit(r) \/ Confirm(r)
      PROVE  inflight' \subseteq inflight
  BY <1>4 DEF Start, Lock, Abandon, Crash, Look, Answer, Settle, Recheck, Audit, Confirm, ReportGroup, OpenPlan, EndRun,
     Scan, Decide, Prepare, Revalidated, Save, Acknowledge, Refuse, Unknown, Reconcile, Verify, Bind, Readback,
     Local, Return, platform
<1>5. ASSUME NEW p \in inflight, Land(p) PROVE inflight' \subseteq inflight
  BY <1>5 DEF Land
<1>6. Outside => inflight' \subseteq inflight
  BY DEF Outside
<1>7. ~(inflight' \subseteq inflight)
  BY DEF Sent
<1>8. PICK r \in Runs : CreatePlan(r) \/ Append(r) \/ Read(r)
  BY <1>4, <1>5, <1>6, <1>7 DEF Next, RunStep, Write, Manual
<1> QED BY <1>1, <1>2, <1>3, <1>8

LEMMA TargetIs ==
    ASSUME NEW q, NEW g \in Groups, NEW ws \in SUBSET WorksOf(g), ws # {}, q.works = FirstOf(ws)
    PROVE  TargetGroup(q) = g /\ q.works \subseteq ws
<1>1. q.works \subseteq ws /\ q.works # {}
  BY FirstOfSome DEF WorksOf
<1>2. (CHOOSE w \in q.works : TRUE) \in q.works
  BY <1>1
<1> QED BY <1>1, <1>2 DEF TargetGroup, WorksOf

(* Every write that is sent is one the preflight announced, at the binding *)
(* it saw or the submit made, and appends what the plan lacks.             *)
THEOREM DueWrites == Spec => WritesAreDue
<1>1. QInv /\ [Next]_vars => [SendsWhatWasPrepared /\ SendsOnlyMissing]_vars
  <2> SUFFICES ASSUME QInv, Next PROVE SendsWhatWasPrepared /\ SendsOnlyMissing
    OBVIOUS
  <2>1. ASSUME NEW q \in Sent, NEW r \in Runs, Ready(r), Creatable(r, Current(r)), q = CreateOf(r, Current(r))
        PROVE  /\ q.kind = "create" /\ q.run = r
               /\ Command[r] = "submit" => LET expected == run[r].expected[TargetGroup(q)] IN
                     /\ q.works \subseteq expected.write
                     /\ expected.action = "would_create" /\ bindings[TargetGroup(q)] = None
    <3> DEFINE g == Current(r)
    <3>1. g \in Groups /\ DecisionHolds(r, g) /\ bindings[g] = None
      BY <2>1, CurrentDecision DEF Creatable, DecisionHolds
    <3>2. q.kind = "create" /\ q.run = r /\ q.works = FirstOf(WorksOf(g))
      BY <2>1 DEF CreateOf
    <3>3. WorksOf(g) # {}
      BY <3>1, GroupAssumption DEF WorksOf
    <3>4. TargetGroup(q) = g /\ q.works \subseteq WorksOf(g)
      BY <3>1, <3>2, <3>3, TargetIs
    <3>5. ASSUME Command[r] = "submit"
          PROVE  run[r].expected[g].action = "would_create" /\ run[r].expected[g].write = WorksOf(g)
      <4>1. run[r].expected # None /\ Announced(run[r].expected)
        BY <2>1, <3>5, RunFields DEF Ordered, Expects, Ready
      <4>2. run[r].expected[g].action = "would_create"
        BY <2>1, <4>1 DEF Creatable, Unexpected, Changed
      <4> QED BY <3>1, <4>1, <4>2 DEF Announced
    <3> QED BY <3>1, <3>2, <3>4, <3>5
  <2>2. ASSUME NEW q \in Sent, NEW r \in Runs, run[r].pc = "append", run[r].left # {}, q = AddOf(r)
        PROVE  /\ q.kind = "add" /\ q.run = r
               /\ Command[r] = "submit" => LET g == TargetGroup(q)
                                               expected == run[r].expected[g] IN
                     /\ q.works \subseteq expected.write
                     /\ bindings[g] # None /\ bindings[g].ad = q.ad
                     /\ bindings[g] = expected.binding \/ bindings[g].by = r
               /\ \A w \in q.works \cap items[q.ad] : Later({"create", "add"}, q.ad, w)
    <3>1. /\ Ordered(r) /\ FillingHolds(r) /\ run[r].left \subseteq WorksOf(run[r].group) /\ run[r].group \in Groups
          /\ Sending(r) = {}
      BY <2>2, RunFields, Writes DEF Holder, Ordered, Carries, Writing, Filling, Sending, Adding
    <3>2. q.kind = "add" /\ q.run = r /\ q.ad = run[r].ad /\ q.works = FirstOf(run[r].left)
      BY <2>2 DEF AddOf
    <3>3. TargetGroup(q) = run[r].group /\ q.works \subseteq run[r].left
      BY <2>2, <3>1, <3>2, TargetIs
    <3>4. Command[r] = "submit" => run[r].expected # None
      BY <2>2, <3>1 DEF Ordered, Expects
    <3>5. \A w \in q.works : Lacks(q.ad, w)
      BY <3>1, <3>2, <3>3 DEF FillingHolds
    <3> QED BY <3>1, <3>2, <3>3, <3>4, <3>5 DEF FillingHolds, Lacks
  <2>3. ASSUME NEW q \in Sent
        PROVE  \/ q.kind = "delete" /\ Command[q.run] = "remove"
               \/ \E r \in Runs : Ready(r) /\ Creatable(r, Current(r)) /\ q = CreateOf(r, Current(r))
               \/ \E r \in Runs : run[r].pc = "append" /\ run[r].left # {} /\ q = AddOf(r)
    BY <2>3, WhatIsSent
  <2>4. SendsWhatWasPrepared
    BY <2>1, <2>2, <2>3 DEF SendsWhatWasPrepared
  <2>5. SendsOnlyMissing
    BY <2>1, <2>2, <2>3 DEF SendsOnlyMissing
  <2> QED BY <2>4, <2>5
<1> QED BY <1>1, Invariant, PTL DEF Spec, WritesAreDue
=============================================================================
