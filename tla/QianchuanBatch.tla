--------------------------- MODULE QianchuanBatch ---------------------------
(***************************************************************************)
(* Qianchuan works: one advertiser's plans, each grouping the works of one *)
(* template, creator and product set.  A preflight looks at the official   *)
(* plans and saves, per group, what a submit would do; a submit takes the  *)
(* advertiser lock, looks again and creates the plan, binds it to the      *)
(* group for the business day, or appends the missing works.  "direct" is  *)
(* a submit of work links without a preflight.  "remove" deletes the       *)
(* material of a work, "bind" confirms a plan for a group by hand.         *)
(*                                                                         *)
(* One business day, one template revision, one advertiser.  The platform  *)
(* is external: it applies a request at once, late or never, whatever the  *)
(* sender was told, and people change plans on it directly.                *)
(***************************************************************************)
EXTENDS Integers, FiniteSets, FiniteSetsExt

CONSTANTS
    Runs,        \* invocations of the CLI
    Command,     \* what each run does
    Groups,      \* plan groups of the request, in the order of their IDs
    Works,       \* works, in the order of the request
    GroupOf,     \* group of a work
    Foreign,     \* plans made by people on the platform
    Creator, Products, Name,   \* creator, product set and plan name of a group or foreign plan
    TemplateProducts,          \* product set of the template
    BatchMaterialLimit,        \* works a single write carries
    MaxOutside,  \* bound on changes people make on the platform
    None

Commands == {"preflight", "submit", "direct", "remove", "bind"}
Sources == Groups \cup Foreign

ASSUME RunAssumption == Command \in [Runs -> Commands] /\ None \notin Runs
ASSUME GroupAssumption ==
    /\ Groups \subseteq Nat /\ IsFiniteSet(Groups) /\ Foreign \cap Groups = {}
    /\ Works \subseteq Nat /\ IsFiniteSet(Works) /\ GroupOf \in [Works -> Groups]
    /\ \A g \in Groups : \E w \in Works : GroupOf[w] = g
    /\ \A s \in Sources : s \in DOMAIN Creator /\ s \in DOMAIN Products /\ s \in DOMAIN Name
    /\ \A g \in Groups : Products[g] \subseteq TemplateProducts /\ Products[g] # {}
ASSUME LimitAssumption == BatchMaterialLimit \in Nat \ {0} /\ MaxOutside \in Nat

(* A plan is known by what asked for it: a run creates at most one plan    *)
(* per group (OnceDispatcher), a foreign plan is nobody's.                 *)
Ads == [source : Groups, run : Runs] \cup [source : Foreign, run : {None}]
Requests == [kind : {"create", "add", "delete"}, run : Runs, ad : Ads, works : SUBSET Works]
Bindings == [ad : Ads, by : Runs]


VARIABLES
    plans,      \* official plans
    deleted,    \* those that were deleted
    items,      \* active works of each plan
    inflight,   \* requests the platform has not decided
    applied,    \* requests it has applied while their sender waited
    late,       \* requests it has applied afterwards
    outside,    \* changes people have made
    bindings,   \* the plan-binding file; "by" stands for its timestamps
    snapshots,  \* preflight journals, by the run that saved them
    lock,       \* holder of the advertiser's works lock
    run         \* progress of each run

platform == <<plans, deleted, items, inflight, applied, late, outside>>
vars == <<plans, deleted, items, inflight, applied, late, outside, bindings, snapshots, lock, run>>

-----------------------------------------------------------------------------
Live == plans \ deleted
WorksOf(g) == {w \in Works : GroupOf[w] = g}

(* The first works of a batch, as many as one write carries.               *)
FirstOf(ws) == {w \in ws : Cardinality({v \in ws : v < w}) < BatchMaterialLimit}

(* A group has the template's products its works match, but the payload it *)
(* is created with is the template's: its plan has all of them.            *)
ProductsOf(a) == IF a.source \in Groups THEN TemplateProducts ELSE Products[a.source]

(* Same creator and the complete product set: the target of a group.       *)
Exact(a, g) == Creator[a.source] = Creator[g] /\ ProductsOf(a) = Products[g]
(* What a readback after an unknown create goes by: the payload.           *)
Resembles(a, g) ==
    /\ Creator[a.source] = Creator[g] /\ Name[a.source] = Name[g]
    /\ ProductsOf(a) \cap TemplateProducts # {}

(* The reconciliation policy of a group, from its binding and candidates.  *)
Statuses == {"would_create", "legacy_binding_required", "bound", "binding_drift"}
PolicyStatus(binding, candidates) ==
    IF binding = None THEN IF candidates = {} THEN "would_create" ELSE "legacy_binding_required"
    ELSE IF binding.ad \in candidates THEN "bound" ELSE "binding_drift"

(* What a preflight expects of a group; "blocked" groups are not eligible. *)
Actions == {"would_create", "would_append", "noop", "blocked"}
Expectations == [action : Actions, binding : Bindings \cup {None}, present : SUBSET Works, write : SUBSET Works]

Policies == [status : Statuses, binding : Bindings \cup {None}]

ASSUME NoneAssumption ==
    /\ None \notin Ads /\ None \notin Bindings /\ None \notin Requests
    /\ None \notin Groups /\ None \notin Policies /\ \A ws \in SUBSET Works : ws # None

(* preflightDecisionChanged                                                *)
Changed(expected, policy) ==
    \/ expected.binding # policy.binding
    \/ IF expected.action = "would_create" THEN policy.status # "would_create" ELSE policy.status # "bound"

-----------------------------------------------------------------------------
(* A run                                                                   *)

Pcs == {"idle", "lock", "scan", "decide", "prepare", "save", "groups", "create", "reconcile", "verify",
        "bind", "append", "add", "readback", "read", "delete", "recheck", "audit", "put", "done"}

Fresh == [pc |-> "idle", expected |-> None, inventory |-> {}, policy |-> [g \in Groups |-> None],
          present |-> [g \in Groups |-> None], unread |-> {}, todo |-> {}, group |-> None, ad |-> None,
          left |-> {}, request |-> None, changed |-> {}, claimed |-> {}, removed |-> {}]
Ended == [Fresh EXCEPT !.pc = "done"]

(* The expectation a submit revalidates; none without a preflight.         *)
Unexpected(r, g) ==
    /\ run[r].expected # None
    /\ Changed(run[r].expected[g], run[r].policy[g])

Return(r) ==
    /\ run' = [run EXCEPT ![r] = Ended]
    /\ lock' = IF lock = r THEN None ELSE lock
    /\ UNCHANGED <<platform, bindings, snapshots>>

Local == UNCHANGED <<platform, bindings, snapshots, lock>>

(* A request is on its way and its sender waits for the answer.            *)
Dispatch(r, q, waiting) ==
    /\ inflight' = inflight \cup {q}
    /\ run' = [run EXCEPT ![r] = [waiting EXCEPT !.request = q]]
    /\ UNCHANGED <<plans, deleted, items, applied, late, outside, bindings, snapshots, lock>>

(* The group being written has its result; the next one follows.           *)
Finish(r, claimed) ==
    run' = [run EXCEPT ![r].pc = "groups", ![r].todo = @ \ {run[r].group}, ![r].group = None, ![r].ad = None,
                       ![r].left = {}, ![r].request = None, ![r].claimed = @ \cup claimed]
FailGroup(r) == Finish(r, {})
Succeed(r) == Finish(r, {run[r].ad} \X WorksOf(run[r].group))

-----------------------------------------------------------------------------
(* Every command                                                           *)

Start(r) ==
    /\ run[r].pc = "idle"
    /\ CASE Command[r] = "preflight" -> run' = [run EXCEPT ![r].pc = "scan", ![r].todo = Groups]
         [] Command[r] = "submit" ->
              \E p \in Runs :
                 LET eligible == {g \in Groups : snapshots[p][g].action # "blocked"} IN
                 /\ snapshots[p] # None /\ eligible # {}
                 /\ run' = [run EXCEPT ![r].pc = "lock", ![r].todo = eligible, ![r].expected = snapshots[p]]
         [] OTHER -> run' = [run EXCEPT ![r].pc = "lock",
                                        ![r].todo = IF Command[r] = "direct" THEN Groups ELSE {}]
    /\ Local

FirstPhase == [c \in {"submit", "direct", "remove", "bind"} |->
                  IF c = "remove" THEN "read" ELSE IF c = "bind" THEN "audit" ELSE "scan"]

(* Mutant: the lock is not waited for.                                     *)
LockAnyway(r) ==
    /\ run[r].pc = "lock"
    /\ lock' = r
    /\ run' = [run EXCEPT ![r].pc = FirstPhase[Command[r]]]
    /\ UNCHANGED <<platform, bindings, snapshots>>

Lock(r) ==
    /\ run[r].pc = "lock" /\ lock = None
    /\ lock' = r
    /\ run' = [run EXCEPT ![r].pc = FirstPhase[Command[r]]]
    /\ UNCHANGED <<platform, bindings, snapshots>>

(* The lock times out, or an official read fails before anything was sent. *)
Abandon(r) ==
    /\ run[r].pc \in {"lock", "scan", "decide", "read", "audit"}
    /\ Return(r)

(* The process dies; the kernel releases its lock.                         *)
Crash(r) ==
    /\ run[r].pc \notin {"idle", "done"}
    /\ Return(r)

-----------------------------------------------------------------------------
(* Looking: inventory, policy and materials of every group                 *)

Scan(r) ==
    /\ run[r].pc = "scan"
    /\ run' = [run EXCEPT ![r].pc = "decide", ![r].inventory = Live]
    /\ Local

(* Details confirm the listed plans; then the group's binding is read.     *)
Decide(r) ==
    LET open == {g \in run[r].todo : run[r].policy[g] = None}
        g == Min(open)
        candidates == {a \in run[r].inventory \cap Live : Exact(a, g)} IN
    /\ run[r].pc = "decide" /\ open # {}
    /\ run' = [run EXCEPT ![r].policy[g] = [status |-> PolicyStatus(bindings[g], candidates),
                                            binding |-> bindings[g]],
                          ![r].pc = IF open = {g} THEN "prepare" ELSE "decide"]
    /\ Local

(* The groups whose plan materials are read, in parallel.                  *)
ToPrepare(r) ==
    {g \in run[r].todo : /\ run[r].policy[g].status = "bound" /\ ~Unexpected(r, g)
                         /\ run[r].present[g] = None /\ g \notin run[r].unread}

Prepare(r) ==
    /\ run[r].pc = "prepare"
    /\ \E g \in ToPrepare(r) :
          \/ run' = [run EXCEPT ![r].present[g] = items[run[r].policy[g].binding.ad] \cap WorksOf(g)]
          \/ run' = [run EXCEPT ![r].unread = @ \cup {g}]
    /\ Local

(* A submit of a preflight whose revalidation is incomplete writes nothing.*)
Revalidated(r) ==
    /\ run[r].pc = "prepare" /\ ToPrepare(r) = {}
    /\ IF run[r].expected # None /\ run[r].unread # {} THEN Return(r)
       ELSE /\ run' = [run EXCEPT ![r].pc = IF Command[r] = "preflight" THEN "save" ELSE "groups",
                                  ![r].inventory = {}]
            /\ Local

(* prepareBatchSnapshot, of one group                                      *)
Snapshot(r, g) ==
    LET policy == run[r].policy[g]
        present == run[r].present[g]
        action == CASE policy.status = "would_create" -> "would_create"
                    [] policy.status = "bound" /\ g \notin run[r].unread ->
                          IF WorksOf(g) \subseteq present THEN "noop" ELSE "would_append"
                    [] OTHER -> "blocked" IN
    [action |-> action, binding |-> policy.binding,
     present |-> IF action \in {"would_append", "noop"} THEN present ELSE {},
     write |-> CASE action = "would_create" -> WorksOf(g)
                 [] action = "would_append" -> WorksOf(g) \ present
                 [] OTHER -> {}]

Save(r) ==
    /\ run[r].pc = "save"
    /\ snapshots' = [snapshots EXCEPT ![r] = [g \in Groups |-> Snapshot(r, g)]]
    /\ run' = [run EXCEPT ![r] = Ended]
    /\ UNCHANGED <<platform, bindings, lock>>

-----------------------------------------------------------------------------
(* Writing the groups, one after the other                                 *)

Ready(r) == run[r].pc = "groups" /\ run[r].todo # {}
Current(r) == Min(run[r].todo)

(* Mutant: only what is to be written is compared.                         *)
WritesGone(r, g) ==
    /\ run[r].expected # None /\ run[r].policy[g].status = "bound"
    /\ run[r].expected[g].write \cap run[r].present[g] # {}
(* The works to append are no longer those the preflight announced.        *)
MaterialsChanged(r, g) ==
    /\ run[r].expected # None /\ run[r].policy[g].status = "bound"
    /\ \/ run[r].expected[g].present # run[r].present[g]
       \/ run[r].expected[g].write # WorksOf(g) \ run[r].present[g]

Creatable(r, g) == ~Unexpected(r, g) /\ run[r].policy[g].status = "would_create"
Appendable(r, g) ==
    /\ ~Unexpected(r, g) /\ run[r].policy[g].status = "bound"
    /\ g \notin run[r].unread /\ ~MaterialsChanged(r, g)

(* preflight_changed, legacy_binding_required, binding_drift, failed.      *)
(* A group that is not written does not stop the next one.                 *)
ReportGroup(r) ==
    LET g == Current(r) IN
    /\ Ready(r) /\ ~Creatable(r, g) /\ ~Appendable(r, g)
    /\ run' = [run EXCEPT ![r].todo = @ \ {g},
                          ![r].changed = IF ~Unexpected(r, g) /\ MaterialsChanged(r, g) THEN @ \cup {g} ELSE @]
    /\ Local

CreatePlan(r) ==
    LET g == Current(r)
        q == [kind |-> "create", run |-> r, ad |-> [source |-> g, run |-> r], works |-> FirstOf(WorksOf(g))] IN
    /\ Ready(r) /\ Creatable(r, g)
    /\ Dispatch(r, q, [run[r] EXCEPT !.pc = "create", !.group = g, !.left = WorksOf(g) \ q.works])

OpenPlan(r) ==
    LET g == Current(r) IN
    /\ Ready(r) /\ Appendable(r, g)
    /\ run' = [run EXCEPT ![r].pc = "append", ![r].group = g, ![r].ad = run[r].policy[g].binding.ad,
                          ![r].left = WorksOf(g) \ run[r].present[g]]
    /\ Local

(* The next batch of missing works; with none left the group is done:      *)
(* already_present, created or appended.                                   *)
Append(r) ==
    /\ run[r].pc = "append"
    /\ \/ run[r].left = {} /\ Succeed(r) /\ Local
       \/ /\ run[r].left # {}
          /\ Dispatch(r, [kind |-> "add", run |-> r, ad |-> run[r].ad, works |-> FirstOf(run[r].left)],
                      [run[r] EXCEPT !.pc = "add"])

EndRun(r) ==
    /\ run[r].pc = "groups" /\ run[r].todo = {}
    /\ Return(r)

-----------------------------------------------------------------------------
(* Responses                                                               *)

(* Success: the platform has applied the request.                          *)
Acknowledge(r) ==
    /\ run[r].request \in applied
    /\ CASE run[r].pc = "create" -> run' = [run EXCEPT ![r].pc = "verify", ![r].ad = run[r].request.ad, ![r].request = None]
         [] run[r].pc = "add" -> run' = [run EXCEPT ![r].pc = "append", ![r].left = @ \ run[r].request.works, ![r].request = None]
         [] OTHER -> run[r].pc = "delete" /\ run' = [run EXCEPT ![r].pc = "recheck"]
    /\ Local

(* Not sent, or a response the adapter takes for a definite failure: the   *)
(* request may still be under way.                                         *)
Refuse(r) ==
    /\ run[r].pc \in {"create", "add", "delete"}
    /\ inflight' \in {inflight, inflight \ {run[r].request}}
    /\ IF run[r].pc = "delete"
       THEN run' = [run EXCEPT ![r] = Ended] /\ lock' = None
       ELSE FailGroup(r) /\ lock' = lock
    /\ UNCHANGED <<plans, deleted, items, applied, late, outside, bindings, snapshots>>

(* No answer, or one that says nothing: read back before anything else.    *)
Unknown(r) ==
    /\ run[r].pc \in {"create", "add", "delete"}
    /\ run' = [run EXCEPT ![r].pc = CASE run[r].pc = "create" -> "reconcile"
                                      [] run[r].pc = "add" -> "readback"
                                      [] OTHER -> "recheck"]
    /\ Local

(* Mutant: one of several will do.                                         *)
ReconcileAny(r) ==
    /\ run[r].pc = "reconcile"
    /\ \/ \E a \in Live : /\ Resembles(a, run[r].group)
                           /\ run' = [run EXCEPT ![r].pc = "verify", ![r].ad = a, ![r].request = None]
       \/ FailGroup(r)
    /\ Local

(* An unknown create is taken for done when one plan looks like it,        *)
(* whichever group of the template that was made for.                      *)
Reconcile(r) ==
    LET found == {a \in Live : Resembles(a, run[r].group)} IN
    /\ run[r].pc = "reconcile"
    /\ \/ \E a \in found : /\ found = {a}
                           /\ run' = [run EXCEPT ![r].pc = "verify", ![r].ad = a, ![r].request = None]
       \/ FailGroup(r)     \* none, several, or the read failed
    /\ Local

(* Mutant: a created plan need only exist.                                 *)
VerifyAlive(r) ==
    /\ run[r].pc = "verify"
    /\ \/ run[r].ad \in Live /\ run' = [run EXCEPT ![r].pc = "bind"]
       \/ FailGroup(r)
    /\ Local

(* verifyCreatedPlan wants the group's own product set, which the plan just *)
(* made for a group of fewer products than the template does not have.     *)
Verify(r) ==
    LET a == run[r].ad IN
    /\ run[r].pc = "verify"
    /\ \/ /\ a \in Live /\ Exact(a, run[r].group) /\ Name[a.source] = Name[run[r].group]
          /\ run' = [run EXCEPT ![r].pc = "bind"]
       \/ FailGroup(r)     \* create_unverified: a mismatch, or the read failed
    /\ Local

(* Mutant: an existing key is overwritten.                                *)
PutAnyway(g, ad, r) == bindings' = [bindings EXCEPT ![g] = [ad |-> ad, by |-> r]]

(* QianchuanPlanBindingStore.Put, under the binding file's own lock.       *)
Put(g, ad, r) ==
    /\ bindings[g] # None => bindings[g].ad = ad
    /\ bindings' = [bindings EXCEPT ![g] = [ad |-> ad, by |-> r]]

Bind(r) ==
    /\ run[r].pc = "bind"
    /\ \/ /\ Put(run[r].group, run[r].ad, r)
          /\ run' = [run EXCEPT ![r].pc = "append"]
       \/ FailGroup(r) /\ UNCHANGED bindings
    /\ UNCHANGED <<platform, snapshots, lock>>

(* Mutant: the read succeeding is enough.                                  *)
ReadbackAny(r) ==
    /\ run[r].pc = "readback"
    /\ run' = [run EXCEPT ![r].pc = "append", ![r].left = @ \ run[r].request.works, ![r].request = None]
    /\ Local

Readback(r) ==
    /\ run[r].pc = "readback"
    /\ \/ /\ run[r].request.works \subseteq items[run[r].ad]
          /\ run' = [run EXCEPT ![r].pc = "append", ![r].left = @ \ run[r].request.works, ![r].request = None]
       \/ FailGroup(r)     \* append_unknown: works missing, or the read failed
    /\ Local

-----------------------------------------------------------------------------
(* qc-plans remove-works and qc-plans bind                                 *)

(* One work of one plan; nothing is sent for a work that is not in it.     *)
Read(r) ==
    /\ run[r].pc = "read"
    /\ \E a \in Live, w \in Works :
          IF w \in items[a]
          THEN Dispatch(r, [kind |-> "delete", run |-> r, ad |-> a, works |-> {w}], [run[r] EXCEPT !.pc = "delete"])
          ELSE Return(r)

Recheck(r) ==
    LET q == run[r].request IN
    /\ run[r].pc = "recheck"
    /\ run' = [run EXCEPT ![r].pc = "groups", ![r].request = None,
                          ![r].removed = IF q.works \cap items[q.ad] = {} THEN {q.ad} \X q.works ELSE {}]
    /\ Local

(* The candidates of the audit; the operator has confirmed one of them.    *)
Audit(r) ==
    /\ run[r].pc = "audit"
    /\ \E g \in Groups, a \in Live :
          /\ Exact(a, g)
          /\ run' = [run EXCEPT ![r].pc = "put", ![r].group = g, ![r].ad = a]
    /\ Local

Confirm(r) ==
    /\ run[r].pc = "put"
    /\ Put(run[r].group, run[r].ad, r) \/ UNCHANGED bindings
    /\ run' = [run EXCEPT ![r] = Ended]
    /\ lock' = None
    /\ UNCHANGED <<platform, snapshots>>

-----------------------------------------------------------------------------
(* The platform                                                            *)

Effect(q) ==
    /\ plans' = IF q.kind = "create" THEN plans \cup {q.ad} ELSE plans
    /\ items' = [items EXCEPT ![q.ad] = IF q.kind = "delete" THEN @ \ q.works ELSE @ \cup q.works]

Land(q) ==
    /\ q.kind = "create" \/ q.ad \in Live
    /\ Effect(q)
    /\ inflight' = inflight \ {q}
    /\ IF run[q.run].request = q THEN applied' = applied \cup {q} /\ late' = late
                                 ELSE late' = late \cup {q} /\ applied' = applied
    /\ UNCHANGED <<deleted, outside, bindings, snapshots, lock, run>>

(* People create a plan of their own, or delete any plan.                  *)
Outside ==
    /\ outside < MaxOutside
    /\ outside' = outside + 1
    /\ \/ /\ \E f \in Foreign : /\ [source |-> f, run |-> None] \notin plans
                                /\ plans' = plans \cup {[source |-> f, run |-> None]}
          /\ UNCHANGED deleted
       \/ /\ \E a \in Live : deleted' = deleted \cup {a}
          /\ UNCHANGED plans
    /\ UNCHANGED <<items, inflight, applied, late, bindings, snapshots, lock, run>>

-----------------------------------------------------------------------------
Init ==
    /\ plans = {} /\ deleted = {} /\ items = [a \in Ads |-> {}]
    /\ inflight = {} /\ applied = {} /\ late = {} /\ outside = 0
    /\ bindings = [g \in Groups |-> None]
    /\ snapshots = [r \in Runs |-> None]
    /\ lock = None
    /\ run = [r \in Runs |-> Fresh]

Look(r) == Scan(r) \/ Decide(r) \/ Prepare(r) \/ Revalidated(r) \/ Save(r)
Write(r) == ReportGroup(r) \/ CreatePlan(r) \/ OpenPlan(r) \/ Append(r) \/ EndRun(r)
Answer(r) == Acknowledge(r) \/ Refuse(r) \/ Unknown(r)
Settle(r) == Reconcile(r) \/ Verify(r) \/ Bind(r) \/ Readback(r)
Manual(r) == Read(r) \/ Recheck(r) \/ Audit(r) \/ Confirm(r)

(* What the process of a started run does of its own accord.               *)
RunStep(r) == Lock(r) \/ Abandon(r) \/ Look(r) \/ Write(r) \/ Answer(r) \/ Settle(r) \/ Manual(r)

Next ==
    \/ \E r \in Runs : Start(r) \/ RunStep(r) \/ Crash(r)
    \/ \E q \in inflight : Land(q)
    \/ Outside

Spec == Init /\ [][Next]_vars

-----------------------------------------------------------------------------
(* Properties                                                              *)

(* Every variable keeps its type.                                          *)
TypeOK ==
    /\ plans \subseteq Ads /\ deleted \subseteq plans /\ items \in [Ads -> SUBSET Works]
    /\ inflight \subseteq Requests /\ applied \subseteq Requests /\ late \subseteq Requests
    /\ outside \in 0..MaxOutside
    /\ bindings \in [Groups -> Bindings \cup {None}]
    /\ \A r \in Runs : snapshots[r] = None \/ snapshots[r] \in [Groups -> Expectations]
    /\ lock \in Runs \cup {None}
    /\ \A r \in Runs :
          /\ DOMAIN run[r] = DOMAIN Fresh
          /\ run[r].pc \in Pcs /\ run[r].request \in Requests \cup {None}
          /\ run[r].expected = None \/ run[r].expected \in [Groups -> Expectations]
          /\ run[r].inventory \subseteq Ads /\ run[r].policy \in [Groups -> Policies \cup {None}]
          /\ \A g \in Groups : run[r].present[g] = None \/ run[r].present[g] \subseteq Works
          /\ run[r].unread \subseteq Groups /\ run[r].todo \subseteq Groups
          /\ run[r].group \in Groups \cup {None} /\ run[r].ad \in Ads \cup {None}
          /\ run[r].left \subseteq Works /\ run[r].changed \subseteq Groups
          /\ run[r].claimed \subseteq Ads \X Works /\ run[r].removed \subseteq Ads \X Works

Later(kinds, a, w) == \E q \in late : q.kind \in kinds /\ q.ad = a /\ w \in q.works

(* A group that has all of the template's products is created twice only  *)
(* when the platform applied a create after its sender had given up on it: *)
(* neither a crash between create and bind, nor a second submit of one     *)
(* preflight, nor two concurrent submits do it.                            *)
OnePlanPerGroup ==
    \A a, b \in Live :
        (a.source \in Groups /\ a.source = b.source /\ a # b /\ Products[a.source] = TemplateProducts) =>
            \E q \in late : q.kind = "create" /\ q.ad \in {a, b}

(* The reference has a submit resolve the existing plan of a group and     *)
(* append to it: it would be created again only as above, whatever its     *)
(* products.                                                               *)
ExistingPlanIsResolved ==
    \A a, b \in Live :
        (a.source \in Groups /\ a.source = b.source /\ a # b) =>
            \E q \in late : q.kind = "create" /\ q.ad \in {a, b}

(* A binding always leads to a plan of the group's creator and complete    *)
(* product set, whatever the readback of an unknown create came up with.   *)
BoundIsSound ==
    \A g \in Groups : bindings[g] # None => bindings[g].ad \in plans /\ Exact(bindings[g].ad, g)

(* Of the plan that run r asked for on behalf of group g there was nothing *)
(* to be found when it read back: the request was undecided then, or the   *)
(* plan already deleted.                                                   *)
Missed(r, g) ==
    LET own == [source |-> g, run |-> r] IN
    own \in deleted \/ \E q \in inflight \cup late : q.kind = "create" /\ q.ad = own
(* Another's plan has then been taken for it.                              *)
Adopted(r, a, g) == a.source # g /\ Missed(r, g)

(* But for an operator, a run binds a group to the plan it has made for it *)
(* and to another's only when the one it asked for was nowhere to be seen. *)
GroupsKeepOwnPlans ==
    \A g \in Groups :
        LET b == bindings[g] IN
        (b # None /\ Command[b.by] # "bind") => b.ad.source = g \/ Adopted(b.by, b.ad, g)

(* Over all runs of a day, whatever their order and their crashes, a group *)
(* has a sound binding or none, and another's plan only for want of its    *)
(* own.                                                                    *)
GroupsKeepSoundPlans == TypeOK /\ BoundIsSound /\ GroupsKeepOwnPlans

(* While a run still holds the lock, what it reports is so: the works of a *)
(* group it calls created, appended or already present are in the plan,    *)
(* and the material it calls deleted is not.  Of a plan taken for the one  *)
(* it asked for, it has not looked at the works that were in the request.  *)
ReportsAreTrue ==
    \A r \in Runs : lock = r =>
        /\ \A c \in run[r].claimed :
              LET g == GroupOf[c[2]] IN
              \/ c[2] \in items[c[1]] \/ Later({"delete"}, c[1], c[2])
              \/ Adopted(r, c[1], g) /\ c[2] \in FirstOf(WorksOf(g))
        /\ \A c \in run[r].removed : c[2] \notin items[c[1]] \/ Later({"create", "add"}, c[1], c[2])

Sent == inflight' \ inflight
TargetGroup(q) == GroupOf[CHOOSE w \in q.works : TRUE]

(* At the moment a submit sends a write, the preflight announced exactly   *)
(* that write and the group's binding is still the one it saw, or the one  *)
(* this submit has just made.                                              *)
SendsWhatWasPrepared ==
    \A q \in Sent : Command[q.run] = "submit" =>
        LET g == TargetGroup(q)
            expected == run[q.run].expected[g] IN
        /\ q.works \subseteq expected.write
        /\ IF q.kind = "create" THEN expected.action = "would_create" /\ bindings[g] = None
           ELSE /\ bindings[g] # None /\ bindings[g].ad = q.ad
                /\ bindings[g] = expected.binding \/ bindings[g].by = q.run

(* A work already in the plan is not appended again, unless a request its  *)
(* sender had given up on put it there.                                    *)
SendsOnlyMissing ==
    \A q \in Sent : q.kind = "add" =>
        \A w \in q.works \cap items[q.ad] : Later({"create", "add"}, q.ad, w)

(* A write on the platform is one the preflight announced and the plan     *)
(* still lacks.                                                            *)
WritesAreDue == [][SendsWhatWasPrepared /\ SendsOnlyMissing]_vars

(* A group's binding of the day never moves to another plan.               *)
BindingNeverMoves ==
    [][\A g \in Groups : bindings[g] # None => bindings'[g] # None /\ bindings'[g].ad = bindings[g].ad]_vars
=============================================================================
