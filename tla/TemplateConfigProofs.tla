------------------------- MODULE TemplateConfigProofs -------------------------
(***************************************************************************)
(* The configuration file under any number of concurrent commands, names,  *)
(* advertisers and products.                                               *)
(***************************************************************************)
EXTENDS TemplateConfig, FiniteSetTheorems, SequenceTheorems, TLAPS

Pcs == {"idle", "prepared", "writing", "ended"}

Own(t) == \A g \in Groups : t.owned[g] \in {None, <<t.advertiser, t.product>>}

(* A template that plans can be created from, with its own assets only.    *)
Sound(n, t) == MarketingValidationRow(n, t) /\ ApplyMarketingPlanTemplate(t, t.advertiser) /\ Own(t)

(* A file whose templates are sound and name only templates it holds, or   *)
(* ones that were deleted by force.                                        *)
References(t) == {t.from, t.copied} \ {None}
Good(cfg, gone) ==
    /\ cfg \in Files
    /\ \A n \in Stored(cfg) : /\ Sound(n, cfg.marketing[n])
                              /\ References(cfg.marketing[n]) \subseteq Stored(cfg) \cup gone

(* What a command has worked out is good, and nothing was written since    *)
(* a command in the lock compared the file with its copy.                  *)
Invocation(r) ==
    /\ run[r].pc \in Pcs
    /\ run[r].pc \in {"prepared", "writing"}
          => run[r].forces \subseteq Names /\ Good(run[r].next, forced \cup run[r].forces)
    /\ run[r].pc = "writing" => lock = r /\ file = run[r].base

ConfigInv ==
    /\ Good(file, forced) /\ lock \in Runs \cup {None} /\ forced \subseteq Names
    /\ DOMAIN run = Runs
    /\ \A r \in Runs : /\ Invocation(r)
                       /\ run[r] = [pc |-> run[r].pc, base |-> run[r].base, next |-> run[r].next,
                                    swap |-> run[r].swap, forces |-> run[r].forces]

-----------------------------------------------------------------------------
LEMMA GoodStays ==
    ASSUME NEW cfg, NEW gone, NEW more, gone \subseteq more, Good(cfg, gone) PROVE Good(cfg, more)
BY DEF Good

LEMMA TypedFile ==
    ASSUME NEW cfg \in Files, NEW n \in Stored(cfg) PROVE cfg.marketing[n] \in Marketing /\ n \in Names
BY DEF Stored, Files

(* A packaged file is good, and so is one with a handmade template.        *)
LEMMA SkeletonGood == ASSUME NEW links \in BOOLEAN PROVE Good(Skeleton(links), {})
BY DEF Good, Skeleton, Files, Stored, AccountStates

(* A file keeps good when one Marketing template is put into it: a sound   *)
(* one, that names templates of the file.                                  *)
LEMMA PutTemplate ==
    ASSUME NEW cfg, NEW gone, Good(cfg, gone), NEW n \in Names, NEW t \in Marketing, Sound(n, t),
           References(t) \subseteq Stored(cfg) \cup gone
    PROVE  Good([cfg EXCEPT !.marketing[n] = t], gone)
<1> DEFINE next == [cfg EXCEPT !.marketing[n] = t]
<1>1. cfg \in Files
  BY DEF Good
<1>2. next \in Files /\ next.marketing = [cfg.marketing EXCEPT ![n] = t]
  BY <1>1 DEF Files
<1>3. \A m \in Names : next.marketing[m] = IF m = n THEN t ELSE cfg.marketing[m]
  BY <1>1, <1>2 DEF Files
<1> HIDE DEF next
<1>4. n \in Stored(next) /\ Stored(cfg) \subseteq Stored(next)
  BY <1>3, NoneAssumption DEF Stored
<1>5. ASSUME NEW m \in Stored(next)
      PROVE  Sound(m, next.marketing[m]) /\ References(next.marketing[m]) \subseteq Stored(next) \cup gone
  <2>1. m \in Names /\ next.marketing[m] # None
    BY DEF Stored
  <2>2. CASE m = n
    <3>1. next.marketing[m] = t
      BY <1>3, <2>1, <2>2
    <3> QED BY <1>4, <2>2, <3>1
  <2>3. CASE m # n
    <3>1. next.marketing[m] = cfg.marketing[m] /\ m \in Stored(cfg)
      BY <1>3, <2>1, <2>3 DEF Stored
    <3>2. Sound(m, cfg.marketing[m]) /\ References(cfg.marketing[m]) \subseteq Stored(cfg) \cup gone
      BY <3>1 DEF Good
    <3> QED BY <1>4, <3>1, <3>2
  <2> QED BY <2>2, <2>3
<1> QED BY <1>2, <1>5 DEF Good, next

LEMMA HandmadeSound ==
    ASSUME NEW n \in Names, NEW a \in Advertisers, NEW p \in Products, NEW s \in SourceTypes
    PROVE  /\ Handmade(n, a, p, s) \in Marketing /\ Sound(n, Handmade(n, a, p, s))
           /\ References(Handmade(n, a, p, s)) = {}
<1>1. Handmade(n, a, p, s) \in Marketing
  BY DEF Handmade, Marketing, Groups, Pairs
<1>2. Sound(n, Handmade(n, a, p, s))
  BY SetAssumption DEF Handmade, Sound, MarketingValidationRow, ApplyMarketingPlanTemplate, Own
<1>3. References(Handmade(n, a, p, s)) = {}
  BY DEF Handmade, References
<1> QED BY <1>1, <1>2, <1>3

LEMMA FirstFileGood == Init => Good(file, {})
<1> SUFFICES ASSUME Init PROVE Good(file, {})
  OBVIOUS
<1>1. PICK links \in BOOLEAN :
          \/ file = Skeleton(links)
          \/ \E n \in Names, a \in Advertisers, p \in Products, s \in SourceTypes :
                file = [Skeleton(links) EXCEPT !.marketing[n] = Handmade(n, a, p, s)]
  BY DEF Init
<1>2. CASE file = Skeleton(links)
  BY <1>2, SkeletonGood
<1>3. ASSUME NEW n \in Names, NEW a \in Advertisers, NEW p \in Products, NEW s \in SourceTypes,
             file = [Skeleton(links) EXCEPT !.marketing[n] = Handmade(n, a, p, s)]
      PROVE  Good(file, {})
  <2>1. References(Handmade(n, a, p, s)) \subseteq Stored(Skeleton(links)) \cup {}
    BY HandmadeSound
  <2> QED BY <1>3, <2>1, SkeletonGood, HandmadeSound, PutTemplate
<1> QED BY <1>1, <1>2, <1>3

-----------------------------------------------------------------------------
(* Each command keeps a good file good                                     *)

(* What a clone takes over was entered for the same product of the same    *)
(* advertiser, whatever chain of clones the source comes from.             *)
LEMMA CloneSound ==
    ASSUME NEW cfg, NEW gone, Good(cfg, gone), NEW in \in Answers,
           NEW from \in MarketingCreateSources(cfg, in.source),
           "creators" \in in.given => in.source = "CREATOR_AUTHORIZED"
    PROVE  LET t == BuildMarketingTemplate(cfg, from, in)
           IN t \in Marketing /\ Sound(in.name, t) /\ References(t) \subseteq Stored(cfg)
<1> DEFINE source == IF from = None THEN None ELSE cfg.marketing[from]
           pair == <<in.advertiser, in.product>>
           policy == MarketingClonePolicy(source, in.advertiser, in.product)
           owned == [PrepareMarketingSource(source, policy)
                        EXCEPT !["product"] = ProductInfo(source, policy, pair),
                               !["link"] = IF "links" \in in.given THEN pair ELSE @]
           t == BuildMarketingTemplate(cfg, from, in)
<1>1. /\ in.name \in Names /\ in.advertiser \in Advertisers /\ in.product \in Products
      /\ in.source \in SourceTypes
  BY SetAssumption DEF Answers, PromptAdvertiserID
<1>2. from = None \/ from \in Stored(cfg)
  BY DEF MarketingCreateSources
<1>3. source = None \/ (source \in Marketing /\ Own(source))
  BY <1>2, TypedFile DEF Good, Sound
<1>4. source # None /\ policy = "same_advertiser_same_product"
        => source.advertiser = in.advertiser /\ source.product = in.product
  BY DEF MarketingClonePolicy
<1>5. PrepareMarketingSource(source, policy) \in [Groups -> {None, pair}]
  <2>1. CASE source # None /\ policy = "same_advertiser_same_product"
    <3>1. source.owned \in [Groups -> Pairs \cup {None}]
      BY <1>3, <2>1 DEF Marketing
    <3>2. \A g \in Groups : source.owned[g] \in {None, pair}
      BY <1>3, <1>4, <2>1 DEF Own
    <3> HIDE DEF source, pair, policy
    <3>3. PrepareMarketingSource(source, policy) = source.owned
      BY <2>1 DEF PrepareMarketingSource
    <3> QED BY <3>1, <3>2, <3>3
  <2>2. CASE ~(source # None /\ policy = "same_advertiser_same_product")
    <3> HIDE DEF source, pair, policy
    <3> QED BY <2>2 DEF PrepareMarketingSource, NoOverrides
  <2> QED BY <2>1, <2>2
<1>6. ProductInfo(source, policy, pair) \in {None, pair}
  <2>1. CASE policy = "same_advertiser_same_product" /\ source.owned["product"] # None /\ source # None
    <3>1. source.owned["product"] \in {None, pair}
      BY <1>3, <1>4, <2>1 DEF Own, Groups
    <3> HIDE DEF source, pair, policy
    <3> QED BY <2>1, <3>1 DEF ProductInfo
  <2>2. CASE source = None
    <3>1. policy # "same_advertiser_same_product"
      BY <2>2 DEF MarketingClonePolicy
    <3> HIDE DEF source, pair, policy
    <3> QED BY <3>1 DEF ProductInfo
  <2>3. CASE ~(policy = "same_advertiser_same_product" /\ source.owned["product"] # None)
    <3> HIDE DEF source, pair, policy
    <3> QED BY <2>3 DEF ProductInfo
  <2> QED BY <2>1, <2>2, <2>3
<1>7. owned \in [Groups -> {None, pair}]
  <2> HIDE DEF source, pair, policy
  <2> QED BY <1>5, <1>6
<1>8. pair \in Pairs
  BY <1>1 DEF Pairs
<1>9. /\ t.name = in.name /\ t.advertiser = in.advertiser /\ t.product = in.product
      /\ t.unique = in.product /\ t.source = in.source
      /\ t.creators = MaterialCreators(source, in)
      /\ t.titles = CopyTitles(source, policy, in)
      /\ t.owned = owned /\ t.from = from /\ t.copied = None
      /\ t = [name |-> t.name, advertiser |-> t.advertiser, product |-> t.product, unique |-> t.unique,
              source |-> t.source, creators |-> t.creators, titles |-> t.titles, owned |-> t.owned,
              from |-> t.from, copied |-> t.copied]
  BY DEF BuildMarketingTemplate, ResolvedProduct
<1>10. MaterialCreators(source, in) \in Advertisers \cup {None}
  BY <1>1, <1>3 DEF MaterialCreators, Marketing
<1>11. in.source = "ACCOUNT_UPLOAD" => MaterialCreators(source, in) = None
  BY DEF MaterialCreators
<1>12. CopyTitles(source, policy, in) \in BOOLEAN
  BY DEF CopyTitles
<1> HIDE DEF source, pair, policy, owned, t
<1>13. t \in Marketing
  <2>1. t.owned \in [Groups -> Pairs \cup {None}]
    BY <1>7, <1>8, <1>9
  <2>2. t.from \in Names \cup {None}
    BY <1>2, <1>9 DEF Stored
  <2> QED BY <1>1, <1>9, <1>10, <1>12, <2>1, <2>2 DEF Marketing
<1>14. Sound(in.name, t)
  <2>1. Own(t)
    BY <1>7, <1>9 DEF Own, pair
  <2> QED BY <1>9, <1>11, <2>1 DEF Sound, MarketingValidationRow, ApplyMarketingPlanTemplate
<1>15. References(t) \subseteq Stored(cfg)
  BY <1>2, <1>9 DEF References
<1> QED BY <1>13, <1>14, <1>15 DEF t

LEMMA ApplyMarketingGood ==
    ASSUME NEW cfg, NEW gone, Good(cfg, gone), NEW n \in Names, NEW t \in Marketing, Sound(n, t),
           References(t) \subseteq Stored(cfg), NEW next \in ApplyMarketingTemplate(cfg, n, t)
    PROVE  Good(next, gone)
BY PutTemplate DEF ApplyMarketingTemplate

LEMMA SetCopyGood ==
    ASSUME NEW cfg, NEW gone, Good(cfg, gone), NEW n \in Names, NEW from \in Names \cup {None},
           NEW next \in SetCopy(cfg, n, from)
    PROVE  Good(next, gone)
<1> DEFINE old == cfg.marketing[n]
           t == [old EXCEPT !.titles = TRUE, !.copied = from]
<1>1. n \in Stored(cfg) /\ (from = None \/ from \in Stored(cfg)) /\ cfg \in Files
  BY DEF SetCopy, Stored, Good
<1>2. old \in Marketing /\ Sound(n, old) /\ References(old) \subseteq Stored(cfg) \cup gone
  BY <1>1, TypedFile DEF Good
<1>3. next = [cfg EXCEPT !.marketing[n] = t]
  BY <1>1, ZenonT(60) DEF SetCopy, Files
<1> HIDE DEF old
<1>4. /\ t \in Marketing /\ t.name = old.name /\ t.advertiser = old.advertiser /\ t.product = old.product
      /\ t.unique = old.unique /\ t.source = old.source /\ t.creators = old.creators
      /\ t.owned = old.owned /\ t.from = old.from /\ t.copied = from
  BY <1>2 DEF Marketing
<1> HIDE DEF t
<1>5. Sound(n, t)
  BY <1>2, <1>4 DEF Sound, MarketingValidationRow, ApplyMarketingPlanTemplate, Own
<1>6. References(t) \subseteq Stored(cfg) \cup gone
  BY <1>1, <1>2, <1>4 DEF References
<1> QED BY <1>3, <1>4, <1>5, <1>6, PutTemplate

(* Whoever deletes a template others name must have said --force.          *)
LEMMA DeleteGood ==
    ASSUME NEW cfg, NEW gone, Good(cfg, gone), NEW n \in Names, NEW force \in BOOLEAN,
           NEW next \in DeleteMarketing(cfg, n, force)
    PROVE  Good(next, gone \cup (IF force THEN {n} ELSE {}))
<1>1. cfg \in Files /\ (MarketingDependents(cfg, n) = {} \/ force)
  BY DEF DeleteMarketing, Good
<1>2. next = [cfg EXCEPT !.marketing[n] = None]
  BY DEF DeleteMarketing
<1>3. next \in Files /\ \A m \in Names : next.marketing[m] = IF m = n THEN None ELSE cfg.marketing[m]
  BY <1>1, <1>2 DEF Files
<1>4. Stored(next) = Stored(cfg) \ {n}
  BY <1>3 DEF Stored
<1>5. ASSUME NEW m \in Stored(next)
      PROVE  /\ Sound(m, next.marketing[m])
             /\ References(next.marketing[m]) \subseteq Stored(next) \cup gone \cup (IF force THEN {n} ELSE {})
  <2>1. m \in Stored(cfg) \ {n} /\ m \in Names /\ next.marketing[m] = cfg.marketing[m]
    BY <1>3, <1>4 DEF Stored
  <2>2. Sound(m, cfg.marketing[m]) /\ References(cfg.marketing[m]) \subseteq Stored(cfg) \cup gone
    BY <2>1 DEF Good
  <2>3. force \/ n \notin References(cfg.marketing[m])
    BY <1>1, <2>1 DEF MarketingDependents, References
  <2> QED BY <1>4, <2>1, <2>2, <2>3
<1> QED BY <1>3, <1>5 DEF Good

(* What only changes the other sections of a file keeps it good.           *)
LEMMA SameTemplates ==
    ASSUME NEW cfg, NEW gone, Good(cfg, gone), NEW next \in Files, next.marketing = cfg.marketing
    PROVE  Good(next, gone)
BY DEF Good, Stored

LEMMA QianchuanGood ==
    ASSUME NEW cfg, NEW gone, Good(cfg, gone), NEW id \in Runs, NEW t \in Qianchuan \cup {None}
    PROVE  Good([cfg EXCEPT !.product[id] = t], gone) /\ Good([cfg EXCEPT !.live[id] = t], gone)
<1>1. cfg \in Files
  BY DEF Good
<1>2. /\ [cfg EXCEPT !.product[id] = t] \in Files /\ [cfg EXCEPT !.product[id] = t].marketing = cfg.marketing
      /\ [cfg EXCEPT !.live[id] = t] \in Files /\ [cfg EXCEPT !.live[id] = t].marketing = cfg.marketing
  BY <1>1 DEF Files
<1> QED BY <1>2, SameTemplates

LEMMA CreateQianchuanGood ==
    ASSUME NEW cfg, NEW gone, Good(cfg, gone), NEW kind \in {"product", "live"}, NEW id \in Runs,
           NEW name \in DisplayNames, NEW next \in ApplyQianchuanTemplate(cfg, kind, id, name)
    PROVE  Good(next, gone)
<1>1. [name |-> name] \in Qianchuan
  BY DEF Qianchuan
<1> DEFINE t == [name |-> name]
<1>2. next = [cfg EXCEPT ![kind][id] = t]
  BY DEF ApplyQianchuanTemplate
<1> HIDE DEF t
<1>3. CASE kind = "product"
  <2>1. next = [cfg EXCEPT !.product[id] = t]
    BY <1>2, <1>3
  <2> QED BY <1>1, <2>1, QianchuanGood DEF t
<1>4. CASE kind = "live"
  <2>1. next = [cfg EXCEPT !.live[id] = t]
    BY <1>2, <1>4
  <2> QED BY <1>1, <2>1, QianchuanGood DEF t
<1> QED BY <1>3, <1>4

LEMMA Resolved == ASSUME NEW templates, NEW selector PROVE Resolve(templates, selector) \subseteq Runs
BY DEF Resolve

LEMMA DeleteQianchuanGood ==
    ASSUME NEW cfg, NEW gone, Good(cfg, gone), NEW selector, NEW next \in DeleteQianchuan(cfg, selector)
    PROVE  Good(next, gone)
<1>1. \/ \E i \in Resolve(cfg.product, selector) : next = [cfg EXCEPT !.product[i] = None]
      \/ \E i \in Resolve(cfg.live, selector) : next = [cfg EXCEPT !.live[i] = None]
  BY DEF DeleteQianchuan
<1>2. ASSUME NEW i \in Runs
      PROVE  Good([cfg EXCEPT !.product[i] = None], gone) /\ Good([cfg EXCEPT !.live[i] = None], gone)
  <2> DEFINE t == None
  <2>1. t \in Qianchuan \cup {None}
    OBVIOUS
  <2> HIDE DEF t
  <2>2. Good([cfg EXCEPT !.product[i] = t], gone) /\ Good([cfg EXCEPT !.live[i] = t], gone)
    BY <2>1, QianchuanGood
  <2> QED BY <2>2 DEF t
<1>3. Resolve(cfg.product, selector) \subseteq Runs /\ Resolve(cfg.live, selector) \subseteq Runs
  BY Resolved
<1> QED BY <1>1, <1>2, <1>3

LEMMA UpdateGood ==
    ASSUME NEW cfg, NEW gone, Good(cfg, gone), NEW selector, NEW name \in DisplayNames,
           NEW next \in UpdateQianchuanProductTemplate(cfg, selector, name)
    PROVE  Good(next, gone)
<1>1. \E i \in Resolve(cfg.product, selector) : next = [cfg EXCEPT !.product[i] = [name |-> name]]
  BY DEF UpdateQianchuanProductTemplate
<1>2. [name |-> name] \in Qianchuan
  BY DEF Qianchuan
<1> DEFINE t == [name |-> name]
<1>3. PICK i \in Resolve(cfg.product, selector) : next = [cfg EXCEPT !.product[i] = t]
  BY <1>1
<1>4. i \in Runs /\ t \in Qianchuan \cup {None}
  BY <1>2, Resolved
<1> HIDE DEF t
<1> QED BY <1>3, <1>4, QianchuanGood

-----------------------------------------------------------------------------
LEMMA ConfigInitially == Init => ConfigInv
<1> SUFFICES ASSUME Init PROVE ConfigInv
  OBVIOUS
<1>1. Good(file, forced)
  BY FirstFileGood DEF Init
<1>2. \A r \in Runs : run[r] = Idle
  BY DEF Init
<1> QED BY <1>1, <1>2 DEF Init, ConfigInv, Invocation, Idle, Pcs

(* A step that takes one command further: what is left to show is about    *)
(* that command.                                                           *)
Shape(new) == new = [pc |-> new.pc, base |-> new.base, next |-> new.next, swap |-> new.swap,
                     forces |-> new.forces]
LEMMA RunMoves ==
    ASSUME ConfigInv, NEW r \in Runs, NEW new, run' = [run EXCEPT ![r] = new],
           UNCHANGED <<file, forced>>, Shape(new), new.pc \in Pcs,
           lock' \in Runs \cup {None}, lock' = lock \/ lock \in {None, r},
           new.pc \in {"prepared", "writing"}
              => new.forces \subseteq Names /\ Good(new.next, forced \cup new.forces),
           new.pc = "writing" => lock' = r /\ file = new.base
    PROVE  ConfigInv'
<1>1. run'[r] = new /\ \A s \in Runs \ {r} : run'[s] = run[s]
  BY DEF ConfigInv
<1>2. ASSUME NEW s \in Runs PROVE Invocation(s)' /\ Shape(run'[s])
  <2>1. CASE s = r
    BY <1>1, <2>1 DEF Invocation
  <2>2. CASE s # r
    <3>1. run'[s] = run[s] /\ Invocation(s) /\ Shape(run[s])
      BY <1>1, <2>2 DEF ConfigInv, Shape
    <3>2. run[s].pc = "writing" => lock' = lock
      BY <2>2, <3>1, SetAssumption DEF Invocation
    <3> QED BY <3>1, <3>2 DEF Invocation
  <2> QED BY <2>1, <2>2
<1> QED BY <1>1, <1>2 DEF ConfigInv, Shape

LEMMA EndedShape == Shape(Ended) /\ Ended.pc = "ended" /\ Ended.pc \in Pcs
<1>1. Idle.pc = "idle" /\ Shape(Idle)
  BY DEF Idle, Shape
<1>2. Ended.pc = "ended"
  BY DEF Ended, Idle
<1>3. Shape(Ended)
  BY <1>1 DEF Shape, Ended
<1> QED BY <1>2, <1>3 DEF Pcs

LEMMA RunEnds ==
    ASSUME ConfigInv, NEW r \in Runs, run' = [run EXCEPT ![r] = Ended], UNCHANGED <<file, forced>>,
           lock' \in Runs \cup {None}, lock' = lock \/ lock \in {None, r}
    PROVE  ConfigInv'
BY EndedShape, RunMoves

(* A command that has read the file: what it will write is good.           *)
LEMMA PrepareKeeps ==
    ASSUME ConfigInv, NEW r \in Runs, NEW command, NEW result, NEW forces \in SUBSET Names,
           Prepare(r, command, result, forces),
           \A next \in result : Good(next, forced \cup forces)
    PROVE  ConfigInv'
<1>1. UNCHANGED <<file, lock, forced>> /\ lock \in Runs \cup {None}
  BY DEF Prepare, ConfigInv
<1>2. CASE run' = [run EXCEPT ![r] = Ended]
  BY <1>1, <1>2, RunEnds
<1>3. ASSUME NEW f \in result,
             run' = [run EXCEPT ![r] = [pc |-> "prepared", base |-> file, next |-> f,
                                        swap |-> TRUE, forces |-> forces]]
      PROVE  ConfigInv'
  <2> DEFINE new == [pc |-> "prepared", base |-> file, next |-> f, swap |-> TRUE, forces |-> forces]
  <2>1. Shape(new) /\ new.pc = "prepared" /\ new.pc \in Pcs /\ new.next = f /\ new.forces = forces
    BY DEF Shape, Pcs
  <2>2. run' = [run EXCEPT ![r] = new]
    BY <1>3
  <2> HIDE DEF new
  <2> QED BY <1>1, <2>1, <2>2, RunMoves
<1> QED BY <1>2, <1>3 DEF Prepare

(* A command that changes the file under its lock.                         *)
LEMMA UpdateLockedKeeps ==
    ASSUME ConfigInv, NEW r \in Runs, NEW command, NEW next, NEW forces \in SUBSET Names,
           UpdateLocked(r, command, next, forces), Good(next, forced \cup forces)
    PROVE  ConfigInv'
<1> DEFINE new == [pc |-> "writing", base |-> file, next |-> next, swap |-> FALSE, forces |-> forces]
<1>1. Shape(new) /\ new.pc = "writing" /\ new.pc \in Pcs /\ new.next = next /\ new.forces = forces
      /\ new.base = file
  BY DEF Shape, Pcs
<1>2. run' = [run EXCEPT ![r] = new] /\ lock = None /\ lock' = r /\ UNCHANGED <<file, forced>>
  BY DEF UpdateLocked
<1> HIDE DEF new
<1> QED BY <1>1, <1>2, RunMoves

-----------------------------------------------------------------------------
LEMMA CommandKeeps == ASSUME ConfigInv, NEW r \in Runs, Command(r) PROVE ConfigInv'
<1>1. Good(file, forced) /\ file \in Files
  BY DEF ConfigInv, Good
<1>2. \A cfg, forces : Good(cfg, forced) => Good(cfg, forced \cup forces)
  BY GoodStays
<1>3. CASE CreateMarketing(r)
  <2>1. PICK in \in Answers : \E from \in MarketingCreateSources(file, in.source) :
          /\ "creators" \in in.given => in.source = "CREATOR_AUTHORIZED"
          /\ Prepare(r, "create", ApplyMarketingTemplate(file, in.name, BuildMarketingTemplate(file, from, in)), {})
    BY <1>3 DEF CreateMarketing
  <2>2. PICK from \in MarketingCreateSources(file, in.source) :
          /\ "creators" \in in.given => in.source = "CREATOR_AUTHORIZED"
          /\ Prepare(r, "create", ApplyMarketingTemplate(file, in.name, BuildMarketingTemplate(file, from, in)), {})
    BY <2>1
  <2> DEFINE t == BuildMarketingTemplate(file, from, in)
  <2>3. t \in Marketing /\ Sound(in.name, t) /\ References(t) \subseteq Stored(file) /\ in.name \in Names
    BY <1>1, <2>2, CloneSound DEF Answers
  <2>4. Prepare(r, "create", ApplyMarketingTemplate(file, in.name, t), {})
    BY <2>2
  <2> HIDE DEF t
  <2>5. \A next \in ApplyMarketingTemplate(file, in.name, t) : Good(next, forced \cup {})
    BY <1>1, <2>3, ApplyMarketingGood
  <2> QED BY <2>4, <2>5, PrepareKeeps
<1>4. CASE CreateQianchuan(r)
  <2>1. PICK kind \in {"product", "live"}, name \in DisplayNames :
          Prepare(r, "create_qianchuan", ApplyQianchuanTemplate(file, kind, r, name), {})
    BY <1>4 DEF CreateQianchuan
  <2>2. \A next \in ApplyQianchuanTemplate(file, kind, r, name) : Good(next, forced \cup {})
    BY <1>1, CreateQianchuanGood
  <2> QED BY <2>1, <2>2, PrepareKeeps
<1>5. CASE Delete(r)
  <2>1. ASSUME NEW n \in Names, NEW force \in BOOLEAN,
               Prepare(r, "delete", DeleteMarketing(file, n, force), IF force THEN {n} ELSE {})
        PROVE  ConfigInv'
    <3> DEFINE forces == IF force THEN {n} ELSE {}
    <3>1. forces \in SUBSET Names /\ Prepare(r, "delete", DeleteMarketing(file, n, force), forces)
      BY <2>1
    <3>2. \A next \in DeleteMarketing(file, n, force) : Good(next, forced \cup forces)
      BY <1>1, DeleteGood
    <3> HIDE DEF forces
    <3> QED BY <3>1, <3>2, PrepareKeeps
  <2>2. ASSUME NEW selector \in Runs \cup DisplayNames,
               Prepare(r, "delete_qianchuan", DeleteQianchuan(file, selector), {})
        PROVE  ConfigInv'
    <3>1. \A next \in DeleteQianchuan(file, selector) : Good(next, forced \cup {})
      BY <1>1, DeleteQianchuanGood
    <3> QED BY <2>2, <3>1, PrepareKeeps
  <2> QED BY <1>5, <2>1, <2>2 DEF Delete
<1>6. CASE ChangeCopy(r)
  <2>1. PICK n \in Names, from \in Names \cup {None} : Prepare(r, "set_copy", SetCopy(file, n, from), {})
    BY <1>6 DEF ChangeCopy
  <2>2. \A next \in SetCopy(file, n, from) : Good(next, forced \cup {})
    BY <1>1, SetCopyGood
  <2> QED BY <2>1, <2>2, PrepareKeeps
<1>7. CASE Update(r)
  <2>1. PICK selector \in Runs \cup DisplayNames, name \in DisplayNames :
          Prepare(r, "update", UpdateQianchuanProductTemplate(file, selector, name), {})
    BY <1>7 DEF Update
  <2>2. \A next \in UpdateQianchuanProductTemplate(file, selector, name) : Good(next, forced \cup {})
    BY <1>1, UpdateGood
  <2> QED BY <2>1, <2>2, PrepareKeeps
<1>8. CASE CommitMarketingCities(r)
  <2>1. [file EXCEPT !.cities = r] \in Files /\ [file EXCEPT !.cities = r].marketing = file.marketing
    BY <1>1 DEF Files
  <2>2. \A next \in {[file EXCEPT !.cities = r]} : Good(next, forced \cup {})
    BY <1>1, <2>1, SameTemplates
  <2> QED BY <1>8, <2>2, PrepareKeeps DEF CommitMarketingCities
<1>9. CASE ChangeAccount(r)
  <2>1. PICK a \in Advertisers, state \in AccountStates :
          UpdateLocked(r, "account", [file EXCEPT !.accounts[a] = state], {})
    BY <1>9 DEF ChangeAccount
  <2>2. /\ [file EXCEPT !.accounts[a] = state] \in Files
        /\ [file EXCEPT !.accounts[a] = state].marketing = file.marketing
    BY <1>1 DEF Files
  <2>3. Good([file EXCEPT !.accounts[a] = state], forced \cup {})
    BY <1>1, <2>2, SameTemplates
  <2> QED BY <2>1, <2>3, UpdateLockedKeeps
<1>10. CASE Initialize(r)
  <2>1. CASE UpdateLocked(r, "init", Skeleton(file.links), Names)
    <3>1. file.links \in BOOLEAN
      BY <1>1 DEF Files
    <3>2. Good(Skeleton(file.links), forced \cup Names)
      BY <3>1, SkeletonGood, GoodStays
    <3> QED BY <2>1, <3>2, UpdateLockedKeeps
  <2>2. CASE UpdateLocked(r, "init", file, {})
    BY <1>1, <2>2, UpdateLockedKeeps
  <2> QED BY <1>10, <2>1, <2>2 DEF Initialize
<1> QED BY <1>3, <1>4, <1>5, <1>6, <1>7, <1>8, <1>9, <1>10 DEF Command

LEMMA SaveKeeps == ASSUME ConfigInv, NEW r \in Runs, Save(r) PROVE ConfigInv'
<1>1. /\ run[r].pc = "writing" /\ lock = r /\ lock' = None /\ run' = [run EXCEPT ![r] = Ended]
      /\ file' = run[r].next /\ forced' = forced \cup run[r].forces
  BY DEF Save
<1>2. run[r].forces \subseteq Names /\ Good(run[r].next, forced \cup run[r].forces)
  BY <1>1 DEF ConfigInv, Invocation
<1>3. ASSUME NEW s \in Runs PROVE Invocation(s)' /\ Shape(run'[s])
  <2>1. CASE s = r
    <3>1. run'[s] = Ended
      BY <1>1, <2>1 DEF ConfigInv
    <3> QED BY <3>1 DEF Invocation, Shape, Ended, Idle, Pcs
  <2>2. CASE s # r
    <3>1. run'[s] = run[s] /\ Invocation(s) /\ Shape(run[s])
      BY <1>1, <2>2 DEF ConfigInv, Shape
    <3>2. run[s].pc # "writing"
      BY <1>1, <2>2, <3>1 DEF Invocation
    <3>3. forced \cup run[s].forces \subseteq forced' \cup run[s].forces
      BY <1>1
    <3>4. Good(run[s].next, forced \cup run[s].forces) => Good(run[s].next, forced' \cup run[s].forces)
      BY <3>3, GoodStays
    <3> QED BY <3>1, <3>2, <3>4 DEF Invocation
  <2> QED BY <2>1, <2>2
<1> QED BY <1>1, <1>2, <1>3 DEF ConfigInv, Shape

LEMMA ConfigKept == ConfigInv /\ [Next]_vars => ConfigInv'
<1> SUFFICES ASSUME ConfigInv, [Next]_vars PROVE ConfigInv'
  OBVIOUS
<1>1. CASE UNCHANGED <<file, lock, run, forced>>
  BY <1>1 DEF ConfigInv, Invocation
<1>2. ASSUME NEW r \in Runs, Abandon(r) PROVE ConfigInv'
  <2>1. lock = r
    BY <1>2 DEF Abandon, ConfigInv, Invocation
  <2> QED BY <1>2, <2>1, RunEnds DEF Abandon
<1>3. ASSUME NEW r \in Runs, Compare(r) PROVE ConfigInv'
  <2>1. run[r].pc = "prepared" /\ lock = None /\ UNCHANGED <<file, forced>>
    BY <1>3 DEF Compare
  <2>2. CASE file = run[r].base /\ run' = [run EXCEPT ![r].pc = "writing"] /\ lock' = r
    <3> DEFINE new == [run[r] EXCEPT !.pc = "writing"]
    <3>1. run' = [run EXCEPT ![r] = new]
      BY <2>2
    <3>2. /\ Shape(new) /\ new.pc = "writing" /\ new.pc \in Pcs /\ new.base = run[r].base
          /\ new.next = run[r].next /\ new.forces = run[r].forces
      BY DEF ConfigInv, Shape, Pcs
    <3>3. run[r].forces \subseteq Names /\ Good(run[r].next, forced \cup run[r].forces)
      BY <2>1 DEF ConfigInv, Invocation
    <3> HIDE DEF new
    <3> QED BY <2>1, <2>2, <3>1, <3>2, <3>3, RunMoves
  <2>3. CASE run' = [run EXCEPT ![r] = Ended] /\ lock' = None
    BY <2>1, <2>3, RunEnds
  <2> QED BY <1>3, <2>2, <2>3 DEF Compare, SameRevision
<1> QED BY <1>1, <1>2, <1>3, CommandKeeps, SaveKeeps DEF Next, vars, ListFirst, ListNext

-----------------------------------------------------------------------------
(* A write changes exactly what its command changed in its copy: nothing   *)
(* another command wrote is undone.                                        *)
THEOREM NothingLost == Spec => NoLostUpdate
<1>1. ConfigInv /\ [Next]_vars
      => [file' # file => \E r \in Runs : /\ run[r].pc = "writing"
                                          /\ Changed(file, file') = Changed(run[r].base, run[r].next)]_vars
  <2> SUFFICES ASSUME ConfigInv, [Next]_vars, file' # file
               PROVE  \E r \in Runs : /\ run[r].pc = "writing"
                                      /\ Changed(file, file') = Changed(run[r].base, run[r].next)
    OBVIOUS
  <2>1. \E r \in Runs : Save(r)
    BY DEF Next, vars, Command, CreateMarketing, CreateQianchuan, Delete, ChangeCopy, Update, Prepare,
           CommitMarketingCities, ChangeAccount, Initialize, UpdateLocked, Abandon, Compare,
           ListFirst, ListNext
  <2>2. PICK r \in Runs : Save(r)
    BY <2>1
  <2>3. run[r].pc = "writing" /\ file = run[r].base /\ file' = run[r].next
    BY <2>2 DEF Save, ConfigInv, Invocation
  <2> QED BY <2>3
<1> QED BY <1>1, ConfigInitially, ConfigKept, PTL DEF Spec, NoLostUpdate

(* Whatever commands ran, in any order, every stored template is one that  *)
(* plans can be created from, and its references resolve.                  *)
THEOREM StoredUsable == Spec => []StoredIsUsable
<1>1. ConfigInv => StoredIsUsable
  <2> SUFFICES ASSUME ConfigInv PROVE StoredIsUsable
    OBVIOUS
  <2>1. ReferencesResolve
    BY DEF ConfigInv, Good, References, ReferencesResolve
  <2>2. ASSUME NEW n \in Stored(file)
        PROVE  /\ MarketingValidationRow(n, file.marketing[n])
               /\ ApplyMarketingPlanTemplate(file.marketing[n], file.marketing[n].advertiser)
    BY DEF ConfigInv, Good, Sound
  <2> QED BY <2>1, <2>2 DEF ConfigInv, Good, StoredIsUsable
<1> QED BY <1>1, ConfigInitially, ConfigKept, PTL DEF Spec

(* Along any chain of clones a template carries the assets of its own      *)
(* advertiser and product only.                                            *)
THEOREM AssetsOwned == Spec => []OwnAssetsOnly
<1>1. ConfigInv => OwnAssetsOnly
  BY DEF ConfigInv, Good, Sound, Own, OwnAssetsOnly
<1> QED BY <1>1, ConfigInitially, ConfigKept, PTL DEF Spec

-----------------------------------------------------------------------------
(* A client's pages so far are the beginning of one version's list.        *)
Listing ==
    /\ list.pc \in {"idle", "paging", "listed"}
    /\ list.pc = "idle" => list.version = None /\ list.seen = << >>
    /\ list.pc \in {"paging", "listed"}
          => /\ Len(list.seen) \in 0..Len(PresentList(list.version))
             /\ list.seen = SubSeq(PresentList(list.version), 1, Len(list.seen))
    /\ list.pc = "listed" => Len(list.seen) = Len(PresentList(list.version))

LEMMA ListIsSequence == ASSUME NEW cfg PROVE \E T : PresentList(cfg) \in Seq(T)
<1>1. ASSUME NEW section, NEW ids, IsFiniteSet(ids) PROVE \E T : Rows(section, cfg, ids) \in Seq(T)
  <2> DEFINE present == {i \in ids : cfg[section][i] # None}
             rows == [k \in 1..Cardinality(present) |-> <<section, SetToSortSeq(present, <)[k]>>]
             T == {rows[k] : k \in 1..Cardinality(present)}
  <2>1. Cardinality(present) \in Nat
    BY <1>1, FS_Subset, FS_CardinalityType
  <2>2. rows \in [1..Cardinality(present) -> T]
    OBVIOUS
  <2>3. Rows(section, cfg, ids) = rows
    BY DEF Rows
  <2> HIDE DEF present, rows, T
  <2>4. rows \in Seq(T)
    BY <2>1, <2>2
  <2> QED BY <2>3, <2>4
<1>2. PICK S : Rows("marketing", cfg, Names) \in Seq(S)
  BY <1>1, FiniteAssumption
<1>3. PICK T : Rows("product", cfg, Runs) \in Seq(T)
  BY <1>1, FiniteAssumption
<1>4. PICK U : Rows("live", cfg, Runs) \in Seq(U)
  BY <1>1, FiniteAssumption
<1> DEFINE V == S \cup T \cup U
<1>5. /\ Rows("marketing", cfg, Names) \in Seq(V)
      /\ Rows("product", cfg, Runs) \in Seq(V) /\ Rows("live", cfg, Runs) \in Seq(V)
  BY <1>2, <1>3, <1>4
<1> HIDE DEF V
<1>6. PresentList(cfg) \in Seq(V)
  BY <1>5 DEF PresentList
<1> QED BY <1>6

(* A page goes on where the last one ended, in the same list.              *)
LEMMA PageContinues ==
    ASSUME NEW done \in Nat, done <= Len(PresentList(file)), Page(done),
           list.seen = SubSeq(PresentList(file), 1, done), list.version \in {None, file}
    PROVE  Listing'
<1> DEFINE rows == PresentList(file)
           end == IF done + PageLimit > Len(rows) THEN Len(rows) ELSE done + PageLimit
<1>1. PICK T : rows \in Seq(T)
  BY ListIsSequence
<1>2. /\ list'.pc = IF end < Len(rows) THEN "paging" ELSE "listed"
      /\ list'.version = file
      /\ list'.seen = SubSeq(rows, 1, done) \o SubSeq(rows, done + 1, end)
  BY DEF Page
<1> HIDE DEF rows
<1>3. Len(rows) \in Nat
  BY <1>1
<1>4. end \in done..Len(rows) /\ done \in 1 - 1 .. Len(rows) /\ 1 \in 1..Len(rows) + 1
  BY <1>3, OrderAssumption DEF rows
<1> HIDE DEF end
<1>5. list'.seen = SubSeq(rows, 1, end)
  <2>1. SubSeq(rows, 1, done) \o SubSeq(rows, done + 1, end) = SubSeq(rows, 1, end)
    BY <1>1, <1>4, ConcatAdjacentSubSeq
  <2> QED BY <1>2, <2>1
<1>6. Len(list'.seen) = end
  BY <1>1, <1>3, <1>4, <1>5
<1>7. PresentList(list'.version) = rows
  BY <1>2 DEF rows
<1>8. end = Len(rows) \/ end < Len(rows)
  BY <1>3, <1>4
<1> QED BY <1>2, <1>3, <1>4, <1>5, <1>6, <1>7, <1>8 DEF Listing

LEMMA ListingKept == Listing /\ [Next]_vars => Listing'
<1> SUFFICES ASSUME Listing, [Next]_vars PROVE Listing'
  OBVIOUS
<1>1. CASE UNCHANGED list
  BY <1>1 DEF Listing
<1>2. CASE ListFirst
  <2>1. list.version = None /\ list.seen = << >> /\ Page(0)
    BY <1>2 DEF ListFirst, Listing
  <2>2. PICK T : PresentList(file) \in Seq(T)
    BY ListIsSequence
  <2>3. SubSeq(PresentList(file), 1, 0) = << >> /\ 0 <= Len(PresentList(file))
    BY <2>2
  <2> QED BY <2>1, <2>3, PageContinues
<1>3. CASE ListNext
  <2>1. CASE list' = Unlisted
    BY <2>1 DEF Unlisted, Listing
  <2>2. CASE DecodeCursor(list.version, Len(list.seen)) /\ Page(Len(list.seen))
    <3>1. list.version = file
      BY <2>2 DEF DecodeCursor
    <3>2. /\ Len(list.seen) \in 0..Len(PresentList(file))
          /\ list.seen = SubSeq(PresentList(file), 1, Len(list.seen))
      BY <1>3, <3>1 DEF ListNext, Listing
    <3>3. PICK T : PresentList(file) \in Seq(T)
      BY ListIsSequence
    <3>4. Len(PresentList(file)) \in Nat
      BY <3>3
    <3> QED BY <2>2, <3>1, <3>2, <3>4, PageContinues
  <2> QED BY <1>3, <2>1, <2>2 DEF ListNext
<1> QED
  BY <1>1, <1>2, <1>3 DEF Next, vars, Command, CreateMarketing, CreateQianchuan, Delete, ChangeCopy, Update,
     Prepare, CommitMarketingCities, ChangeAccount, Initialize, UpdateLocked, Abandon, Compare, Save

(* However the file changes between two pages, a listing that comes to its *)
(* end has seen one version of it, whole.                                  *)
THEOREM OneVersion == Spec => []ListingIsOneVersion
<1>1. Init => Listing
  BY DEF Init, Unlisted, Listing
<1>2. Listing => ListingIsOneVersion
  <2> SUFFICES ASSUME Listing, list.pc = "listed" PROVE list.seen = PresentList(list.version)
    BY DEF ListingIsOneVersion
  <2>1. PICK T : PresentList(list.version) \in Seq(T)
    BY ListIsSequence
  <2>2. SubSeq(PresentList(list.version), 1, Len(PresentList(list.version))) = PresentList(list.version)
    BY <2>1, SubSeqFull
  <2> QED BY <2>2 DEF Listing
<1> QED BY <1>1, <1>2, ListingKept, PTL DEF Spec
=============================================================================
