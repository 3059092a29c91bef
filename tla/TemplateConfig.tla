--------------------------- MODULE TemplateConfig ---------------------------
(***************************************************************************)
(* The local configuration file: plan templates of both channels, managed  *)
(* accounts and resolved cities, and the commands that change it.          *)
(*                                                                         *)
(* A command that asks its user (a create wizard) or the official API (the *)
(* city lookup) reads the file without its lock, works on that copy for as *)
(* long as it takes and writes the copy back by CompareAndSwap: under the  *)
(* lock, and only while the revision of the file is the one it read.       *)
(* Account changes and setup init read, change and write under the lock.   *)
(* Meanwhile an MCP client lists the templates page by page.               *)
(***************************************************************************)
EXTENDS Integers, Sequences, FiniteSets, SequencesExt

CONSTANTS
    Runs,          \* command invocations; a created Qianchuan template has the ID of its run
    Names,         \* keys of Marketing templates, in listing order
    DisplayNames,  \* display names of Qianchuan templates
    Advertisers,
    Authorized,    \* advertisers of the synced authorization, {} before a sync
    Products,
    SourceTypes,   \* ACCOUNT_UPLOAD, CREATOR_AUTHORIZED
    Commands,      \* for each run the commands it may be
    Given,         \* what the answers to the wizard may bring: sets of "creators", "titles", "links"
    PageLimit,     \* "limit" of list_templates
    None

ASSUME OrderAssumption == Names \subseteq Int /\ Runs \subseteq Int /\ PageLimit \in Nat \ {0}
ASSUME FiniteAssumption == IsFiniteSet(Names) /\ IsFiniteSet(Runs)
ASSUME SetAssumption ==
    /\ Authorized \subseteq Advertisers
    /\ Runs \cap DisplayNames = {}
    /\ None \notin Runs \cup Names \cup DisplayNames \cup Advertisers
    /\ SourceTypes \subseteq {"ACCOUNT_UPLOAD", "CREATOR_AUTHORIZED"}

VARIABLES
    file,    \* the configuration file
    lock,    \* holder of its lock file
    run,     \* each invocation: its copy of the file and what it will write
    list,    \* the MCP client's listing
    forced   \* history: Marketing templates deleted with --force

vars == <<file, lock, run, list, forced>>

-----------------------------------------------------------------------------
(* Templates                                                               *)

(* Groups of override fields that belong to the account, the product and   *)
(* the links of the (advertiser, product) they were entered for.           *)
Groups == {"account", "product", "link"}
Pairs == Advertisers \X Products
NoOverrides == [g \in Groups |-> None]

Marketing == [name : Names, advertiser : Advertisers, product : Products, unique : Products,
              source : SourceTypes, creators : Advertisers \cup {None}, titles : BOOLEAN,
              owned : [Groups -> Pairs \cup {None}],
              from : Names \cup {None}, copied : Names \cup {None}]
Qianchuan == [name : DisplayNames]

ASSUME NoneAssumption == None \notin Marketing \cup Qianchuan

AccountStates == {"absent", "enabled", "disabled"}

(* links: the default bundle holds every field a template may leave out.   *)
Files == [links : BOOLEAN, cities : Runs \cup {None}, accounts : [Advertisers -> AccountStates],
          marketing : [Names -> Marketing \cup {None}],
          product : [Runs -> Qianchuan \cup {None}], live : [Runs -> Qianchuan \cup {None}]]

Skeleton(links) ==
    [links |-> links, cities |-> None, accounts |-> [a \in Advertisers |-> "absent"],
     marketing |-> [n \in Names |-> None],
     product |-> [i \in Runs |-> None], live |-> [i \in Runs |-> None]]

(* The entries in which two files differ.                                  *)
Entries == ({"marketing"} \X Names) \cup ({"product", "live"} \X Runs)
               \cup ({"accounts"} \X Advertisers) \cup {<<"links", None>>, <<"cities", None>>}
Entry(cfg, e) == CASE e[1] = "links" -> cfg.links
                   [] e[1] = "cities" -> cfg.cities
                   [] OTHER -> cfg[e[1]][e[2]]
Changed(old, new) == {e \in Entries : Entry(old, e) # Entry(new, e)}

Stored(cfg) == {n \in Names : cfg.marketing[n] # None}

-----------------------------------------------------------------------------
(* Creating a Marketing template                                           *)

MarketingClonePolicy(source, advertiser, product) ==
    CASE source = None -> "default"
      [] source # None /\ source.advertiser # advertiser /\ source.product # product
            -> "cross_advertiser_new_product"
      [] source # None /\ source.advertiser # advertiser /\ source.product = product
            -> "cross_advertiser_same_product"
      [] source # None /\ source.advertiser = advertiser /\ source.product # product
            -> "same_advertiser_new_product"
      [] OTHER -> "same_advertiser_same_product"

(* Mutant: account assets are cleared for another advertiser only.         *)
PreparedForProduct(source, policy) ==
    IF source # None /\ policy \in {"same_advertiser_same_product", "same_advertiser_new_product"}
    THEN source.owned ELSE NoOverrides

(* What a clone takes over from its source: nothing owned, unless it is    *)
(* for the same product of the same advertiser.                            *)
PrepareMarketingSource(source, policy) ==
    IF source # None /\ policy = "same_advertiser_same_product" THEN source.owned ELSE NoOverrides

(* The wizard offers the source's creators as the default and always       *)
(* passes the answer on, so that the rule for another advertiser (drop     *)
(* them) only applies to an empty answer.                                  *)
MaterialCreators(source, in) ==
    IF in.source # "CREATOR_AUTHORIZED" THEN None
    ELSE IF "creators" \in in.given THEN in.advertiser
    ELSE IF source # None /\ in.source = source.source THEN source.creators ELSE None

(* Titles come from the answers, or from the source for the same product.  *)
CopyTitles(source, policy, in) ==
    "titles" \in in.given \/ (source # None /\ source.titles
                  /\ policy \in {"same_advertiser_same_product", "cross_advertiser_same_product"})

(* Product info is the source's for the same product of the same           *)
(* advertiser, else made for the product the wizard was given.             *)
ProductInfo(source, policy, pair) ==
    IF policy = "same_advertiser_same_product" /\ source.owned["product"] # None
    THEN source.owned["product"] ELSE pair

(* Mutant: an inherited product ID stays in the overrides.                 *)
InheritedProduct(source, in) == IF source = None THEN in.product ELSE source.unique

(* resolved_ids.unique_product_id, which no clone clears, is always set.   *)
ResolvedProduct(source, in) == in.product

BuildMarketingTemplate(cfg, from, in) ==
    LET source == IF from = None THEN None ELSE cfg.marketing[from]
        pair == <<in.advertiser, in.product>>
        policy == MarketingClonePolicy(source, in.advertiser, in.product)
    IN [name |-> in.name, advertiser |-> in.advertiser, product |-> in.product,
        unique |-> ResolvedProduct(source, in),
        source |-> in.source, creators |-> MaterialCreators(source, in),
        titles |-> CopyTitles(source, policy, in),
        owned |-> [PrepareMarketingSource(source, policy)
                      EXCEPT !["product"] = ProductInfo(source, policy, pair),
                             !["link"] = IF "links" \in in.given THEN pair ELSE @],
        from |-> from, copied |-> None]

(* The fields a template must have of its own or from the default bundle.  *)
MarketingCandidateReadiness(cfg, t) ==
    t.titles /\ (cfg.links \/ t.owned["link"] # None)

(* templates validate: the row of one Marketing template.                  *)
MarketingValidationRow(n, t) ==
    /\ t.name = n
    /\ t.source = "ACCOUNT_UPLOAD" => t.creators = None

(* Creating a plan from a template for an advertiser.                      *)
ApplyMarketingPlanTemplate(t, advertiser) ==
    t.advertiser = advertiser /\ t.unique = t.product

-----------------------------------------------------------------------------
(* Changing and deleting templates                                         *)

(* Mutant: a copied title list is not a reference.                         *)
ClonesOnly(cfg, n) == {m \in Stored(cfg) \ {n} : cfg.marketing[m].from = n}

MarketingDependents(cfg, n) ==
    {m \in Stored(cfg) \ {n} : cfg.marketing[m].from = n \/ cfg.marketing[m].copied = n}

(* A template by its ID or, if exactly one has it, by its display name.    *)
Resolve(templates, selector) ==
    IF selector \in Runs /\ templates[selector] # None THEN {selector}
    ELSE LET named == {i \in Runs : templates[i] # None /\ templates[i].name = selector}
         IN IF Cardinality(named) = 1 THEN named ELSE {}

(* What templates delete leaves of the file, {} when it refuses.  A        *)
(* Qianchuan selector that names no single product template is tried as a  *)
(* live template.                                                          *)
DeleteMarketing(cfg, n, force) ==
    IF /\ cfg.marketing[n] # None
       /\ MarketingValidationRow(n, cfg.marketing[n])
       /\ MarketingDependents(cfg, n) = {} \/ force
    THEN {[cfg EXCEPT !.marketing[n] = None]} ELSE {}

DeleteQianchuan(cfg, selector) ==
    LET product == Resolve(cfg.product, selector)
        live == Resolve(cfg.live, selector)
    IN IF product # {} THEN {[cfg EXCEPT !.product[i] = None] : i \in product}
       ELSE {[cfg EXCEPT !.live[i] = None] : i \in live}

(* templates set-copy: titles of the command line (from = None) or those   *)
(* of another template, by value and with its name.                        *)
SetCopy(cfg, n, from) ==
    IF /\ cfg.marketing[n] # None
       /\ from # None => cfg.marketing[from] # None /\ cfg.marketing[from].titles
    THEN {[cfg EXCEPT !.marketing[n].titles = TRUE, !.marketing[n].copied = from]} ELSE {}

(* qc-templates update: the name of a product template (its status and       *)
(* policy are left out); it is not compared with the other names.          *)
UpdateQianchuanProductTemplate(cfg, selector, name) ==
    {[cfg EXCEPT !.product[i] = [name |-> name]] : i \in Resolve(cfg.product, selector)}

(* The two Qianchuan wizards: name and ID must be new among their kind.    *)
ApplyQianchuanTemplate(cfg, kind, id, name) ==
    IF cfg[kind][id] = None /\ \A i \in Runs : cfg[kind][i] # None => cfg[kind][i].name # name
    THEN {[cfg EXCEPT ![kind][id] = [name |-> name]]} ELSE {}

ApplyMarketingTemplate(cfg, n, candidate) ==
    IF cfg.marketing[n] = None /\ MarketingCandidateReadiness(cfg, candidate)
    THEN {[cfg EXCEPT !.marketing[n] = candidate]} ELSE {}

-----------------------------------------------------------------------------
(* Commands on a copy of the file                                          *)

Idle == [pc |-> "idle", base |-> None, next |-> None, swap |-> FALSE, forces |-> {}]
Ended == [Idle EXCEPT !.pc = "ended"]

(* The wizard accepts only synced advertisers, once there are any.         *)
PromptAdvertiserID == IF Authorized = {} THEN Advertisers ELSE Authorized

(* Sources the wizard offers for a material source type.                   *)
MarketingCreateSources(cfg, type) ==
    {None} \cup {n \in Stored(cfg) : cfg.marketing[n].source = type}

Answers == [name : Names, advertiser : PromptAdvertiserID, product : Products, source : SourceTypes,
            given : Given]

(* The command has read the file and worked out what it will write; a      *)
(* refusal ends it.  It writes once its user has confirmed.                *)
Prepare(r, command, result, forces) ==
    /\ run[r].pc = "idle" /\ command \in Commands[r]
    /\ \/ result = {} /\ run' = [run EXCEPT ![r] = Ended]
       \/ \E f \in result :
             run' = [run EXCEPT ![r] = [pc |-> "prepared", base |-> file, next |-> f,
                                        swap |-> TRUE, forces |-> forces]]
    /\ UNCHANGED <<file, lock, list, forced>>

CreateMarketing(r) ==
    \E in \in Answers : \E from \in MarketingCreateSources(file, in.source) :
        /\ "creators" \in in.given => in.source = "CREATOR_AUTHORIZED"
        /\ Prepare(r, "create", ApplyMarketingTemplate(file, in.name, BuildMarketingTemplate(file, from, in)), {})

CreateQianchuan(r) ==
    \E kind \in {"product", "live"}, name \in DisplayNames :
        Prepare(r, "create_qianchuan", ApplyQianchuanTemplate(file, kind, r, name), {})

Delete(r) ==
    \/ \E n \in Names, force \in BOOLEAN :
          Prepare(r, "delete", DeleteMarketing(file, n, force), IF force THEN {n} ELSE {})
    \/ \E selector \in Runs \cup DisplayNames :
          Prepare(r, "delete_qianchuan", DeleteQianchuan(file, selector), {})

ChangeCopy(r) ==
    \E n \in Names : \E from \in Names \cup {None} : Prepare(r, "set_copy", SetCopy(file, n, from), {})

Update(r) ==
    \E selector \in Runs \cup DisplayNames, name \in DisplayNames :
        Prepare(r, "update", UpdateQianchuanProductTemplate(file, selector, name), {})

(* discover cities --commit: the answer of the API goes into resolved_ids. *)
CommitMarketingCities(r) == Prepare(r, "cities", {[file EXCEPT !.cities = r]}, {})

(* A process dies while it holds the lock: the system frees the lock.  (A  *)
(* run whose user never confirms simply stays prepared.)                   *)
Abandon(r) ==
    /\ run[r].pc = "writing"
    /\ run' = [run EXCEPT ![r] = Ended]
    /\ lock' = None
    /\ UNCHANGED <<file, list, forced>>

-----------------------------------------------------------------------------
(* Writing the file                                                        *)

(* Mutant: the file may have changed since the command read it.            *)
AnyRevision(r) == TRUE

(* A revision is a digest of the content: a file changed back is the same. *)
SameRevision(r) == file = run[r].base

(* CompareAndSwap, up to the comparison: under the lock, read again.       *)
Compare(r) ==
    /\ run[r].pc = "prepared" /\ run[r].swap /\ lock = None
    /\ IF SameRevision(r)
       THEN run' = [run EXCEPT ![r].pc = "writing"] /\ lock' = r
       ELSE run' = [run EXCEPT ![r] = Ended] /\ lock' = None
    /\ UNCHANGED <<file, list, forced>>

(* ConfigStore.Update: under the lock, change what the file says now.      *)
UpdateLocked(r, command, next, forces) ==
    /\ run[r].pc = "idle" /\ command \in Commands[r] /\ lock = None
    /\ lock' = r
    /\ run' = [run EXCEPT ![r] = [pc |-> "writing", base |-> file, next |-> next,
                                  swap |-> FALSE, forces |-> forces]]
    /\ UNCHANGED <<file, list, forced>>

(* accounts add, remove, enable, disable.                                  *)
ChangeAccount(r) ==
    \E a \in Advertisers, state \in AccountStates :
        /\ file.accounts[a] = "absent" => state = "enabled"
        /\ UpdateLocked(r, "account", [file EXCEPT !.accounts[a] = state], {})

(* setup init --force replaces the file by the packaged one; without       *)
(* --force an existing file is kept.                                       *)
Initialize(r) ==
    \E force \in BOOLEAN :
        UpdateLocked(r, "init", IF force THEN Skeleton(file.links) ELSE file, IF force THEN Names ELSE {})

(* The temporary file is renamed over the old one.                         *)
Save(r) ==
    /\ run[r].pc = "writing" /\ lock = r
    /\ file' = run[r].next
    /\ forced' = forced \cup run[r].forces
    /\ run' = [run EXCEPT ![r] = Ended]
    /\ lock' = None
    /\ UNCHANGED list

-----------------------------------------------------------------------------
(* list_templates of the MCP server                                        *)

Rows(section, cfg, ids) ==
    LET present == {i \in ids : cfg[section][i] # None}
    IN [k \in 1..Cardinality(present) |-> <<section, SetToSortSeq(present, <)[k]>>]

(* presentList: Marketing templates by name, then Qianchuan ones by kind.  *)
PresentList(cfg) == Rows("marketing", cfg, Names) \o Rows("product", cfg, Runs) \o Rows("live", cfg, Runs)

Unlisted == [pc |-> "idle", version |-> None, seen |-> << >>]

(* Mutant: the cursor only has to lie within the list.                     *)
OffsetFits(version, offset) == offset < Len(PresentList(file))

(* A cursor is good for the state version it was made for.                 *)
DecodeCursor(version, offset) == version = file /\ offset < Len(PresentList(file))

(* One page from an offset; the answer has a cursor while rows are left.   *)
Page(offset) ==
    LET rows == PresentList(file)
        end == IF offset + PageLimit > Len(rows) THEN Len(rows) ELSE offset + PageLimit
    IN list' = [pc |-> IF end < Len(rows) THEN "paging" ELSE "listed",
                version |-> IF list.version = None THEN file ELSE list.version,
                seen |-> list.seen \o SubSeq(rows, offset + 1, end)]

ListFirst == list.pc = "idle" /\ Page(0) /\ UNCHANGED <<file, lock, run, forced>>

(* The client goes on with the cursor; STATE_CHANGED sends it back.        *)
ListNext ==
    /\ list.pc = "paging"
    /\ IF DecodeCursor(list.version, Len(list.seen)) THEN Page(Len(list.seen)) ELSE list' = Unlisted
    /\ UNCHANGED <<file, lock, run, forced>>

-----------------------------------------------------------------------------
(* A template somebody wrote by hand before: complete, with the account's  *)
(* assets in it.                                                           *)
Handmade(n, advertiser, product, source) ==
    [name |-> n, advertiser |-> advertiser, product |-> product, unique |-> product, source |-> source,
     creators |-> IF source = "CREATOR_AUTHORIZED" THEN advertiser ELSE None, titles |-> TRUE,
     owned |-> [g \in Groups |-> <<advertiser, product>>], from |-> None, copied |-> None]

Init ==
    /\ \E links \in BOOLEAN :
          \/ file = Skeleton(links)
          \/ \E n \in Names, a \in Advertisers, p \in Products, s \in SourceTypes :
                file = [Skeleton(links) EXCEPT !.marketing[n] = Handmade(n, a, p, s)]
    /\ lock = None /\ run = [r \in Runs |-> Idle] /\ list = Unlisted /\ forced = {}

Command(r) ==
    \/ CreateMarketing(r) \/ CreateQianchuan(r) \/ Delete(r) \/ ChangeCopy(r) \/ Update(r)
    \/ CommitMarketingCities(r) \/ ChangeAccount(r) \/ Initialize(r)

Next ==
    \/ \E r \in Runs : Command(r) \/ Abandon(r) \/ Compare(r) \/ Save(r)
    \/ ListFirst \/ ListNext

Spec == Init /\ [][Next]_vars

-----------------------------------------------------------------------------
(* Properties                                                              *)

(* The template another one was cloned or took its titles from is there,   *)
(* unless somebody deleted it with --force.                                *)
ReferencesResolve ==
    \A n \in Stored(file) :
        {file.marketing[n].from, file.marketing[n].copied} \ {None} \subseteq Stored(file) \cup forced

(* Every variable keeps its type, and every stored template is one that    *)
(* "templates validate" accepts and that plans can be created from for its *)
(* own advertiser, and its references resolve.                             *)
StoredIsUsable ==
    /\ ReferencesResolve
    /\ file \in Files /\ lock \in Runs \cup {None} /\ forced \subseteq Names
    /\ \A n \in Stored(file) :
          LET t == file.marketing[n]
          IN MarketingValidationRow(n, t) /\ ApplyMarketingPlanTemplate(t, t.advertiser)

(* Along any chain of clones the account, product and link fields of a     *)
(* template were entered for its own advertiser and product.               *)
OwnAssetsOnly ==
    \A n \in Stored(file) :
        LET t == file.marketing[n]
        IN \A g \in Groups : t.owned[g] \in {None, <<t.advertiser, t.product>>}

(* A listing that came to its end saw one version of the templates: none   *)
(* twice and none left out.                                                *)
ListingIsOneVersion == list.pc = "listed" => list.seen = PresentList(list.version)

(* A write changes in the file exactly what its command changed in the     *)
(* copy it had read: no other command's write is undone.                   *)
NoLostUpdate ==
    [][file' # file =>
          \E r \in Runs : /\ run[r].pc = "writing"
                          /\ Changed(file, file') = Changed(run[r].base, run[r].next)]_vars
=============================================================================
