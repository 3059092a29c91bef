--------------------------- MODULE WorkVerification ---------------------------
(***************************************************************************)
(* From the work links of a Qianchuan batch to the works it may use.  Every *)
(* command guesses the owner of each work, from the file of owners that     *)
(* earlier commands verified or from F2's public metadata, and then asks    *)
(* the platform: is the guessed creator authorized, is the work the         *)
(* creator's, does it show the product.  What is verified goes back to the  *)
(* file, which all commands of all processes share.                         *)
(*                                                                          *)
(* A submitting command does this under the advertiser's lock of            *)
(* QianchuanBatch; dry runs do not, and neither keeps two advertisers apart *)
(* at the file.                                                             *)
(***************************************************************************)
EXTENDS Integers, FiniteSets, Functions

CONSTANTS
    Works,        \* decimal work IDs
    Creators,     \* UIDs
    Names,        \* visible Douyin numbers, what creators are searched by
    Batches,      \* command invocations
    OwnerOf,      \* the creator of each work
    FirstName,    \* the visible number of each creator at the start
    PublicHints,  \* what F2 may say of a work, true or not
    ShowsUnder,   \* the works the platform lists under each of the template's products
    CacheMax,     \* OwnerHintCacheMaxEntries
    MaxTurns,     \* bound: official changes and expiries
    Nobody

Hints == [creator : Creators, name : Names]

ASSUME VerificationAssumption ==
    /\ FirstName \in [Creators -> Names] /\ IsInjective(FirstName) /\ PublicHints \subseteq Hints
    /\ Names \cap {"failed", "unavailable"} = {}
    /\ IsFiniteSet(Works) /\ Works \subseteq Nat /\ OwnerOf \in [Works -> Creators]
    /\ \A p \in DOMAIN ShowsUnder : ShowsUnder[p] \subseteq Works
    /\ CacheMax \in Nat \ {0} /\ MaxTurns \in Nat /\ Nobody \notin Batches \cup Creators

VARIABLES
    name,      \* official: the visible number of each creator
    usable,    \* official: creators authorized and not barred from product promotion
    cutoff,    \* entries stored before are older than 30 days
    turns,
    cache,     \* the owner file: of each work in it [creator, name, at]
    cacheLock, \* the command that holds it for writing
    clock,     \* time, counted in Stores
    verified,  \* history: the file as it would be were every Store one step
    batch      \* each command

platformVars == <<name, usable, cutoff, turns>>
fileVars == <<cache, cacheLock, clock, verified>>
verificationVars == <<platformVars, fileVars, batch>>

NoHints == [w \in {} |-> Nobody]
NoBatch == [pc |-> "idle", hint |-> NoHints, cached |-> {}, works |-> {}, found |-> << >>,
            owned |-> {}, skipped |-> << >>, copy |-> << >>, steady |-> TRUE, seen |-> {}, failed |-> FALSE]
Gone == [NoBatch EXCEPT !.pc = "ended"]
Now(b, new) == batch' = [batch EXCEPT ![b] = new]

VerificationInit ==
    /\ name = FirstName /\ usable \in SUBSET Creators
    /\ cutoff = 0 /\ turns = 0 /\ clock = 0
    /\ cache = NoHints /\ cacheLock = Nobody /\ verified = NoHints
    /\ batch = [b \in Batches |-> NoBatch]

-----------------------------------------------------------------------------
(* The owner file                                                          *)

EntryOf(hint) == [creator |-> hint.creator, name |-> hint.name, at |-> clock]

(* The order rows are kept in: by age, and of one age by ID.               *)
KeptBefore(rows, v, w) ==
    rows[v].at > rows[w].at \/ (rows[v].at = rows[w].at /\ v < w)
Earlier(rows, w) == {v \in DOMAIN rows : KeptBefore(rows, v, w)}
Prune(rows) ==
    [w \in {w \in DOMAIN rows : Cardinality(Earlier(rows, w)) < CacheMax} |-> rows[w]]

(* The file with these hints: they replace older ones, and what is beyond  *)
(* the maximum goes.                                                       *)
Merged(hints, rows) ==
    Prune([w \in DOMAIN hints \cup DOMAIN rows |->
              IF w \in DOMAIN hints THEN EntryOf(hints[w]) ELSE rows[w]])

(* Load: under the shared lock; an entry older than 30 days counts not.    *)
Loaded(works) ==
    [w \in {w \in works \cap DOMAIN cache : cache[w].at >= cutoff} |->
        [creator |-> cache[w].creator, name |-> cache[w].name]]

-----------------------------------------------------------------------------
(* Links and hints                                                         *)

(* ResolveLinks: links that lead to no work, and repeated works, are       *)
(* skipped.                                                                *)
ResolveLinks(b) ==
    /\ batch[b].pc = "idle"
    /\ \E works \in SUBSET Works :
         Now(b, IF works = {} THEN Gone
                ELSE [NoBatch EXCEPT !.pc = "links", !.works = works, !.seen = usable])
    /\ UNCHANGED <<platformVars, fileVars>>

(* A file that cannot be read or locked is a warning and no hint.          *)
LoadHints(b) ==
    /\ batch[b].pc = "links"
    /\ \E hint \in (IF cacheLock = Nobody THEN {Loaded(batch[b].works)} ELSE {}) \cup {NoHints} :
         Now(b, [batch[b] EXCEPT !.pc = IF DOMAIN hint = batch[b].works THEN "hinted" ELSE "metadata",
                                 !.hint = hint, !.cached = DOMAIN hint])
    /\ UNCHANGED <<platformVars, fileVars>>

(* F2 is asked for the works without a hint, and for all or nothing: if it *)
(* does not run, the command ends although other works have their hints.   *)
(* A work it knows nothing of is skipped.  What it says is not trusted.    *)
ResolveMetadata(b) ==
    /\ batch[b].pc = "metadata"
    /\ LET missing == batch[b].works \ DOMAIN batch[b].hint
       IN \/ Now(b, Gone)
          \/ \E known \in SUBSET missing : \E hint \in [known -> PublicHints] :
               LET works == DOMAIN batch[b].hint \cup known
               IN Now(b, IF works = {} THEN Gone
                         ELSE [batch[b] EXCEPT !.pc = "hinted", !.works = works,
                                               !.hint = [w \in works |-> IF w \in known THEN hint[w] ELSE @[w]]])
    /\ UNCHANGED <<platformVars, fileVars>>

-----------------------------------------------------------------------------
(* Verification                                                            *)

(* The guessed creators, and the numbers each is searched by.              *)
OwnerHintGroups(b) == {batch[b].hint[w].creator : w \in batch[b].works}
HintedWorks(b, c) == {w \in batch[b].works : batch[b].hint[w].creator = c}
SearchKeywords(b, c) == {batch[b].hint[w].name : w \in HintedWorks(b, c)}

CreatorUsable(c) == c \in usable
Findable(b, c) == name[c] \in SearchKeywords(b, c) /\ CreatorUsable(c)

(* Mutant: a hint of the file was verified once, so its creator needs no   *)
(* search.                                                                 *)
TrustCache(b, c) ==
    IF HintedWorks(b, c) \subseteq batch[b].cached THEN {name[c]}
    ELSE {"failed", IF Findable(b, c) THEN name[c] ELSE "unavailable"}

(* The search by each number, page by page, until a row has the UID; the   *)
(* row says what the creator's number is now.                              *)
ResolveAuthorizedHint(b, c) == {"failed", IF Findable(b, c) THEN name[c] ELSE "unavailable"}

(* The searches of the creators run in parallel; the next phase waits for  *)
(* all of them.                                                            *)
AuthorizeHint(b, c) ==
    /\ batch[b].pc = "hinted" /\ c \in OwnerHintGroups(b) \ DOMAIN batch[b].found
    /\ \E answer \in ResolveAuthorizedHint(b, c) :
         LET found == [k \in DOMAIN batch[b].found \cup {c} |->
                          IF k = c THEN answer ELSE batch[b].found[k]]
         IN Now(b, [batch[b] EXCEPT !.found = found, !.failed = @ \/ answer = "failed",
                                    !.pc = IF DOMAIN found = OwnerHintGroups(b) THEN "authorized" ELSE @])
    /\ UNCHANGED <<platformVars, fileVars>>

FoundCreators(b) == {c \in OwnerHintGroups(b) : batch[b].found[c] \in Names}

(* Mutant: a query that failed has shown nothing, so the work is somebody  *)
(* else's.                                                                 *)
FailureIsMismatch(b, w, failed) ==
    LET answer == batch[b].found[batch[b].hint[w].creator]
    IN CASE answer = "failed" -> "creator_query_incomplete"
         [] answer = "unavailable" -> "creator_unavailable"
         [] OTHER -> "creator_work_mismatch"

(* Why a work without an owner is left out.                                *)
SkipReason(b, w, failed) ==
    LET answer == batch[b].found[batch[b].hint[w].creator]
    IN CASE answer = "failed" \/ batch[b].hint[w].creator \in failed -> "creator_query_incomplete"
         [] answer = "unavailable" -> "creator_unavailable"
         [] OTHER -> "creator_work_mismatch"

(* QueryWorks: every creator found is asked for the works hinted, in       *)
(* batches and in parallel; a work is owned when the platform lists it.    *)
(* The works of some batches are lost to failed queries: their creators'   *)
(* other works are judged all the same.                                    *)
VerifyOwnership(b) ==
    /\ batch[b].pc = "authorized"
    /\ \E lost \in SUBSET {w \in batch[b].works : batch[b].hint[w].creator \in FoundCreators(b)} :
         LET failed == {batch[b].hint[w].creator : w \in lost}
             owned == {w \in batch[b].works \ lost :
                         OwnerOf[w] = batch[b].hint[w].creator /\ OwnerOf[w] \in FoundCreators(b)}
         IN Now(b, [batch[b] EXCEPT !.pc = "owners", !.owned = owned, !.failed = @ \/ failed # {},
                       !.skipped = [w \in batch[b].works \ owned |-> SkipReason(b, w, failed)]])
    /\ UNCHANGED <<platformVars, fileVars>>

(* The works of each owner are asked for again under every product, in     *)
(* batches that may fail.                                                  *)
VerifyProducts(b) ==
    /\ batch[b].pc = "owners"
    /\ LET owned == batch[b].owned
       IN \E failed \in SUBSET (owned \X DOMAIN ShowsUnder) :
            LET Lists(w, p) == <<w, p>> \notin failed /\ w \in ShowsUnder[p]
                matched == {w \in owned : \E p \in DOMAIN ShowsUnder : Lists(w, p)}
                Reason(w) == IF \E p \in DOMAIN ShowsUnder : <<w, p>> \in failed
                             THEN "product_query_incomplete" ELSE "product_mismatch"
            IN Now(b, [batch[b] EXCEPT !.pc = "verified", !.works = matched, !.failed = @ \/ failed # {},
                          !.skipped = [w \in DOMAIN @ \cup (owned \ matched) |->
                                          IF w \in owned THEN Reason(w) ELSE @[w]]])
    /\ UNCHANGED <<platformVars, fileVars>>

(* The batch goes on with the matched works, and its hints are kept.       *)
ResolvedOwnerHints(b) ==
    [w \in batch[b].owned |-> [creator |-> OwnerOf[w], name |-> batch[b].found[OwnerOf[w]]]]
ReturnVerification(b) ==
    /\ batch[b].pc = "verified"
    /\ Now(b, IF batch[b].owned = {} THEN Gone
              ELSE [NoBatch EXCEPT !.pc = "storing", !.hint = ResolvedOwnerHints(b)])
    /\ UNCHANGED <<platformVars, fileVars>>

-----------------------------------------------------------------------------
(* Store                                                                   *)

(* Mutant: the file is read before it is locked.                           *)
CacheReadable == TRUE

CacheFree == cacheLock = Nobody

StoreRead(b) ==
    /\ batch[b].pc = "storing" /\ CacheFree
    /\ Now(b, [batch[b] EXCEPT !.pc = "writing", !.copy = cache])
    /\ cacheLock' = b
    /\ UNCHANGED <<platformVars, cache, clock, verified>>

(* The file is replaced as a whole; a Store that fails is a warning.  Its  *)
(* time is the wall clock's, which may not have moved since the last one.  *)
StoreWrite(b) ==
    /\ batch[b].pc = "writing"
    /\ \/ /\ cache' = Merged(batch[b].hint, batch[b].copy)
          /\ verified' = Merged(batch[b].hint, verified)
          /\ clock' \in {clock, clock + 1}
       \/ UNCHANGED <<cache, clock, verified>>
    /\ cacheLock' = Nobody /\ Now(b, Gone)
    /\ UNCHANGED platformVars
StoreFails(b) ==
    /\ batch[b].pc = "storing"
    /\ Now(b, Gone)
    /\ UNCHANGED <<platformVars, fileVars>>

(* A process dies: the system frees its lock.                              *)
VerificationCrash(b) ==
    /\ batch[b].pc \notin {"idle", "ended"}
    /\ Now(b, Gone)
    /\ cacheLock' = IF cacheLock = b THEN Nobody ELSE cacheLock
    /\ UNCHANGED <<platformVars, cache, clock, verified>>

(* Creators are renamed, authorized and barred; entries grow old.          *)
OfficialTurn ==
    /\ turns < MaxTurns
    /\ \/ \E c \in Creators : \E n \in Names \ Range(name) :
             name' = [name EXCEPT ![c] = n] /\ UNCHANGED <<usable, cutoff>>
       \/ \E c \in Creators :
             usable' = (IF c \in usable THEN usable \ {c} ELSE usable \cup {c}) /\ UNCHANGED <<name, cutoff>>
       \/ cutoff' \in cutoff + 1 .. clock /\ UNCHANGED <<name, usable>>
    /\ turns' = turns + 1
    /\ batch' = [b \in Batches |-> IF batch[b].pc \in {"idle", "ended", "storing", "writing"} THEN batch[b]
                                   ELSE [batch[b] EXCEPT !.seen = @ \cup usable',
                                            !.steady = @ /\ name' = name /\ usable' = usable]]
    /\ UNCHANGED fileVars

VerificationStep(b) ==
    \/ ResolveLinks(b) \/ LoadHints(b) \/ ResolveMetadata(b) \/ (\E c \in Creators : AuthorizeHint(b, c))
    \/ VerifyOwnership(b) \/ VerifyProducts(b) \/ ReturnVerification(b)
    \/ StoreRead(b) \/ StoreWrite(b) \/ StoreFails(b) \/ VerificationCrash(b)
VerificationNext == OfficialTurn \/ \E b \in Batches : VerificationStep(b)

-----------------------------------------------------------------------------
(* Properties                                                              *)

(* What a batch goes on with was confirmed by the platform in this run,    *)
(* whatever the owner file and F2 said: the work is its creator's, the     *)
(* creator was authorized meanwhile, one of the products shows it.         *)
MatchedIsOfficial ==
    \A b \in Batches : batch[b].pc = "verified"
    => \A w \in batch[b].works :
          /\ OwnerOf[w] \in batch[b].seen /\ OwnerOf[w] = batch[b].hint[w].creator
          /\ \E p \in DOMAIN ShowsUnder : w \in ShowsUnder[p]

(* Why a work is left out is true, as long as nothing changed meanwhile: a *)
(* query that failed is never told as a mismatch, and every work of the    *)
(* batch is either used or has its reason.  (That a creator is unavailable *)
(* means: under the number the hint gives.  A creator renamed since the    *)
(* entry was written is left out until the entry is 30 days old.)          *)
VerdictIsTrue(b, w) ==
    LET hint == batch[b].hint[w]
    IN CASE batch[b].skipped[w] = "creator_unavailable" -> ~Findable(b, hint.creator)
         [] batch[b].skipped[w] = "creator_work_mismatch" -> OwnerOf[w] # hint.creator
         [] batch[b].skipped[w] = "product_mismatch" -> \A p \in DOMAIN ShowsUnder : w \notin ShowsUnder[p]
         [] OTHER -> batch[b].failed
VerdictsAreTrue ==
    \A b \in Batches : batch[b].pc = "verified"
    => /\ batch[b].works \cap DOMAIN batch[b].skipped = {}
       /\ batch[b].works \cup DOMAIN batch[b].skipped = DOMAIN batch[b].hint
       /\ batch[b].steady => \A w \in DOMAIN batch[b].skipped : VerdictIsTrue(b, w)

(* Files and F2 give hints only; what is done with a work, and what is     *)
(* said of it, rests on the platform's answers.                            *)
WorksAreJudgedOfficially == MatchedIsOfficial /\ VerdictsAreTrue

(* The owner file holds what the commands verified, whichever of them      *)
(* stored at the same time or died, nothing that only F2 said, and no more *)
(* than the maximum.                                                       *)
CacheIsVerified ==
    /\ cache = verified
    /\ \A w \in DOMAIN cache : cache[w].creator = OwnerOf[w]
    /\ Cardinality(DOMAIN cache) <= CacheMax
=============================================================================
