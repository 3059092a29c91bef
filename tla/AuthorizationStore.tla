-------------------------- MODULE AuthorizationStore --------------------------
(***************************************************************************)
(* The state file of an authorization channel as it lies on disk: one      *)
(* manifest per generation, written once, and current.json, which names    *)
(* the generation in use and its checksum.  An update locks the channel,   *)
(* loads, changes the state, writes a manifest under a generation that is  *)
(* free, reads it back and then replaces current.json.  It may die or fail *)
(* at every step and leave a manifest nobody names.  Commands that only    *)
(* look at the state load it without the lock.                             *)
(***************************************************************************)
EXTENDS Integers

CONSTANTS
    StoreUsers,     \* processes that load or update the channel
    Contents,       \* what a state may say besides its generation
    MaxGeneration,  \* bound: manifests
    Absent,         \* no file; as a state, the empty one
    Corrupt, Unread

Generations == 1..MaxGeneration
States == [generation : Generations, content : Contents]

ASSUME StoreAssumption ==
    /\ MaxGeneration \in Nat /\ Absent # Corrupt /\ Unread \notin {Absent, Corrupt}
    /\ {Absent, Corrupt, Unread} \cap States = {} /\ Absent \notin StoreUsers

VARIABLES
    manifests,   \* manifest-<generation>.json
    current,     \* current.json; the checksum in it stands for the state it is the checksum of
    channelLock, \* holder of the channel's lock file
    user         \* each process: where it is, the current.json it read, what it loaded and will write

storeVars == <<manifests, current, channelLock, user>>

NewUser == [pc |-> "idle", pointer |-> Absent, loaded |-> Unread, next |-> Absent]
Going(u, pc) == [user[u] EXCEPT !.pc = pc]
Goes(u, new) == user' = [user EXCEPT ![u] = new]

StoreInit ==
    /\ manifests = [g \in Generations |-> Absent] /\ current = Absent
    /\ channelLock = Absent /\ user = [u \in StoreUsers |-> NewUser]

-----------------------------------------------------------------------------
(* Loading                                                                 *)

(* What readCurrent returns for a current.json that was read: no file is   *)
(* the empty state; a manifest that is missing or has another checksum is  *)
(* an error.                                                               *)
ManifestOf(pointer) ==
    IF pointer = Absent THEN Absent
    ELSE IF manifests[pointer.generation] = pointer THEN pointer ELSE Corrupt

(* LoadChannel, first file.  A reader has no lock.                         *)
ReadCurrent(u) ==
    /\ user[u].pc \in {"idle", "locked"}
    /\ Goes(u, [user[u] EXCEPT !.pc = IF user[u].pc = "idle" THEN "reading" ELSE "loading",
                               !.pointer = current])
    /\ UNCHANGED <<manifests, current, channelLock>>

(* LoadChannel, second file.  An update ends on an error.                  *)
ReadManifest(u) ==
    /\ user[u].pc \in {"reading", "loading"}
    /\ LET state == ManifestOf(user[u].pointer)
           loaded == [user[u] EXCEPT !.pointer = Absent, !.loaded = state]
       IN Goes(u, [loaded EXCEPT !.pc =
                      IF user[u].pc = "reading" \/ state = Corrupt THEN "leaving" ELSE "loaded"])
    /\ UNCHANGED <<manifests, current, channelLock>>

-----------------------------------------------------------------------------
(* Updating                                                                *)

(* Mutant: the state is loaded before the lock is there.                   *)
LockFileThere == TRUE

LockFileFree == channelLock = Absent

UpdateChannel(u) ==
    /\ user[u].pc = "idle" /\ LockFileFree
    /\ channelLock' = u
    /\ Goes(u, Going(u, "locked"))
    /\ UNCHANGED <<manifests, current>>

NextGeneration(state) == IF state = Absent THEN 1 ELSE state.generation + 1

(* A generation that has no manifest, or just this one, which a commit     *)
(* that was cut off has left.                                              *)
FreeFor(state, g) == manifests[g] \in {Absent, [state EXCEPT !.generation = g]}

(* The callback changes the state; the generation moves on past manifests  *)
(* of other states.                                                        *)
ChangeState(u) ==
    /\ user[u].pc = "loaded"
    /\ \E content \in Contents, g \in Generations :
         LET first == NextGeneration(user[u].loaded)
             state == [generation |-> g, content |-> content]
         IN /\ g >= first /\ FreeFor(state, g)
            /\ \A h \in first..(g - 1) : ~FreeFor(state, h)
            /\ Goes(u, [user[u] EXCEPT !.pc = "changed", !.next = state])
    /\ UNCHANGED <<manifests, current, channelLock>>

WriteManifest(u) ==
    /\ user[u].pc = "changed"
    /\ manifests' = [manifests EXCEPT ![user[u].next.generation] = user[u].next]
    /\ Goes(u, Going(u, "written"))
    /\ UNCHANGED <<current, channelLock>>

(* Mutant: current.json is replaced without a look at the manifest.        *)
WriteCurrentAnyway(u) ==
    /\ user[u].pc \in {"changed", "written"}
    /\ current' = user[u].next
    /\ Goes(u, Going(u, "leaving"))
    /\ UNCHANGED <<manifests, channelLock>>

(* The manifest is read back, then current.json is renamed into place.     *)
WriteCurrent(u) ==
    /\ user[u].pc = "written" /\ manifests[user[u].next.generation] = user[u].next
    /\ current' = user[u].next
    /\ Goes(u, Going(u, "leaving"))
    /\ UNCHANGED <<manifests, channelLock>>

(* UpdateChannel returns, or the process dies, or anything fails on the    *)
(* way: the callback refuses, a file cannot be read or written, or its     *)
(* write is reported as failed although it took effect.                    *)
ReleaseChannel(u) ==
    /\ user[u].pc # "idle"
    /\ channelLock' = IF channelLock = u THEN Absent ELSE channelLock
    /\ Goes(u, NewUser)
    /\ UNCHANGED <<manifests, current>>

StoreStep(u) ==
    \/ ReadCurrent(u) \/ ReadManifest(u)
    \/ UpdateChannel(u) \/ ChangeState(u) \/ WriteManifest(u) \/ WriteCurrent(u) \/ ReleaseChannel(u)
StoreNext == \E u \in StoreUsers : StoreStep(u)
StoreSpec == StoreInit /\ [][StoreNext]_storeVars

-----------------------------------------------------------------------------
(* Properties                                                              *)

(* A load takes place when current.json is read: what the manifest says is *)
(* decided from then on.                                                   *)
AnswerOf(u) ==
    IF user[u].pc \in {"reading", "loading"} THEN ManifestOf(user[u].pointer) ELSE user[u].loaded

State == INSTANCE AtomicState WITH
    Users <- StoreUsers, Values <- States, Initial <- Absent, Nothing <- Unread,
    value <- ManifestOf(current), answer <- [u \in StoreUsers |-> AnswerOf(u)]

(* Two files are one state: whatever commit was cut off and however loads  *)
(* overlap with it, no load finds a manifest missing or changed, each gets *)
(* the state of the moment, and no update is lost.  Authorization takes    *)
(* loads and commits as single steps because of this.                      *)
StateIsAtomic == State!Spec
=============================================================================
